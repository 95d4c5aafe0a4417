------------------------ MODULE RecipeExchangeProofs ------------------------
(***************************************************************************)
(* What TLAPS proves of RecipeExchange for any nodes, networks and bounds: *)
(* its invariants.  Whoever is owed an answer stays owed (posts and        *)
(* filters only grow), so an answer that was right when its task was       *)
(* spawned is right wherever it has got to since; the answer that is due   *)
(* moves from task to channel to wire and is never lost between them; and  *)
(* a filter lets a request make only one.  With these each step is a step  *)
(* of RecipeBoard, or nothing that the board sees.                         *)
(***************************************************************************)
EXTENDS RecipeExchange, SequenceTheorems, FiniteSetTheorems, TLAPS

\* The requests that have reached q, with their senders.
Owed(q) == {a \in Node \X Nat : IsRequestFor(a[2], a[1], q) /\ a[2] \in received[q]}
Responses(q) == {ListResponse(a[1], a[2]) : a \in Owed(q)}
Requests == {ListRequest(m) : m \in Node \cup {"All"}}
Broadcasts == {ListBroadcast(p) : p \in Node}

\* Everything on its way to be an answer is owed.
AllOwed ==
  /\ \A q \in Node : \A r \in responders[q] : <<r.to, r.re>> \in Owed(q)
  /\ \A q \in Node : response_rcv[q] \in Seq(Responses(q))
  /\ \A q \in Node : broadcast_rcv[q] \in Seq(Broadcasts)
  /\ \A q \in Node : \A k \in DOMAIN posts :
       posts[k].source = q => posts[k].json \in Requests \cup Broadcasts \cup Responses(q)

\* What was printed bore the node's name, and was what it was printed as.
HeardHere ==
  \A n \in Node : \A h \in heard[n] :
    /\ h[1] \in DOMAIN posts /\ posts[h[1]].json.receiver = n
    /\ h[2] = "response" => posts[h[1]].json.fields = Field
    /\ h[2] = "broadcast" => posts[h[1]].json = ListBroadcast(n)

IndInv == TypeOK /\ ViewFollowsDiscovery /\ AllOwed /\ HeardHere

-----------------------------------------------------------------------------
(* Messages *)

\* Every kind of message is what its fields say.
LEMMA Kinds ==
  /\ \A j \in Requests : j \in Json /\ kind(j) = "request" /\ j.fields = {"mode"}
                         /\ j.receiver = "none"
  /\ \A j \in Broadcasts : j \in Json /\ kind(j) = "broadcast" /\ j.fields = {"data", "receiver"}
  /\ \A q \in Node : \A j \in Responses(q) :
       j \in Json /\ kind(j) = "response" /\ j.fields = Field
  <1>1. ASSUME NEW m \in Node \cup {"All"}
        PROVE  LET j == ListRequest(m) IN
               j \in Json /\ kind(j) = "request" /\ j.fields = {"mode"} /\ j.receiver = "none"
    BY DEF ListRequest, Json, Field, kind, has
  <1>2. ASSUME NEW p \in Node
        PROVE  LET j == ListBroadcast(p) IN
               j \in Json /\ kind(j) = "broadcast" /\ j.fields = {"data", "receiver"}
    BY DEF ListBroadcast, Json, Field, kind, has
  <1>3. ASSUME NEW p \in Node, NEW i \in Nat
        PROVE  LET j == ListResponse(p, i) IN
               j \in Json /\ kind(j) = "response" /\ j.fields = Field
    BY DEF ListResponse, Json, Field, kind, has
  <1>. QED  BY <1>1, <1>2, <1>3 DEF Requests, Broadcasts, Responses, Owed

LEMMA PostsKept ==
  ASSUME posts \in Seq(Post), NEW x \in Post
  PROVE  /\ Append(posts, x) \in Seq(Post)
         /\ Len(posts) \in Nat /\ Len(Append(posts, x)) = Len(posts) + 1
         /\ DOMAIN posts = 1..Len(posts)
         /\ DOMAIN Append(posts, x) = 1..(Len(posts) + 1)
         /\ \A i \in 1..Len(posts) : Append(posts, x)[i] = posts[i]
         /\ Append(posts, x)[Len(posts) + 1] = x
  BY AppendProperties, LenProperties

LEMMA Sources == TypeOK => \A k \in DOMAIN posts : posts[k].source \in Node
  <1>. SUFFICES ASSUME TypeOK, NEW k \in DOMAIN posts PROVE posts[k].source \in Node
    OBVIOUS
  <1>1. posts \in Seq(Post)
    BY DEF TypeOK
  <1>2. k \in 1..Len(posts)
    BY <1>1, LenProperties
  <1>3. posts[k] \in Post
    BY <1>1, <1>2, ElementOfSeq
  <1>. QED  BY <1>3 DEF Post

\* A debt stays: posts and filters only grow.
LEMMA OwedStays ==
  ASSUME NEW q \in Node, received[q] \subseteq received'[q],
         \A i \in DOMAIN posts : i \in DOMAIN posts' /\ posts'[i] = posts[i]
  PROVE  Owed(q) \subseteq Owed(q)' /\ Responses(q) \subseteq Responses(q)'
  <1>1. Owed(q) \subseteq Owed(q)'
    BY DEF Owed, IsRequestFor, ListRequest
  <1>. QED  BY <1>1 DEF Responses

\* So does everything on its way.
LEMMA AllOwedStays ==
  ASSUME AllOwed,
         \A q \in Node : received[q] \subseteq received'[q],
         \A i \in DOMAIN posts : i \in DOMAIN posts' /\ posts'[i] = posts[i],
         \A i \in DOMAIN posts : posts[i].source \in Node
  PROVE  /\ \A q \in Node : \A r \in responders[q] : <<r.to, r.re>> \in Owed(q)'
         /\ \A q \in Node : response_rcv[q] \in Seq(Responses(q)')
         /\ \A q \in Node : \A k \in DOMAIN posts : posts'[k].source = q =>
              posts'[k].json \in Requests \cup Broadcasts \cup Responses(q)'
  <1>1. \A q \in Node : Owed(q) \subseteq Owed(q)' /\ Responses(q) \subseteq Responses(q)'
    BY OwedStays
  <1>2. ASSUME NEW q \in Node PROVE response_rcv[q] \in Seq(Responses(q)')
    <2>1. response_rcv[q] \in Seq(Responses(q)) /\ Responses(q) \subseteq Responses(q)'
      BY <1>1 DEF AllOwed
    <2>. QED  BY <2>1, SeqMonotonic
  <1>3. ASSUME NEW q \in Node, NEW k \in DOMAIN posts, posts'[k].source = q
        PROVE  posts'[k].json \in Requests \cup Broadcasts \cup Responses(q)'
    BY <1>1, <1>3 DEF AllOwed
  <1>. QED  BY <1>1, <1>2, <1>3 DEF AllOwed

-----------------------------------------------------------------------------
(* The inductive invariant *)

LEMMA InitIndInv == Init => IndInv
  <1>. SUFFICES ASSUME Init PROVE IndInv
    OBVIOUS
  <1>1. <<>> \in Seq(Post) /\ <<>> \in Seq(Json) /\ Len(<<>>) = 0 /\ DOMAIN <<>> = {}
        /\ \A q \in Node : <<>> \in Seq(Responses(q)) /\ <<>> \in Seq(Broadcasts)
    OBVIOUS
  <1>2. TypeOK
    BY <1>1, ExchangeBoundAssumption DEF Init, TypeOK
  <1>3. ViewFollowsDiscovery
    BY DEF Init, ViewFollowsDiscovery, peers
  <1>4. AllOwed /\ HeardHere
    BY <1>1 DEF Init, AllOwed, HeardHere
  <1>. QED  BY <1>2, <1>3, <1>4 DEF IndInv

\* The parts of the state a step leaves alone keep their part of the invariant.
LEMMA OwedUnchanged ==
  ASSUME AllOwed, HeardHere, UNCHANGED <<posts, received, loop>>
  PROVE  AllOwed' /\ HeardHere'
  <1>1. \A q \in Node : Owed(q)' = Owed(q) /\ Responses(q)' = Responses(q)
    BY DEF Owed, Responses, IsRequestFor, ListRequest
  <1>. QED  BY <1>1 DEF AllOwed, HeardHere, loop

\* Breaking links leaves messages and subscriptions to the links that are left.
LEMMA BreakType ==
  ASSUME TypeOK, NEW L \in SUBSET links, Break(L)
  PROVE  /\ links' \subseteq SUBSET Node /\ subscribers' \in [Node -> SUBSET Node]
         /\ wire' \subseteq [from : Node, to : Node, what : 0..Len(posts)]
         /\ \A m \in wire' : {m.from, m.to} \in links'
         /\ \A n \in Node : \A p \in subscribers'[n] : {n, p} \in links'
  <1>1. links' \subseteq SUBSET Node /\ wire' \subseteq wire
    BY DEF TypeOK, Break
  <1>2. \A m \in wire' : {m.from, m.to} \in links'
    BY DEF TypeOK, Break
  <1>3. /\ subscribers' \in [Node -> SUBSET Node]
        /\ \A n \in Node : \A p \in subscribers'[n] : {n, p} \in links'
    BY DEF TypeOK, Break
  <1>. QED  BY <1>1, <1>2, <1>3 DEF TypeOK

\* The steps of mDNS and of the connections.
LEMMA LocalSteps ==
  ASSUME IndInv, NEW n \in Node, NEW q \in Node, NEW R \in SUBSET Record,
         Discovered(n, R) \/ Expired(n, R) \/ Connect(n, q) \/ Disconnect(n, q)
  PROVE  IndInv'
  <1>. USE DEF IndInv
  <1>1. AllOwed' /\ HeardHere'
    <2>1. UNCHANGED <<posts, received, loop>>
      BY DEF Discovered, Expired, Connect, Disconnect, Lose, Break, library
    <2>. QED  BY <2>1, OwedUnchanged
  <1>2. \A r \in Record : r.peer \in Node
    BY LocalAssumption
  <1>3. CASE Discovered(n, R)
    <2>1. peers(R) \subseteq Node
      BY <1>2 DEF peers
    <2>2. ViewFollowsDiscovery'
      BY <1>3 DEF Discovered, ViewFollowsDiscovery, TypeOK, peers
    <2>3. view' \in [Node -> SUBSET Node]
      BY <1>3, <2>1 DEF Discovered, TypeOK
    <2>4. /\ wire' \subseteq [from : Node, to : Node, what : 0..Len(posts)]
          /\ \A m \in wire' : {m.from, m.to} \in links
      <3>1. 0 \in 0..Len(posts)
        BY LenProperties DEF TypeOK
      <3>2. \A p \in peers(R) : {n, p} \in links =>
              LET m == [from |-> n, to |-> p, what |-> Subscription] IN
              m \in [from : Node, to : Node, what : 0..Len(posts)] /\ {m.from, m.to} \in links
        BY <2>1, <3>1 DEF Subscription
      <3>3. \A m \in Send(n, {p \in peers(R) : {n, p} \in links}, Subscription) :
              m \in [from : Node, to : Node, what : 0..Len(posts)] /\ {m.from, m.to} \in links
        BY <3>2 DEF Send
      <3>. QED  BY <1>3, <3>3 DEF Discovered, TypeOK
    <2>5. TypeOK'
      BY <1>3, <2>3, <2>4 DEF Discovered, TypeOK, loop
    <2>. QED  BY <1>1, <2>2, <2>5
  <1>4. CASE Expired(n, R)
    <2>1. ViewFollowsDiscovery'
      BY <1>4 DEF Expired, ViewFollowsDiscovery, TypeOK, peers, stale
    <2>2. faults' \in 0..MaxFaults
      BY <1>4, ExchangeBoundAssumption DEF Expired, Fault, TypeOK
    <2>3. view' \in [Node -> SUBSET Node] /\ discovered' \in [Node -> SUBSET Record]
      BY <1>4 DEF Expired, TypeOK
    <2>4. TypeOK'
      BY <1>4, <2>2, <2>3 DEF Expired, Fault, TypeOK, library, loop
    <2>. QED  BY <1>1, <2>1, <2>4
  <1>5. CASE Connect(n, q)
    <2>1. ViewFollowsDiscovery'
      BY <1>5 DEF Connect, ViewFollowsDiscovery, local
    <2>2. /\ wire' \subseteq [from : Node, to : Node, what : 0..Len(posts)]
          /\ \A m \in wire' : {m.from, m.to} \in links'
      <3>1. 0 \in 0..Len(posts)
        BY LenProperties DEF TypeOK
      <3>2. \A m \in Send(n, {q}, Subscription) \cup Send(q, {n}, Subscription) :
              m \in [from : Node, to : Node, what : 0..Len(posts)] /\ {m.from, m.to} = {n, q}
        BY <3>1 DEF Send, Subscription
      <3>. QED  BY <1>5, <3>2 DEF Connect, TypeOK
    <2>3. TypeOK'
      BY <1>5, <2>2 DEF Connect, TypeOK, local, loop
    <2>. QED  BY <1>1, <2>1, <2>3
  <1>6. CASE Disconnect(n, q)
    <2>1. ViewFollowsDiscovery'
      BY <1>6 DEF Disconnect, ViewFollowsDiscovery
    <2>2. faults' \in 0..MaxFaults
      BY <1>6, ExchangeBoundAssumption DEF Disconnect, Fault, TypeOK
    <2>3. kademlia' \in [Node -> SUBSET Record]
      BY <1>6 DEF Disconnect, Lose, TypeOK
    <2>4. {{n, q}} \in SUBSET links /\ Break({{n, q}})
      BY <1>6 DEF Disconnect, Lose
    <2>5. TypeOK'
      BY <1>6, <2>2, <2>3, <2>4, BreakType DEF Disconnect, Lose, Break, Fault, TypeOK, loop
    <2>. QED  BY <1>1, <2>1, <2>5
  <1>. QED  BY <1>3, <1>4, <1>5, <1>6

-----------------------------------------------------------------------------
(* Publishing *)

LEMMA PublishStep ==
  ASSUME IndInv, NEW n \in Node,
         NEW json \in Requests \cup Broadcasts \cup Responses(n), publish(n, json)
  PROVE  /\ posts' \in Seq(Post) /\ received' \in [Node -> SUBSET (1..Len(posts'))]
         /\ wire' \subseteq [from : Node, to : Node, what : 0..Len(posts')]
         /\ \A m \in wire' : {m.from, m.to} \in links
         /\ UNCHANGED <<links, subscribers>>
         /\ heard \in [Node -> SUBSET ((1..Len(posts')) \X {"response", "broadcast"})]
         /\ \A q \in Node : \A r \in responders[q] : <<r.to, r.re>> \in Owed(q)'
         /\ \A q \in Node : response_rcv[q] \in Seq(Responses(q)')
         /\ \A q \in Node : \A k \in DOMAIN posts' :
              posts'[k].source = q => posts'[k].json \in Requests \cup Broadcasts \cup Responses(q)'
         /\ UNCHANGED heard => HeardHere'
  <1>. USE DEF IndInv
  <1>. DEFINE x == [source |-> n, json |-> json]
              i == Len(posts) + 1
  <1>1. json \in Json
    BY Kinds
  <1>2. x \in Post /\ posts \in Seq(Post)
    BY <1>1 DEF Post, TypeOK
  <1>3. /\ posts' = Append(posts, x)
        /\ received' = [received EXCEPT ![n] = @ \cup {i}]
        /\ wire' = wire \cup Send(n, Targets(n), i)
        /\ UNCHANGED <<links, subscribers>>
    BY DEF publish
  <1>4. /\ posts' \in Seq(Post) /\ Len(posts) \in Nat /\ Len(posts') = i
        /\ DOMAIN posts = 1..Len(posts) /\ DOMAIN posts' = 1..i
        /\ \A k \in 1..Len(posts) : posts'[k] = posts[k]
        /\ posts'[i] = x
    BY <1>2, <1>3, PostsKept
  <1>. HIDE DEF x
  <1>5. i \in Nat /\ i \in 1..Len(posts') /\ 1..Len(posts) \subseteq 1..Len(posts')
        /\ 0..Len(posts) \subseteq 0..Len(posts') /\ i \in 0..Len(posts')
    BY <1>4
  <1>6. received' \in [Node -> SUBSET (1..Len(posts'))]
    <2>1. received \in [Node -> SUBSET (1..Len(posts))]
      BY DEF TypeOK
    <2>. QED  BY <1>3, <1>5, <2>1
  <1>7. /\ wire' \subseteq [from : Node, to : Node, what : 0..Len(posts')]
        /\ \A m \in wire' : {m.from, m.to} \in links
    <2>1. Targets(n) \subseteq Node /\ \A p \in Targets(n) : {n, p} \in links
      BY DEF Targets, TypeOK
    <2>2. \A m \in Send(n, Targets(n), i) :
            m \in [from : Node, to : Node, what : 0..Len(posts')] /\ {m.from, m.to} \in links
      <3>1. \A p \in Targets(n) :
              LET m == [from |-> n, to |-> p, what |-> i] IN
              m \in [from : Node, to : Node, what : 0..Len(posts')] /\ {m.from, m.to} \in links
        BY <1>5, <2>1
      <3>. QED  BY <3>1 DEF Send
    <2>3. wire \subseteq [from : Node, to : Node, what : 0..Len(posts)]
          /\ \A m \in wire : {m.from, m.to} \in links
      BY DEF TypeOK
    <2>4. wire \subseteq [from : Node, to : Node, what : 0..Len(posts')]
      BY <1>5, <2>3
    <2>. QED  BY <1>3, <2>2, <2>3, <2>4
  <1>8. heard \in [Node -> SUBSET ((1..Len(posts')) \X {"response", "broadcast"})]
    <2>1. heard \in [Node -> SUBSET ((1..Len(posts)) \X {"response", "broadcast"})]
      BY DEF TypeOK
    <2>. QED  BY <1>5, <2>1
  <1>9. /\ \A q \in Node : received[q] \subseteq received'[q]
        /\ \A k \in DOMAIN posts : k \in DOMAIN posts' /\ posts'[k] = posts[k]
        /\ \A k \in DOMAIN posts : posts[k].source \in Node
    <2>1. received \in [Node -> SUBSET (1..Len(posts))]
      BY DEF TypeOK
    <2>2. \A k \in 1..Len(posts) : posts[k] \in Post
      BY <1>2, <1>4, ElementOfSeq
    <2>3. \A k \in 1..Len(posts) : posts[k].source \in Node
      BY <2>2 DEF Post
    <2>4. \A q \in Node : received[q] \subseteq received'[q]
      BY <1>3, <2>1
    <2>. QED  BY <1>4, <1>5, <2>3, <2>4
  <1>10. /\ \A q \in Node : \A r \in responders[q] : <<r.to, r.re>> \in Owed(q)'
         /\ \A q \in Node : response_rcv[q] \in Seq(Responses(q)')
         /\ \A q \in Node : \A k \in DOMAIN posts : posts'[k].source = q =>
              posts'[k].json \in Requests \cup Broadcasts \cup Responses(q)'
    BY <1>9, AllOwedStays
  <1>11. ASSUME NEW q \in Node, NEW k \in DOMAIN posts', posts'[k].source = q
         PROVE  posts'[k].json \in Requests \cup Broadcasts \cup Responses(q)'
    <2>1. CASE k \in DOMAIN posts
      BY <1>10, <1>11, <2>1
    <2>2. CASE k = i
      <3>1. q = n /\ posts'[k].json = json
        BY <1>4, <1>11, <2>2 DEF x
      <3>2. Responses(n) \subseteq Responses(n)'
        BY <1>9, OwedStays
      <3>. QED  BY <3>1, <3>2
    <2>. QED  BY <1>4, <1>11, <2>1, <2>2
  <1>12. ASSUME UNCHANGED heard PROVE HeardHere'
    BY <1>9, <1>12 DEF HeardHere
  <1>. QED  BY <1>3, <1>4, <1>6, <1>7, <1>8, <1>10, <1>11, <1>12

-----------------------------------------------------------------------------
(* The steps of the users and of the main loops *)

LEMMA CommandSteps ==
  ASSUME IndInv, NEW n \in Node, Command(n)
  PROVE  IndInv'
  <1>. USE DEF IndInv
  <1>1. CASE handle_list_recipes(n)
    <2>1. PICK m \in {"All"} \cup Named : publish(n, ListRequest(m))
      BY <1>1 DEF handle_list_recipes
    <2>2. ListRequest(m) \in Requests
      BY LocalAssumption DEF Requests
    <2>3. UNCHANGED <<status, discovered, view, kademlia, responders, response_rcv,
                      broadcast_rcv, heard, answerable, faults>>
      BY <1>1 DEF handle_list_recipes, local, loop
    <2>4. asks' \in 0..MaxAsks
      BY <1>1, ExchangeBoundAssumption DEF handle_list_recipes, Typed, TypeOK
    <2>5. TypeOK'
      BY <2>1, <2>2, <2>3, <2>4, PublishStep DEF TypeOK
    <2>6. AllOwed' /\ HeardHere'
      BY <2>1, <2>2, <2>3, PublishStep DEF AllOwed
    <2>7. ViewFollowsDiscovery'
      BY <2>3 DEF ViewFollowsDiscovery
    <2>. QED  BY <2>5, <2>6, <2>7
  <1>2. CASE handle_broadcast_recipe(n)
    <2>. DEFINE S == peers(discovered[n])
    <2>1. S \subseteq Node /\ Cardinality(S) \in Nat
      <3>1. discovered[n] \subseteq Record
        BY DEF TypeOK
      <3>2. S \subseteq Node
        BY <3>1, LocalAssumption DEF peers
      <3>3. IsFiniteSet(S)
        BY <3>2, NodeAssumption, FS_Subset
      <3>. QED  BY <3>2, <3>3, FS_CardinalityType
    <2>2. PICK s \in SetToSeqs(S) :
            broadcast_rcv' = [broadcast_rcv EXCEPT ![n] =
                                @ \o [i \in DOMAIN s |-> ListBroadcast(s[i])]]
      BY <1>2 DEF handle_broadcast_recipe
    <2>3. s \in [1..Cardinality(S) -> S]
      BY DEF SetToSeqs
    <2>4. [i \in DOMAIN s |-> ListBroadcast(s[i])] \in [1..Cardinality(S) -> Broadcasts]
      BY <2>1, <2>3 DEF Broadcasts
    <2>5. [i \in DOMAIN s |-> ListBroadcast(s[i])] \in Seq(Broadcasts)
      BY <2>1, <2>4, SeqDef
    <2>6. \A q \in Node : broadcast_rcv'[q] \in Seq(Broadcasts)
      <3>1. broadcast_rcv[n] \in Seq(Broadcasts)
        BY DEF AllOwed
      <3>2. broadcast_rcv[n] \o [i \in DOMAIN s |-> ListBroadcast(s[i])] \in Seq(Broadcasts)
        BY <2>5, <3>1, ConcatProperties
      <3>. QED  BY <2>2, <3>2 DEF AllOwed, TypeOK
    <2>7. broadcast_rcv' \in [Node -> Seq(Json)]
      <3>1. \A q \in Node : broadcast_rcv'[q] \in Seq(Json)
        <4>1. Broadcasts \subseteq Json
          BY Kinds
        <4>. QED  BY <2>6, <4>1, SeqMonotonic
      <3>2. broadcast_rcv' = [q \in Node |-> broadcast_rcv'[q]]
        BY <2>2 DEF TypeOK
      <3>. QED  BY <3>1, <3>2
    <2>8. UNCHANGED <<status, discovered, view, kademlia, links, subscribers, wire, posts,
                      received, responders, response_rcv, heard, answerable, faults>>
      BY <1>2 DEF handle_broadcast_recipe, local, library
    <2>9. asks' \in 0..MaxAsks
      BY <1>2, ExchangeBoundAssumption DEF handle_broadcast_recipe, Typed, TypeOK
    <2>10. TypeOK'
      BY <2>7, <2>8, <2>9 DEF TypeOK
    <2>11. AllOwed'
      <3>1. \A q \in Node : Owed(q)' = Owed(q) /\ Responses(q)' = Responses(q)
        BY <2>8 DEF Owed, Responses, IsRequestFor, ListRequest
      <3>. QED  BY <2>6, <2>8, <3>1 DEF AllOwed
    <2>12. HeardHere' /\ ViewFollowsDiscovery'
      BY <2>8 DEF HeardHere, ViewFollowsDiscovery
    <2>. QED  BY <2>10, <2>11, <2>12
  <1>3. CASE BroadcastPanic(n)
    <2>1. PICK how \in {"mdns_panic", "read_panic"} : Panic(n, how)
      BY <1>3 DEF BroadcastPanic
    <2>2. asks' \in 0..MaxAsks /\ faults' \in 0..MaxFaults
      BY <1>3, ExchangeBoundAssumption DEF BroadcastPanic, Typed, Fault, TypeOK
    <2>3. /\ UNCHANGED <<posts, received, loop, discovered, view>>
          /\ Break({l \in links : n \in l}) /\ answerable' = {}
          /\ status' \in [Node -> {"running", "mdns_panic", "read_panic"}]
          /\ kademlia' \in [Node -> SUBSET Record]
      BY <2>1 DEF Panic, Lose, Break, TypeOK
    <2>4. {l \in links : n \in l} \in SUBSET links
      OBVIOUS
    <2>5. TypeOK'
      BY <2>2, <2>3, <2>4, BreakType DEF TypeOK, loop
    <2>6. ViewFollowsDiscovery'
      BY <2>3 DEF ViewFollowsDiscovery
    <2>. QED  BY <2>3, <2>5, <2>6, OwedUnchanged
  <1>. QED  BY <1>1, <1>2, <1>3 DEF Command

LEMMA TurnSteps ==
  ASSUME IndInv, NEW n \in Node, Turn(n)
  PROVE  IndInv'
  <1>. USE DEF IndInv
  <1>1. ASSUME NEW r \in responders[n], respond_with_public_recipes(n, r) PROVE IndInv'
    <2>1. UNCHANGED <<status, discovered, view, kademlia, links, subscribers, wire, posts,
                      received, broadcast_rcv, heard, asks>>
      BY <1>1 DEF respond_with_public_recipes, local, library
    <2>2. \A q \in Node : Owed(q)' = Owed(q) /\ Responses(q)' = Responses(q)
      BY <2>1 DEF Owed, Responses, IsRequestFor, ListRequest
    <2>3. ListResponse(r.to, r.re) \in Responses(n)
      <3>1. <<r.to, r.re>> \in Owed(n)
        BY DEF AllOwed
      <3>2. LET a == <<r.to, r.re>> IN ListResponse(r.to, r.re) = ListResponse(a[1], a[2])
        OBVIOUS
      <3>. QED  BY <3>1, <3>2 DEF Responses
    <2>4. /\ responders' \in [Node -> SUBSET [to : Node, re : Nat]]
          /\ \A q \in Node : responders'[q] \subseteq responders[q]
      BY <1>1 DEF respond_with_public_recipes, TypeOK
    <2>5. \A q \in Node : response_rcv'[q] \in Seq(Responses(q))
      <3>1. response_rcv[n] \in Seq(Responses(n))
        BY DEF AllOwed
      <3>2. Append(response_rcv[n], ListResponse(r.to, r.re)) \in Seq(Responses(n))
        BY <2>3, <3>1, AppendProperties
      <3>. QED  BY <1>1, <3>2 DEF respond_with_public_recipes, AllOwed, TypeOK
    <2>6. response_rcv' \in [Node -> Seq(Json)]
      <3>1. \A q \in Node : response_rcv'[q] \in Seq(Json)
        <4>1. \A q \in Node : Responses(q) \subseteq Json
          BY Kinds
        <4>. QED  BY <2>5, <4>1, SeqMonotonic
      <3>2. response_rcv' = [q \in Node |-> response_rcv'[q]]
        BY <1>1 DEF respond_with_public_recipes, TypeOK
      <3>. QED  BY <3>1, <3>2
    <2>7. faults' \in 0..MaxFaults
      BY <1>1, ExchangeBoundAssumption DEF respond_with_public_recipes, Fault, TypeOK
    <2>8. answerable' \subseteq Node \X Nat
      BY <1>1 DEF respond_with_public_recipes, Fault, TypeOK
    <2>9. TypeOK'
      BY <2>1, <2>4, <2>6, <2>7, <2>8 DEF TypeOK
    <2>10. AllOwed'
      BY <2>1, <2>2, <2>4, <2>5 DEF AllOwed
    <2>11. HeardHere' /\ ViewFollowsDiscovery'
      BY <2>1 DEF HeardHere, ViewFollowsDiscovery
    <2>. QED  BY <2>9, <2>10, <2>11
  <1>2. CASE PublishResponse(n)
    <2>1. response_rcv[n] \in Seq(Responses(n)) /\ response_rcv[n] # <<>>
      BY <1>2 DEF PublishResponse, AllOwed
    <2>2. Head(response_rcv[n]) \in Responses(n) /\ publish(n, Head(response_rcv[n]))
      BY <1>2, <2>1, HeadTailProperties DEF PublishResponse
    <2>3. UNCHANGED <<status, discovered, view, kademlia, responders, broadcast_rcv, heard,
                      answerable, asks, faults>>
          /\ response_rcv' = [response_rcv EXCEPT ![n] = Tail(response_rcv[n])]
      BY <1>2 DEF PublishResponse, local
    <2>4. \A q \in Node : response_rcv'[q] \in Seq(Responses(q)')
      <3>1. response_rcv[n] \in Seq(Responses(n)')
        BY <2>2, PublishStep
      <3>2. Tail(response_rcv[n]) \in Seq(Responses(n)')
        BY <2>1, <3>1, HeadTailProperties
      <3>3. \A q \in Node : response_rcv[q] \in Seq(Responses(q)')
        BY <2>2, PublishStep
      <3>. QED  BY <2>3, <3>2, <3>3 DEF TypeOK
    <2>5. response_rcv' \in [Node -> Seq(Json)]
      <3>1. Tail(response_rcv[n]) \in Seq(Json)
        BY <2>1, HeadTailProperties DEF TypeOK
      <3>. QED  BY <2>3, <3>1 DEF TypeOK
    <2>6. TypeOK'
      <3>1. /\ posts' \in Seq(Post) /\ received' \in [Node -> SUBSET (1..Len(posts'))]
            /\ wire' \subseteq [from : Node, to : Node, what : 0..Len(posts')]
            /\ \A m \in wire' : {m.from, m.to} \in links
            /\ UNCHANGED <<links, subscribers>>
            /\ heard \in [Node -> SUBSET ((1..Len(posts')) \X {"response", "broadcast"})]
        BY <2>2, PublishStep
      <3>. QED  BY <2>3, <2>5, <3>1 DEF TypeOK
    <2>7. AllOwed' /\ HeardHere'
      BY <2>2, <2>3, <2>4, PublishStep DEF AllOwed
    <2>8. ViewFollowsDiscovery'
      BY <2>3 DEF ViewFollowsDiscovery
    <2>. QED  BY <2>6, <2>7, <2>8
  <1>3. CASE PublishBroadcast(n)
    <2>1. broadcast_rcv[n] \in Seq(Broadcasts) /\ broadcast_rcv[n] # <<>>
      BY <1>3 DEF PublishBroadcast, AllOwed
    <2>2. Head(broadcast_rcv[n]) \in Broadcasts /\ publish(n, Head(broadcast_rcv[n]))
      BY <1>3, <2>1, HeadTailProperties DEF PublishBroadcast
    <2>3. UNCHANGED <<status, discovered, view, kademlia, responders, response_rcv, heard,
                      answerable, asks, faults>>
          /\ broadcast_rcv' = [broadcast_rcv EXCEPT ![n] = Tail(broadcast_rcv[n])]
      BY <1>3 DEF PublishBroadcast, local
    <2>4. \A q \in Node : broadcast_rcv'[q] \in Seq(Broadcasts)
      <3>1. Tail(broadcast_rcv[n]) \in Seq(Broadcasts)
        BY <2>1, HeadTailProperties
      <3>. QED  BY <2>3, <3>1 DEF TypeOK, AllOwed
    <2>5. broadcast_rcv' \in [Node -> Seq(Json)]
      <3>1. Tail(broadcast_rcv[n]) \in Seq(Json)
        BY <2>1, HeadTailProperties DEF TypeOK
      <3>. QED  BY <2>3, <3>1 DEF TypeOK
    <2>6. TypeOK'
      <3>1. /\ posts' \in Seq(Post) /\ received' \in [Node -> SUBSET (1..Len(posts'))]
            /\ wire' \subseteq [from : Node, to : Node, what : 0..Len(posts')]
            /\ \A m \in wire' : {m.from, m.to} \in links
            /\ UNCHANGED <<links, subscribers>>
            /\ heard \in [Node -> SUBSET ((1..Len(posts')) \X {"response", "broadcast"})]
        BY <2>2, PublishStep
      <3>. QED  BY <2>3, <2>5, <3>1 DEF TypeOK
    <2>7. AllOwed' /\ HeardHere'
      BY <2>2, <2>3, <2>4, PublishStep DEF AllOwed
    <2>8. ViewFollowsDiscovery'
      BY <2>3 DEF ViewFollowsDiscovery
    <2>. QED  BY <2>6, <2>7, <2>8
  <1>. QED  BY <1>1, <1>2, <1>3 DEF Turn

-----------------------------------------------------------------------------
(* The steps of the network *)

\* What a handled post adds to the loop's state.
LEMMA HandleStep ==
  ASSUME IndInv, NEW n \in Node, NEW i \in DOMAIN posts, HandleMessage(n, i),
         i \in received'[n], \A q \in Node : received[q] \subseteq received'[q],
         UNCHANGED posts
  PROVE  /\ responders' \in [Node -> SUBSET [to : Node, re : Nat]]
         /\ heard' \in [Node -> SUBSET ((1..Len(posts)) \X {"response", "broadcast"})]
         /\ answerable' \subseteq Node \X Nat
         /\ AllOwed' /\ HeardHere'
  <1>. USE DEF IndInv
  <1>. DEFINE json == posts[i].json
              source == posts[i].source
              r == [to |-> source, re |-> i]
  <1>1. DOMAIN posts = 1..Len(posts) /\ i \in Nat /\ i \in 1..Len(posts)
    BY LenProperties DEF TypeOK
  <1>2. source \in Node
    BY Sources
  <1>3. json \in Requests \cup Broadcasts \cup Responses(source)
    BY <1>2 DEF AllOwed
  <1>4. UNCHANGED <<response_rcv, broadcast_rcv>>
    BY DEF HandleMessage
  <1>5. /\ \A q \in Node : \A p \in responders[q] : <<p.to, p.re>> \in Owed(q)'
        /\ \A q \in Node : response_rcv[q] \in Seq(Responses(q)')
        /\ \A q \in Node : \A k \in DOMAIN posts : posts'[k].source = q =>
             posts'[k].json \in Requests \cup Broadcasts \cup Responses(q)'
    <2>1. \A k \in DOMAIN posts : posts[k].source \in Node
      BY Sources
    <2>. QED  BY <2>1, AllOwedStays
  <1>6. ASSUME asked(n, json) PROVE <<source, i>> \in Owed(n)'
    <2>1. json \in Requests
      BY <1>2, <1>3, <1>6, Kinds DEF asked
    <2>2. PICK m \in Node \cup {"All"} : json = ListRequest(m)
      BY <2>1 DEF Requests
    <2>3. m \in {"All", n}
      BY <1>6, <2>2 DEF asked, ListRequest
    <2>4. json = ListRequest("All") \/ json = ListRequest(n)
      BY <2>2, <2>3
    <2>5. IsRequestFor(i, source, n)'
      BY <2>4 DEF IsRequestFor, ListRequest
    <2>. QED  BY <1>1, <1>2, <2>5 DEF Owed
  <1>7. \A q \in Node : \A p \in responders'[q] : p \in responders[q] \/ (q = n /\ asked(n, json) /\ p = r)
    BY DEF HandleMessage, TypeOK
  <1>8. responders' \in [Node -> SUBSET [to : Node, re : Nat]]
    <2>1. r \in [to : Node, re : Nat]
      BY <1>1, <1>2
    <2>. QED  BY <2>1 DEF HandleMessage, TypeOK
  <1>9. AllOwed'
    <2>1. ASSUME NEW q \in Node, NEW p \in responders'[q] PROVE <<p.to, p.re>> \in Owed(q)'
      <3>1. CASE p \in responders[q]
        BY <1>5, <3>1
      <3>2. CASE q = n /\ asked(n, json) /\ p = r
        <4>1. p.to = source /\ p.re = i
          BY <3>2
        <4>. QED  BY <1>6, <3>2, <4>1
      <3>. QED  BY <1>7, <2>1, <3>1, <3>2
    <2>. QED  BY <1>4, <1>5, <2>1 DEF AllOwed
  <1>10. \A q \in Node : \A h \in heard'[q] :
           h \in heard[q] \/ (q = n /\ addressed(n, json) /\ h = <<i, kind(json)>>)
    BY DEF HandleMessage, TypeOK
  <1>11. heard' \in [Node -> SUBSET ((1..Len(posts)) \X {"response", "broadcast"})]
    <2>1. addressed(n, json) => <<i, kind(json)>> \in (1..Len(posts)) \X {"response", "broadcast"}
      BY <1>1 DEF addressed
    <2>. QED  BY <2>1 DEF HandleMessage, TypeOK
  <1>12. HeardHere'
    <2>1. ASSUME NEW q \in Node, NEW h \in heard'[q]
          PROVE  /\ h[1] \in DOMAIN posts /\ posts[h[1]].json.receiver = q
                 /\ h[2] = "response" => posts[h[1]].json.fields = Field
                 /\ h[2] = "broadcast" => posts[h[1]].json = ListBroadcast(q)
      <3>1. CASE h \in heard[q]
        BY <3>1 DEF HeardHere
      <3>2. CASE q = n /\ addressed(n, json) /\ h = <<i, kind(json)>>
        <4>1. h[1] = i /\ h[2] = kind(json) /\ json.receiver = q
          BY <3>2 DEF addressed
        <4>2. kind(json) = "response" => json.fields = Field
          BY <1>2, <1>3, Kinds
        <4>3. ASSUME kind(json) = "broadcast" PROVE json = ListBroadcast(n)
          <5>1. json \in Broadcasts
            BY <1>2, <1>3, <4>3, Kinds
          <5>2. PICK p \in Node : json = ListBroadcast(p)
            BY <5>1 DEF Broadcasts
          <5>. QED  BY <3>2, <4>1, <5>2 DEF ListBroadcast
        <4>. QED  BY <3>2, <4>1, <4>2, <4>3
      <3>. QED  BY <1>10, <2>1, <3>1, <3>2
    <2>. QED  BY <2>1 DEF HeardHere
  <1>13. answerable' \subseteq Node \X Nat
    BY <1>1 DEF HandleMessage, TypeOK
  <1>. QED  BY <1>8, <1>9, <1>11, <1>12, <1>13

LEMMA WireSteps ==
  ASSUME IndInv, NEW m \in wire, Receive(m) \/ Subscribed(m)
  PROVE  IndInv'
  <1>. USE DEF IndInv
  <1>1. m.from \in Node /\ m.to \in Node /\ m.what \in 0..Len(posts) /\ {m.from, m.to} \in links
    BY DEF TypeOK
  <1>2. CASE Subscribed(m)
    <2>1. AllOwed' /\ HeardHere' /\ ViewFollowsDiscovery'
      BY <1>2, OwedUnchanged DEF Subscribed, local, ViewFollowsDiscovery
    <2>2. /\ subscribers' \in [Node -> SUBSET Node]
          /\ \A n \in Node : \A p \in subscribers'[n] : {n, p} \in links
      <3>1. /\ subscribers \in [Node -> SUBSET Node]
            /\ \A n \in Node : \A p \in subscribers[n] : {n, p} \in links
        BY DEF TypeOK
      <3>2. subscribers' = [subscribers EXCEPT ![m.to] = @ \cup {m.from}]
        BY <1>2 DEF Subscribed
      <3>3. \A n \in Node : \A p \in subscribers'[n] :
              p \in subscribers[n] \/ (n = m.to /\ p = m.from)
        BY <3>1, <3>2
      <3>4. {m.to, m.from} \in links
        BY <1>1
      <3>. QED  BY <1>1, <3>1, <3>2, <3>3, <3>4
    <2>3. wire' \subseteq wire
      BY <1>2 DEF Subscribed
    <2>4. TypeOK'
      BY <1>2, <2>2, <2>3 DEF Subscribed, TypeOK, local, loop
    <2>. QED  BY <2>1, <2>4
  <1>3. CASE Receive(m) /\ m.what \in received[m.to]
    <2>1. AllOwed' /\ HeardHere' /\ ViewFollowsDiscovery'
      BY <1>3, OwedUnchanged DEF Receive, local, ViewFollowsDiscovery
    <2>2. wire' \subseteq wire
      BY <1>3 DEF Receive
    <2>3. TypeOK'
      BY <1>3, <2>2 DEF Receive, TypeOK, local, loop
    <2>. QED  BY <2>1, <2>3
  <1>4. CASE Receive(m) /\ m.what \notin received[m.to]
    <2>. DEFINE n == m.to
                i == m.what
    <2>1. /\ wire' = (wire \ {m}) \cup Send(n, Targets(n) \ {m.from}, i)
          /\ received' = [received EXCEPT ![n] = @ \cup {i}]
          /\ HandleMessage(n, i)
          /\ UNCHANGED <<status, discovered, view, kademlia, links, subscribers, posts, asks, faults>>
      BY <1>4 DEF Receive, local
    <2>2. i \in DOMAIN posts /\ i \in 1..Len(posts)
      BY <1>1, <1>4, LenProperties DEF Receive, Subscription, TypeOK
    <2>. HIDE DEF n, i
    <2>3. n \in Node
      BY <1>1 DEF n
    <2>4. received' \in [Node -> SUBSET (1..Len(posts))]
      BY <2>1, <2>2 DEF TypeOK
    <2>5. i \in received'[n] /\ \A q \in Node : received[q] \subseteq received'[q]
      BY <2>1, <2>3 DEF TypeOK
    <2>6. /\ responders' \in [Node -> SUBSET [to : Node, re : Nat]]
          /\ heard' \in [Node -> SUBSET ((1..Len(posts)) \X {"response", "broadcast"})]
          /\ answerable' \subseteq Node \X Nat
          /\ AllOwed' /\ HeardHere'
      BY <2>1, <2>2, <2>3, <2>5, HandleStep
    <2>7. /\ wire' \subseteq [from : Node, to : Node, what : 0..Len(posts)]
          /\ \A w \in wire' : {w.from, w.to} \in links
      <3>1. \A p \in Targets(n) : p \in Node /\ {n, p} \in links
        BY <2>3 DEF Targets, TypeOK
      <3>2. i \in 0..Len(posts)
        BY <1>1 DEF i
      <3>3. \A p \in Targets(n) : LET w == [from |-> n, to |-> p, what |-> i] IN
              w \in [from : Node, to : Node, what : 0..Len(posts)] /\ {w.from, w.to} \in links
        BY <2>3, <3>1, <3>2
      <3>4. \A w \in Send(n, Targets(n) \ {m.from}, i) :
              w \in [from : Node, to : Node, what : 0..Len(posts)] /\ {w.from, w.to} \in links
        BY <3>3 DEF Send
      <3>. QED  BY <2>1, <3>4 DEF TypeOK
    <2>8. UNCHANGED <<response_rcv, broadcast_rcv>>
      BY <2>1 DEF HandleMessage
    <2>9. TypeOK'
      BY <2>1, <2>4, <2>6, <2>7, <2>8 DEF TypeOK
    <2>10. ViewFollowsDiscovery'
      BY <2>1 DEF ViewFollowsDiscovery
    <2>. QED  BY <2>6, <2>9, <2>10
  <1>. QED  BY <1>2, <1>3, <1>4

-----------------------------------------------------------------------------
(* The theorems *)

LEMMA Inductive == IndInv /\ [Next]_vars => IndInv'
  <1>. SUFFICES ASSUME IndInv, [Next]_vars PROVE IndInv'
    OBVIOUS
  <1>1. CASE Network
    BY <1>1, WireSteps, LocalSteps DEF Network
  <1>2. ASSUME NEW n \in Node, Mdns(n) PROVE IndInv'
    BY <1>2, LocalSteps DEF Mdns
  <1>3. ASSUME NEW n \in Node, Command(n) \/ Turn(n) PROVE IndInv'
    BY <1>3, CommandSteps, TurnSteps
  <1>4. CASE UNCHANGED vars
    <2>1. AllOwed' /\ HeardHere'
      BY <1>4, OwedUnchanged DEF vars, library, IndInv
    <2>2. TypeOK' /\ ViewFollowsDiscovery'
      BY <1>4 DEF vars, library, loop, local, IndInv, TypeOK, ViewFollowsDiscovery
    <2>. QED  BY <2>1, <2>2 DEF IndInv
  <1>. QED  BY <1>1, <1>2, <1>3, <1>4 DEF Next

\* The invariant that carries the others: everything on its way to be an answer
\* is owed to the node it is meant for (main.rs 170-251).
THEOREM InductiveInvariant == Spec => []IndInv
  <1>. QED  BY InitIndInv, Inductive, PTL DEF Spec

\* The state keeps its shape, and what is under way has a connection.
THEOREM TypeCorrect == Spec => []TypeOK
  <1>1. IndInv => TypeOK
    BY DEF IndInv
  <1>. QED  BY <1>1, InductiveInvariant, PTL

\* Floodsub's view is the set of the nodes mDNS has a record of (handler.rs
\* 637-670), for any records, discovered and expired in any groups.
THEOREM ViewIsDiscovery == Spec => []ViewFollowsDiscovery
  <1>1. IndInv => ViewFollowsDiscovery
    BY DEF IndInv
  <1>. QED  BY <1>1, InductiveInvariant, PTL

\* Only what was asked is answered, and only by a node that was meant.
THEOREM OnlyTheAskedAnswer == Spec => []AnswersAreAsked
  <1>1. ASSUME IndInv PROVE AnswersAreAsked
    <2>. USE <1>1 DEF IndInv
    <2>1. ASSUME NEW q \in Node, NEW j \in Responses(q)
          PROVE  <<j.receiver, j.re>> \in Owed(q)
      <3>1. PICK a \in Owed(q) : j = ListResponse(a[1], a[2])
        BY <2>1 DEF Responses
      <3>2. j.receiver = a[1] /\ j.re = a[2]
        BY <3>1 DEF ListResponse
      <3>3. a = <<a[1], a[2]>>
        BY DEF Owed
      <3>. QED  BY <3>2, <3>3
    <2>2. ASSUME NEW q \in Node, NEW a \in Answers(q) PROVE <<a.to, a.re>> \in Owed(q)
      <3>1. CASE a \in responders[q]
        BY <3>1 DEF AllOwed
      <3>2. CASE a \in {[to |-> j.receiver, re |-> j.re] : j \in Range(response_rcv[q])}
        <4>1. PICK j \in Range(response_rcv[q]) : a = [to |-> j.receiver, re |-> j.re]
          BY <3>2
        <4>2. response_rcv[q] \in Seq(Responses(q))
          BY DEF AllOwed
        <4>3. j \in Responses(q)
          BY <4>1, <4>2, ElementOfSeq, LenProperties DEF Range
        <4>4. a.to = j.receiver /\ a.re = j.re
          BY <4>1
        <4>. QED  BY <2>1, <4>3, <4>4
      <3>3. CASE a \in {[to |-> posts[k].json.receiver, re |-> posts[k].json.re] :
                    k \in {k \in DOMAIN posts : posts[k].source = q /\ posts[k].json.fields = Field}}
        <4>1. PICK k \in DOMAIN posts :
                /\ posts[k].source = q /\ posts[k].json.fields = Field
                /\ a = [to |-> posts[k].json.receiver, re |-> posts[k].json.re]
          BY <3>3
        <4>2. posts[k].json \in Requests \cup Broadcasts \cup Responses(q)
          BY <4>1 DEF AllOwed
        <4>3. "mode" \in Field /\ "data" \in Field /\ Field # {"mode"} /\ Field # {"data", "receiver"}
          BY DEF Field
        <4>4. posts[k].json \in Responses(q)
          BY <4>1, <4>2, <4>3, Kinds
        <4>5. a.to = posts[k].json.receiver /\ a.re = posts[k].json.re
          BY <4>1
        <4>. QED  BY <2>1, <4>4, <4>5
      <3>. QED  BY <2>2, <3>1, <3>2, <3>3 DEF Answers
    <2>. QED  BY <2>2 DEF AnswersAreAsked, Owed
  <1>. QED  BY <1>1, InductiveInvariant, PTL

\* A node prints only what was meant for it: as a response only the answer to a
\* request of its own, as a broadcast only what "b r" made for it
\* (main.rs:173-188).
THEOREM PrintsWhatIsMeant == Spec => []HeardIsMeant
  <1>1. ASSUME IndInv PROVE HeardIsMeant
    <2>. USE <1>1 DEF IndInv
    <2>1. ASSUME NEW n \in Node, NEW h \in heard[n]
          PROVE  LET json == posts[h[1]].json IN
                 \/ /\ h[2] = "response" /\ json.receiver = n
                    /\ IsRequestFor(json.re, n, posts[h[1]].source)
                 \/ h[2] = "broadcast" /\ json = ListBroadcast(n)
      <3>. DEFINE k == h[1]
                  json == posts[k].json
                  q == posts[k].source
      <3>1. /\ k \in DOMAIN posts /\ json.receiver = n
            /\ h[2] = "response" => json.fields = Field
            /\ h[2] = "broadcast" => json = ListBroadcast(n)
        BY DEF HeardHere
      <3>2. q \in Node
        BY <3>1, Sources
      <3>3. json \in Requests \cup Broadcasts \cup Responses(q)
        BY <3>1, <3>2 DEF AllOwed
      <3>4. ASSUME json.fields = Field PROVE IsRequestFor(json.re, n, q)
        <4>1. "mode" \in Field /\ "data" \in Field /\ Field # {"mode"} /\ Field # {"data", "receiver"}
          BY DEF Field
        <4>2. json \in Responses(q)
          BY <3>2, <3>3, <3>4, <4>1, Kinds
        <4>3. PICK a \in Owed(q) : json = ListResponse(a[1], a[2])
          BY <4>2 DEF Responses
        <4>4. json.receiver = a[1] /\ json.re = a[2]
          BY <4>3 DEF ListResponse
        <4>. QED  BY <3>1, <4>4 DEF Owed
      <3>5. h[2] \in {"response", "broadcast"}
        BY DEF TypeOK
      <3>. QED  BY <3>1, <3>4, <3>5
    <2>. QED  BY <2>1 DEF HeardIsMeant
  <1>. QED  BY <1>1, InductiveInvariant, PTL
-----------------------------------------------------------------------------
(* Answers under way *)

\* A response is to a request that has reached its sender, and is taken for one
\* by the node it is meant for.
LEMMA ResponseFacts ==
  ASSUME NEW q \in Node, NEW j \in Responses(q)
  PROVE  /\ j.re \in DOMAIN posts /\ j.re \in received[q]
         /\ j.receiver = posts[j.re].source /\ j.fields = Field
         /\ kind(j) = "response" /\ addressed(posts[j.re].source, j)
  <1>1. PICK a \in Owed(q) : j = ListResponse(a[1], a[2])
    BY DEF Responses
  <1>2. j.receiver = a[1] /\ j.re = a[2]
    BY <1>1 DEF ListResponse
  <1>3. j.fields = Field /\ kind(j) = "response"
    BY Kinds
  <1>. QED  BY <1>2, <1>3 DEF Owed, IsRequestFor, addressed

\* Only a response has an index of a request with it.
LEMMA AnswerPost ==
  ASSUME IndInv, NEW q \in Node, NEW k \in DOMAIN posts, posts[k].source = q,
         posts[k].json.fields = Field \/ posts[k].json.re # 0
  PROVE  posts[k].json \in Responses(q)
  <1>1. posts[k].json \in Requests \cup Broadcasts \cup Responses(q)
    BY DEF IndInv, AllOwed
  <1>2. \A j \in Requests \cup Broadcasts : j.re = 0 /\ j.fields # Field
    <2>1. "mode" \in Field /\ "data" \in Field /\ Field # {"mode"} /\ Field # {"data", "receiver"}
      BY DEF Field
    <2>2. \A j \in Requests \cup Broadcasts : j.re = 0
      BY DEF Requests, Broadcasts, ListRequest, ListBroadcast
    <2>. QED  BY <2>1, <2>2, Kinds
  <1>. QED  BY <1>1, <1>2

LEMMA PostFacts ==
  ASSUME IndInv
  PROVE  /\ posts \in Seq(Post) /\ Len(posts) \in Nat /\ DOMAIN posts = 1..Len(posts)
         /\ \A k \in DOMAIN posts : posts[k].source \in Node
         /\ received \in [Node -> SUBSET (DOMAIN posts)]
  <1>1. posts \in Seq(Post) /\ received \in [Node -> SUBSET (1..Len(posts))]
    BY DEF IndInv, TypeOK
  <1>. QED  BY <1>1, LenProperties, Sources DEF IndInv

LEMMA ChannelFacts ==
  ASSUME IndInv, NEW q \in Node
  PROVE  /\ response_rcv[q] \in Seq(Responses(q))
         /\ \A k \in DOMAIN response_rcv[q] : response_rcv[q][k] \in Responses(q)
         /\ DOMAIN response_rcv[q] = 1..Len(response_rcv[q]) /\ Len(response_rcv[q]) \in Nat
  <1>1. response_rcv[q] \in Seq(Responses(q))
    BY DEF IndInv, AllOwed
  <1>. QED  BY <1>1, ElementOfSeq, LenProperties

LEMMA WireFacts ==
  ASSUME IndInv, NEW m \in wire
  PROVE  /\ m.from \in Node /\ m.to \in Node /\ {m.from, m.to} \in links
         /\ m.what # Subscription => m.what \in DOMAIN posts
  <1>1. m \in [from : Node, to : Node, what : 0..Len(posts)] /\ {m.from, m.to} \in links
    BY DEF IndInv, TypeOK
  <1>. QED  BY <1>1, PostFacts DEF Subscription

\* A node has its own posts in its filter, and has printed what it received.
OwnReceived == \A k \in DOMAIN posts : k \in received[posts[k].source]
Printed ==
  \A n \in Node : \A k \in received[n] :
    posts[k].source # n /\ addressed(n, posts[k].json) => <<k, kind(posts[k].json)>> \in heard[n]
\* The way from a node that can answer to the asker is open.
Within ==
  \A a \in answerable : /\ a[2] \in DOMAIN posts /\ posts[a[2]].source # a[1]
                        /\ posts[a[2]].source \in Targets(a[1])

Track == OwnReceived /\ Printed /\ Within /\ AnswersNotLost
TrackInv == IndInv /\ Track

LEMMA InitTrack == Init => TrackInv
  <1>. SUFFICES ASSUME Init PROVE Track
    BY InitIndInv DEF TrackInv
  <1>1. answerable = {} /\ posts = <<>> /\ \A n \in Node : received[n] = {}
    BY DEF Init
  <1>. QED  BY <1>1 DEF Track, OwnReceived, Printed, Within, AnswersNotLost

LEMMA AnsweredStays ==
  ASSUME IndInv, NEW q \in Node, NEW i \in DOMAIN posts, Answered(q, i),
         \A k \in DOMAIN posts : k \in DOMAIN posts' /\ posts'[k] = posts[k],
         \A n \in Node : heard[n] \subseteq heard'[n]
  PROVE  Answered(q, i)'
  <1>1. posts[i].source \in Node
    BY PostFacts
  <1>. QED  BY <1>1 DEF Answered

\* What is under way stays under way while nothing takes it on.
LEMMA UnderWayStays ==
  ASSUME TrackInv, NEW a \in answerable, UnderWay(a[1], a[2]),
         \A k \in DOMAIN posts : k \in DOMAIN posts' /\ posts'[k] = posts[k],
         \A w \in wire : w \in wire',
         UNCHANGED <<responders, response_rcv>>
  PROVE  UnderWay(a[1], a[2])'
  <1>1. a[1] \in Node /\ a[2] \in DOMAIN posts
    BY DEF TrackInv, Track, IndInv, TypeOK, Within
  <1>2. \A w \in wire : w.what # Subscription => w.what \in DOMAIN posts
    BY WireFacts DEF TrackInv
  <1>. QED  BY <1>1, <1>2 DEF UnderWay

\* The steps that touch neither posts nor the loops: they forget who can answer,
\* or keep the ways and the messages.
LEMMA TrackKept ==
  ASSUME TrackInv, UNCHANGED <<posts, received, loop>>,
         \/ answerable' = {}
         \/ /\ UNCHANGED answerable
            /\ \A n \in Node : Targets(n) \subseteq Targets(n)'
            /\ \A m \in wire : m.what # Subscription => m \in wire'
  PROVE  Track'
  <1>. USE DEF TrackInv, Track
  <1>1. OwnReceived' /\ Printed'
    BY DEF OwnReceived, Printed, loop, addressed
  <1>2. CASE answerable' = {}
    BY <1>1, <1>2 DEF Within, AnswersNotLost
  <1>3. CASE /\ UNCHANGED answerable
             /\ \A n \in Node : Targets(n) \subseteq Targets(n)'
             /\ \A m \in wire : m.what # Subscription => m \in wire'
    <2>1. \A a \in answerable : a[1] \in Node
      BY DEF IndInv, TypeOK
    <2>2. Within'
      BY <1>3, <2>1 DEF Within
    <2>3. ASSUME NEW a \in answerable PROVE (Answered(a[1], a[2]) \/ UnderWay(a[1], a[2]))'
      <3>1. Answered(a[1], a[2]) \/ UnderWay(a[1], a[2])
        BY DEF AnswersNotLost
      <3>. QED  BY <1>3, <3>1 DEF Answered, UnderWay, loop
    <2>. QED  BY <1>1, <1>3, <2>2, <2>3 DEF AnswersNotLost
  <1>. QED  BY <1>2, <1>3

LEMMA LocalTrack ==
  ASSUME TrackInv, NEW n \in Node, NEW q \in Node, NEW R \in SUBSET Record,
         Discovered(n, R) \/ Expired(n, R) \/ Connect(n, q) \/ Disconnect(n, q)
  PROVE  Track'
  <1>1. UNCHANGED <<posts, received, loop>>
    BY DEF Discovered, Expired, Connect, Disconnect, Lose, Break, library
  <1>2. CASE Expired(n, R) \/ Disconnect(n, q)
    BY <1>1, <1>2, TrackKept DEF Expired, Disconnect, Fault
  <1>3. CASE Discovered(n, R)
    <2>1. /\ UNCHANGED <<answerable, subscribers>>
          /\ view' = [view EXCEPT ![n] = @ \cup peers(R)] /\ wire \subseteq wire'
      BY <1>3 DEF Discovered
    <2>2. \A p \in Node : Targets(p) \subseteq Targets(p)'
      BY <2>1 DEF Targets, TrackInv, IndInv, TypeOK
    <2>. QED  BY <1>1, <2>1, <2>2, TrackKept
  <1>4. CASE Connect(n, q)
    <2>1. UNCHANGED <<answerable, subscribers, view>> /\ wire \subseteq wire'
      BY <1>4 DEF Connect, local
    <2>. QED  BY <1>1, <2>1, TrackKept DEF Targets
  <1>. QED  BY <1>2, <1>3, <1>4

\* A post goes into its sender's filter and to everybody the sender sends to.
LEMMA TrackPublish ==
  ASSUME TrackInv, NEW n \in Node,
         NEW json \in Requests \cup Broadcasts \cup Responses(n), publish(n, json),
         UNCHANGED <<view, heard, answerable>>
  PROVE  /\ OwnReceived' /\ Printed' /\ Within'
         /\ \A k \in DOMAIN posts : k \in DOMAIN posts' /\ posts'[k] = posts[k]
         /\ \A m \in wire : m \in wire'
         /\ \A a \in answerable : Answered(a[1], a[2]) => Answered(a[1], a[2])'
         /\ \A i \in DOMAIN posts : json.re = i /\ posts[i].source \in Targets(n) =>
              \E m \in wire' : /\ m.from = n /\ m.to = posts[i].source /\ m.what # Subscription
                               /\ posts'[m.what].source = n /\ posts'[m.what].json.re = i
  <1>. USE DEF TrackInv, Track
  <1>. DEFINE x == [source |-> n, json |-> json]
              K == Len(posts) + 1
  <1>1. x \in Post
    BY Kinds DEF Post
  <1>2. /\ posts' = Append(posts, x)
        /\ received' = [received EXCEPT ![n] = @ \cup {K}]
        /\ wire' = wire \cup Send(n, Targets(n), K)
        /\ UNCHANGED subscribers
    BY DEF publish
  <1>3. x.source = n /\ x.json = json
    OBVIOUS
  <1>4. /\ DOMAIN posts = 1..Len(posts) /\ DOMAIN posts' = 1..K /\ Len(posts) \in Nat
        /\ \A k \in 1..Len(posts) : posts'[k] = posts[k]
        /\ posts'[K] = x
    BY <1>1, <1>2, PostsKept, PostFacts
  <1>. HIDE DEF x
  <1>5. \A k \in DOMAIN posts : k \in DOMAIN posts' /\ posts'[k] = posts[k]
    BY <1>4
  <1>. DEFINE KK == K
  <1>6. /\ received \in [Node -> SUBSET (DOMAIN posts)] /\ K \notin DOMAIN posts
        /\ \A k \in DOMAIN posts : posts[k].source \in Node
    BY <1>4, PostFacts
  <1>7. OwnReceived'
    <2>. SUFFICES ASSUME NEW k \in DOMAIN posts' PROVE k \in received'[posts'[k].source]
      BY DEF OwnReceived
    <2>1. CASE k = K
      BY <1>2, <1>3, <1>4, <1>6, <2>1
    <2>2. CASE k \in DOMAIN posts
      BY <1>2, <1>5, <1>6, <2>2 DEF OwnReceived
    <2>. QED  BY <1>4, <2>1, <2>2
  <1>8. Printed'
    <2>. SUFFICES ASSUME NEW p \in Node, NEW k \in received'[p], posts'[k].source # p,
                         addressed(p, posts'[k].json)
                  PROVE  <<k, kind(posts'[k].json)>> \in heard[p]
      BY DEF Printed
    <2>1. k # K
      <3>1. k = K => p = n
        BY <1>2, <1>6
      <3>. QED  BY <1>3, <1>4, <3>1
    <2>2. k \in received[p]
      BY <1>2, <1>6, <2>1
    <2>. QED  BY <1>5, <1>6, <2>2 DEF Printed
  <1>9. \A a \in answerable : a[1] \in Node /\ a[2] \in DOMAIN posts
    BY DEF IndInv, TypeOK, Within
  <1>10. Within'
    BY <1>2, <1>5, <1>9 DEF Within, Targets
  <1>11. \A a \in answerable : Answered(a[1], a[2]) => Answered(a[1], a[2])'
    BY <1>5, <1>9, AnsweredStays
  <1>12. ASSUME NEW i \in DOMAIN posts, json.re = i, posts[i].source \in Targets(n)
         PROVE  \E m \in wire' : /\ m.from = n /\ m.to = posts[i].source /\ m.what # Subscription
                                 /\ posts'[m.what].source = n /\ posts'[m.what].json.re = i
    <2>. DEFINE m == [from |-> n, to |-> posts[i].source, what |-> K]
    <2>1. m \in wire'
      BY <1>2, <1>12 DEF Send
    <2>2. m.from = n /\ m.to = posts[i].source /\ m.what = K
      OBVIOUS
    <2>. HIDE DEF m
    <2>. QED  BY <1>3, <1>4, <1>12, <2>1, <2>2 DEF Subscription
  <1>. QED  BY <1>2, <1>5, <1>7, <1>8, <1>10, <1>11, <1>12

LEMMA CommandTrack ==
  ASSUME TrackInv, NEW n \in Node, Command(n)
  PROVE  Track'
  <1>. USE DEF TrackInv, Track
  <1>1. CASE handle_list_recipes(n)
    <2>1. PICK m \in {"All"} \cup Named : publish(n, ListRequest(m))
      BY <1>1 DEF handle_list_recipes
    <2>2. ListRequest(m) \in Requests
      BY LocalAssumption DEF Requests
    <2>3. UNCHANGED <<view, responders, response_rcv, heard, answerable>>
      BY <1>1 DEF handle_list_recipes, local, loop
    <2>4. /\ OwnReceived' /\ Printed' /\ Within'
          /\ \A k \in DOMAIN posts : k \in DOMAIN posts' /\ posts'[k] = posts[k]
          /\ \A w \in wire : w \in wire'
          /\ \A a \in answerable : Answered(a[1], a[2]) => Answered(a[1], a[2])'
      BY <2>1, <2>2, <2>3, TrackPublish
    <2>5. ASSUME NEW a \in answerable, UnderWay(a[1], a[2]) PROVE UnderWay(a[1], a[2])'
      BY <2>3, <2>4, <2>5, UnderWayStays
    <2>. QED  BY <2>3, <2>4, <2>5 DEF AnswersNotLost
  <1>2. CASE handle_broadcast_recipe(n)
    <2>1. /\ UNCHANGED <<posts, received, wire, view, subscribers, heard, responders,
                         response_rcv, answerable>>
      BY <1>2 DEF handle_broadcast_recipe, local, library
    <2>. QED
      BY <2>1 DEF OwnReceived, Printed, Within, AnswersNotLost, Answered, UnderWay, Targets,
                  addressed
  <1>3. CASE BroadcastPanic(n)
    <2>1. UNCHANGED <<posts, received, loop>> /\ answerable' = {}
      BY <1>3 DEF BroadcastPanic, Panic, Lose, Break
    <2>. QED  BY <2>1, TrackKept
  <1>. QED  BY <1>1, <1>2, <1>3 DEF Command

LEMMA TurnTrack ==
  ASSUME TrackInv, NEW n \in Node, Turn(n)
  PROVE  Track'
  <1>. USE DEF TrackInv, Track
  <1>a. \A a \in answerable : a[1] \in Node /\ a[2] \in DOMAIN posts
    BY DEF IndInv, TypeOK, Within
  <1>1. ASSUME NEW r \in responders[n], respond_with_public_recipes(n, r) PROVE Track'
    <2>1. UNCHANGED <<view, subscribers, wire, posts, received, heard>>
      BY <1>1 DEF respond_with_public_recipes, local, library
    <2>2. OwnReceived' /\ Printed'
      BY <2>1 DEF OwnReceived, Printed, addressed
    <2>3. answerable' \subseteq answerable
      BY <1>1 DEF respond_with_public_recipes, Fault
    <2>4. Within'
      BY <2>1, <2>3 DEF Within, Targets
    <2>5. CASE answerable' = {}
      BY <2>2, <2>4, <2>5 DEF AnswersNotLost
    <2>6. CASE response_rcv' = [response_rcv EXCEPT ![n] = Append(@, ListResponse(r.to, r.re))]
      <3>. SUFFICES ASSUME NEW a \in answerable PROVE (Answered(a[1], a[2]) \/ UnderWay(a[1], a[2]))'
        BY <2>2, <2>3, <2>4 DEF AnswersNotLost
      <3>1. CASE Answered(a[1], a[2])
        BY <2>1, <3>1 DEF Answered
      <3>2. CASE \E t \in responders[a[1]] : t.re = a[2]
        <4>1. PICK t \in responders[a[1]] : t.re = a[2]
          BY <3>2
        <4>2. CASE a[1] = n /\ t = r
          <5>. DEFINE s == response_rcv[n]  k == Len(s) + 1
          <5>1. s \in Seq(Responses(n)) /\ Len(s) \in Nat
            BY ChannelFacts
          <5>2. response_rcv'[n] = Append(s, ListResponse(r.to, r.re))
            BY <2>6 DEF IndInv, TypeOK
          <5>3. k \in DOMAIN response_rcv'[n] /\ response_rcv'[n][k] = ListResponse(r.to, r.re)
            BY <5>1, <5>2
          <5>4. response_rcv'[n][k].re = a[2]
            BY <4>1, <4>2, <5>3 DEF ListResponse
          <5>. QED  BY <4>2, <5>3, <5>4 DEF UnderWay
        <4>3. CASE ~(a[1] = n /\ t = r)
          <5>1. t \in responders'[a[1]]
            BY <1>1, <1>a, <4>1, <4>3 DEF respond_with_public_recipes, IndInv, TypeOK
          <5>. QED  BY <4>1, <5>1 DEF UnderWay
        <4>. QED  BY <4>2, <4>3
      <3>3. CASE \E k \in DOMAIN response_rcv[a[1]] : response_rcv[a[1]][k].re = a[2]
        <4>1. PICK k \in DOMAIN response_rcv[a[1]] : response_rcv[a[1]][k].re = a[2]
          BY <3>3
        <4>2. k \in DOMAIN response_rcv'[a[1]] /\ response_rcv'[a[1]][k] = response_rcv[a[1]][k]
          <5>1. CASE a[1] = n
            <6>1. response_rcv[n] \in Seq(Responses(n)) /\ Len(response_rcv[n]) \in Nat
                  /\ k \in 1..Len(response_rcv[n])
              BY <4>1, <5>1, ChannelFacts
            <6>2. response_rcv'[n] = Append(response_rcv[n], ListResponse(r.to, r.re))
              BY <2>6 DEF IndInv, TypeOK
            <6>. QED  BY <5>1, <6>1, <6>2
          <5>2. CASE a[1] # n
            BY <1>a, <2>6, <4>1, <5>2 DEF IndInv, TypeOK
          <5>. QED  BY <5>1, <5>2
        <4>. QED  BY <4>1, <4>2 DEF UnderWay
      <3>4. CASE \E m \in wire : /\ m.from = a[1] /\ m.to = posts[a[2]].source
                                 /\ m.what # Subscription
                                 /\ posts[m.what].source = a[1] /\ posts[m.what].json.re = a[2]
        BY <2>1, <3>4 DEF UnderWay
      <3>. QED  BY <3>1, <3>2, <3>3, <3>4 DEF AnswersNotLost, UnderWay
    <2>. QED  BY <1>1, <2>5, <2>6 DEF respond_with_public_recipes, Fault
  <1>2. CASE PublishResponse(n)
    <2>. DEFINE s == response_rcv[n]
    <2>1. s \in Seq(Responses(n)) /\ s # <<>> /\ Len(s) \in Nat /\ DOMAIN s = 1..Len(s)
      BY <1>2, ChannelFacts DEF PublishResponse
    <2>2. Head(s) \in Responses(n) /\ Head(s) = s[1] /\ publish(n, Head(s))
      BY <1>2, <2>1, HeadTailProperties DEF PublishResponse
    <2>3. /\ UNCHANGED <<view, responders, heard, answerable>>
          /\ response_rcv' = [response_rcv EXCEPT ![n] = Tail(s)]
      BY <1>2 DEF PublishResponse, local
    <2>4. /\ OwnReceived' /\ Printed' /\ Within'
          /\ \A k \in DOMAIN posts : k \in DOMAIN posts' /\ posts'[k] = posts[k]
          /\ \A m \in wire : m \in wire'
          /\ \A a \in answerable : Answered(a[1], a[2]) => Answered(a[1], a[2])'
          /\ \A i \in DOMAIN posts : Head(s).re = i /\ posts[i].source \in Targets(n) =>
               \E m \in wire' : /\ m.from = n /\ m.to = posts[i].source /\ m.what # Subscription
                                /\ posts'[m.what].source = n /\ posts'[m.what].json.re = i
      BY <2>2, <2>3, TrackPublish
    <2>. SUFFICES ASSUME NEW a \in answerable PROVE (Answered(a[1], a[2]) \/ UnderWay(a[1], a[2]))'
      BY <2>3, <2>4 DEF AnswersNotLost
    <2>5. CASE Answered(a[1], a[2])
      BY <2>4, <2>5
    <2>6. CASE \E t \in responders[a[1]] : t.re = a[2]
      BY <2>3, <2>6 DEF UnderWay
    <2>7. CASE \E k \in DOMAIN response_rcv[a[1]] : response_rcv[a[1]][k].re = a[2]
      <3>1. PICK k \in DOMAIN response_rcv[a[1]] : response_rcv[a[1]][k].re = a[2]
        BY <2>7
      <3>2. CASE a[1] # n
        BY <1>a, <2>3, <3>1, <3>2 DEF UnderWay, IndInv, TypeOK
      <3>3. CASE a[1] = n /\ k = 1
        <4>1. posts[a[2]].source \in Targets(n)
          BY <3>3 DEF Within
        <4>2. Head(s).re = a[2] /\ a[2] \in DOMAIN posts
          BY <1>a, <2>2, <3>1, <3>3
        <4>3. posts'[a[2]] = posts[a[2]]
          BY <1>a, <2>4
        <4>. QED  BY <2>4, <3>3, <4>1, <4>2, <4>3 DEF UnderWay
      <3>4. CASE a[1] = n /\ k # 1
        <4>1. response_rcv'[n] = Tail(s)
          BY <2>3 DEF IndInv, TypeOK
        <4>2. k \in 1..Len(s)
          BY <2>1, <3>1, <3>4
        <4>3. k - 1 \in DOMAIN Tail(s) /\ Tail(s)[k - 1] = s[k]
          BY <2>1, <3>4, <4>2
        <4>. QED  BY <3>1, <3>4, <4>1, <4>3 DEF UnderWay
      <3>. QED  BY <3>2, <3>3, <3>4
    <2>8. CASE \E m \in wire : /\ m.from = a[1] /\ m.to = posts[a[2]].source
                               /\ m.what # Subscription
                               /\ posts[m.what].source = a[1] /\ posts[m.what].json.re = a[2]
      <3>1. PICK m \in wire : /\ m.from = a[1] /\ m.to = posts[a[2]].source
                              /\ m.what # Subscription
                              /\ posts[m.what].source = a[1] /\ posts[m.what].json.re = a[2]
        BY <2>8
      <3>2. m \in wire' /\ posts'[m.what] = posts[m.what] /\ posts'[a[2]] = posts[a[2]]
        BY <1>a, <2>4, <3>1, WireFacts
      <3>. QED  BY <3>1, <3>2 DEF UnderWay
    <2>. QED  BY <2>5, <2>6, <2>7, <2>8 DEF AnswersNotLost, UnderWay
  <1>3. CASE PublishBroadcast(n)
    <2>1. broadcast_rcv[n] \in Seq(Broadcasts) /\ broadcast_rcv[n] # <<>>
      BY <1>3 DEF PublishBroadcast, IndInv, AllOwed
    <2>2. Head(broadcast_rcv[n]) \in Broadcasts /\ publish(n, Head(broadcast_rcv[n]))
      BY <1>3, <2>1, HeadTailProperties DEF PublishBroadcast
    <2>3. UNCHANGED <<view, responders, response_rcv, heard, answerable>>
      BY <1>3 DEF PublishBroadcast, local
    <2>4. /\ OwnReceived' /\ Printed' /\ Within'
          /\ \A k \in DOMAIN posts : k \in DOMAIN posts' /\ posts'[k] = posts[k]
          /\ \A m \in wire : m \in wire'
          /\ \A a \in answerable : Answered(a[1], a[2]) => Answered(a[1], a[2])'
      BY <2>2, <2>3, TrackPublish
    <2>5. ASSUME NEW a \in answerable, UnderWay(a[1], a[2]) PROVE UnderWay(a[1], a[2])'
      BY <2>3, <2>4, <2>5, UnderWayStays
    <2>. QED  BY <2>3, <2>4, <2>5 DEF AnswersNotLost
  <1>. QED  BY <1>1, <1>2, <1>3 DEF Turn

\* What a node has received and was meant for it as an answer, it has printed.
LEMMA AnswerRead ==
  ASSUME TrackInv, NEW q \in Node, NEW i \in DOMAIN posts, NEW k \in DOMAIN posts,
         posts[k].source = q, posts[k].json.re = i
  PROVE  /\ addressed(posts[i].source, posts[k].json) /\ kind(posts[k].json) = "response"
         /\ posts[i].source # q /\ k \in received[posts[i].source] => Answered(q, i)
  <1>1. i # 0 /\ posts[i].source \in Node
    BY PostFacts DEF TrackInv
  <1>2. posts[k].json \in Responses(q)
    BY <1>1, AnswerPost DEF TrackInv
  <1>3. addressed(posts[i].source, posts[k].json) /\ kind(posts[k].json) = "response"
    BY <1>2, ResponseFacts
  <1>. QED  BY <1>1, <1>3 DEF TrackInv, Track, Printed, Answered

LEMMA WireTrack ==
  ASSUME TrackInv, NEW m \in wire, Receive(m) \/ Subscribed(m)
  PROVE  Track'
  <1>. USE DEF TrackInv, Track
  <1>a. \A a \in answerable : a[1] \in Node /\ a[2] \in DOMAIN posts
    BY DEF IndInv, TypeOK, Within
  <1>b. /\ m.from \in Node /\ m.to \in Node
        /\ \A w \in wire : w.what # Subscription => w.what \in DOMAIN posts
    BY WireFacts
  <1>1. CASE Subscribed(m)
    <2>1. /\ UNCHANGED <<posts, received, loop, answerable, view>>
          /\ \A w \in wire : w.what # Subscription => w \in wire'
          /\ subscribers' = [subscribers EXCEPT ![m.to] = @ \cup {m.from}]
      BY <1>1 DEF Subscribed, local
    <2>2. \A n \in Node : Targets(n) \subseteq Targets(n)'
      BY <2>1 DEF Targets, IndInv, TypeOK
    <2>. QED  BY <2>1, <2>2, TrackKept
  <1>2. CASE Receive(m) /\ m.what \in received[m.to]
    <2>1. /\ UNCHANGED <<posts, received, responders, response_rcv, heard, answerable, view,
                         subscribers>>
          /\ wire' = wire \ {m} /\ m.what # Subscription
      BY <1>2 DEF Receive, loop, local
    <2>2. OwnReceived' /\ Printed' /\ Within'
      BY <2>1 DEF OwnReceived, Printed, Within, Targets, addressed
    <2>. SUFFICES ASSUME NEW a \in answerable PROVE (Answered(a[1], a[2]) \/ UnderWay(a[1], a[2]))'
      BY <2>1, <2>2 DEF AnswersNotLost
    <2>3. CASE Answered(a[1], a[2])
      BY <2>1, <2>3 DEF Answered
    <2>4. CASE UnderWay(a[1], a[2])
      <3>1. CASE \E w \in wire' : /\ w.from = a[1] /\ w.to = posts[a[2]].source
                                  /\ w.what # Subscription
                                  /\ posts[w.what].source = a[1] /\ posts[w.what].json.re = a[2]
        BY <2>1, <3>1 DEF UnderWay
      <3>2. CASE \/ \E t \in responders[a[1]] : t.re = a[2]
                 \/ \E k \in DOMAIN response_rcv[a[1]] : response_rcv[a[1]][k].re = a[2]
        BY <2>1, <3>2 DEF UnderWay
      <3>3. CASE /\ m.from = a[1] /\ m.to = posts[a[2]].source
                 /\ posts[m.what].source = a[1] /\ posts[m.what].json.re = a[2]
        <4>1. posts[a[2]].source # a[1]
          BY DEF Within
        <4>2. Answered(a[1], a[2])
          BY <1>2, <1>a, <1>b, <2>1, <3>3, <4>1, AnswerRead
        <4>. QED  BY <2>1, <4>2 DEF Answered
      <3>. QED  BY <2>1, <2>4, <3>1, <3>2, <3>3 DEF UnderWay
    <2>. QED  BY <2>3, <2>4 DEF AnswersNotLost
  <1>3. CASE Receive(m) /\ m.what \notin received[m.to]
    <2>. DEFINE n == m.to  K == m.what
    <2>1. /\ wire' = (wire \ {m}) \cup Send(n, Targets(n) \ {m.from}, K)
          /\ received' = [received EXCEPT ![n] = @ \cup {K}]
          /\ HandleMessage(n, K) /\ K # Subscription
          /\ UNCHANGED <<posts, view, subscribers>>
      BY <1>3 DEF Receive, local
    <2>2. n \in Node /\ K \in DOMAIN posts /\ K \notin received[n]
      BY <1>3, <1>b, <2>1
    <2>3. posts[K].source # n /\ posts[K].source \in Node
      BY <2>2, PostFacts DEF OwnReceived
    <2>. HIDE DEF n, K
    <2>4. /\ \A p \in Node : heard[p] \subseteq heard'[p] /\ responders[p] \subseteq responders'[p]
          /\ addressed(n, posts[K].json) => <<K, kind(posts[K].json)>> \in heard'[n]
          /\ UNCHANGED response_rcv
          /\ \A a \in answerable' : a \in answerable \/
               /\ a = <<n, K>> /\ posts[K].source \in Targets(n)
               /\ [to |-> posts[K].source, re |-> K] \in responders'[n]
          /\ answerable \subseteq answerable'
      BY <2>1, <2>2 DEF HandleMessage, IndInv, TypeOK
    <2>5. OwnReceived'
      BY <2>1, <2>2, PostFacts DEF OwnReceived
    <2>6. Printed'
      <3>. SUFFICES ASSUME NEW p \in Node, NEW k \in received'[p], posts[k].source # p,
                           addressed(p, posts[k].json)
                    PROVE  <<k, kind(posts[k].json)>> \in heard'[p]
        BY <2>1 DEF Printed
      <3>1. CASE k \in received[p]
        BY <2>4, <3>1 DEF Printed
      <3>2. CASE p = n /\ k = K
        BY <2>4, <3>2
      <3>. QED  BY <2>1, <3>1, <3>2, PostFacts
    <2>7. Within'
      <3>. SUFFICES ASSUME NEW a \in answerable'
                    PROVE  /\ a[2] \in DOMAIN posts /\ posts[a[2]].source # a[1]
                           /\ posts[a[2]].source \in Targets(a[1])
        BY <2>1 DEF Within, Targets
      <3>. QED  BY <2>2, <2>3, <2>4 DEF Within
    <2>8. ASSUME NEW a \in answerable' PROVE (Answered(a[1], a[2]) \/ UnderWay(a[1], a[2]))'
      <3>1. CASE a \in answerable
        <4>1. CASE Answered(a[1], a[2])
          BY <1>a, <2>1, <2>4, <3>1, <4>1, AnsweredStays
        <4>2. CASE UnderWay(a[1], a[2])
          <5>1. CASE \/ \E t \in responders[a[1]] : t.re = a[2]
                     \/ \E k \in DOMAIN response_rcv[a[1]] : response_rcv[a[1]][k].re = a[2]
            BY <1>a, <2>4, <3>1, <5>1 DEF UnderWay
          <5>2. CASE \E w \in wire \ {m} :
                       /\ w.from = a[1] /\ w.to = posts[a[2]].source /\ w.what # Subscription
                       /\ posts[w.what].source = a[1] /\ posts[w.what].json.re = a[2]
            BY <2>1, <5>2 DEF UnderWay
          <5>3. CASE /\ n = posts[a[2]].source /\ posts[K].source = a[1]
                     /\ posts[K].json.re = a[2]
            <6>1. addressed(n, posts[K].json) /\ kind(posts[K].json) = "response"
              BY <1>a, <2>2, <3>1, <5>3, AnswerRead
            <6>2. <<K, "response">> \in heard'[posts[a[2]].source]
              BY <2>4, <5>3, <6>1
            <6>. QED  BY <2>1, <2>2, <5>3, <6>2 DEF Answered
          <5>. QED  BY <4>2, <5>1, <5>2, <5>3 DEF UnderWay, n, K
        <4>. QED  BY <3>1, <4>1, <4>2 DEF AnswersNotLost
      <3>2. CASE a = <<n, K>> /\ [to |-> posts[K].source, re |-> K] \in responders'[n]
        <4>1. a[1] = n /\ a[2] = K /\ [to |-> posts[K].source, re |-> K].re = K
          BY <3>2
        <4>. QED  BY <3>2, <4>1 DEF UnderWay
      <3>. QED  BY <2>4, <2>8, <3>1, <3>2
    <2>. QED  BY <2>5, <2>6, <2>7, <2>8 DEF AnswersNotLost
  <1>. QED  BY <1>1, <1>2, <1>3 DEF Receive

LEMMA TrackInductive == TrackInv /\ [Next]_vars => TrackInv'
  <1>. SUFFICES ASSUME TrackInv, [Next]_vars PROVE Track'
    BY Inductive DEF TrackInv
  <1>1. CASE Network
    BY <1>1, WireTrack, LocalTrack DEF Network
  <1>2. ASSUME NEW n \in Node, Mdns(n) PROVE Track'
    BY <1>2, LocalTrack DEF Mdns
  <1>3. ASSUME NEW n \in Node, Command(n) \/ Turn(n) PROVE Track'
    BY <1>3, CommandTrack, TurnTrack
  <1>4. CASE UNCHANGED vars
    <2>1. UNCHANGED <<posts, received, loop, answerable, view, subscribers, wire>>
      BY <1>4 DEF vars, library, local
    <2>. QED  BY <2>1, TrackKept DEF Targets
  <1>. QED  BY <1>1, <1>2, <1>3, <1>4 DEF Next

\* While nothing fails, an answer that is due is printed or on its way to be: no
\* redial, record or copy that came first by another way loses it (main.rs 170-251).
THEOREM AnswersStay == Spec => []AnswersNotLost
  <1>1. TrackInv => AnswersNotLost
    BY DEF TrackInv, Track
  <1>. QED  BY <1>1, InitTrack, TrackInductive, PTL DEF Spec

-----------------------------------------------------------------------------
(* One answer *)

\* No node answers a request twice, however many copies of it floodsub carries
\* round the network, and whether or not the first answer has left.
Places(q, i) ==
  {<<"task", r>> : r \in {r \in responders[q] : r.re = i}}
  \cup {<<"channel", k>> : k \in {k \in DOMAIN response_rcv[q] : response_rcv[q][k].re = i}}
  \cup {<<"topic", k>> : k \in {k \in DOMAIN posts :
           posts[k].source = q /\ posts[k].json.fields = Field /\ posts[k].json.re = i}}
AnsweredOnce == \A q \in Node : \A i \in DOMAIN posts : \A x, y \in Places(q, i) : x = y

\* What a node answers, it has received.
LEMMA PlacesOwed ==
  ASSUME IndInv, NEW q \in Node, NEW i \in Nat, NEW x \in Places(q, i)
  PROVE  i \in received[q] /\ i \in DOMAIN posts
  <1>1. CASE \E r \in responders[q] : r.re = i
    <2>1. PICK r \in responders[q] : r.re = i
      BY <1>1
    <2>2. <<r.to, i>> \in Owed(q)
      BY <2>1 DEF IndInv, AllOwed
    <2>. QED  BY <2>2 DEF Owed, IsRequestFor
  <1>2. CASE \E k \in DOMAIN response_rcv[q] : response_rcv[q][k].re = i
    BY <1>2, ChannelFacts, ResponseFacts
  <1>3. CASE \E k \in DOMAIN posts : /\ posts[k].source = q /\ posts[k].json.fields = Field
                                     /\ posts[k].json.re = i
    BY <1>3, AnswerPost, ResponseFacts
  <1>. QED  BY <1>1, <1>2, <1>3 DEF Places

\* A step that makes no place for an answer leaves at most one.
LEMMA OnceKept ==
  ASSUME IndInv, AnsweredOnce, DOMAIN posts' \subseteq Nat,
         \A q \in Node : \A i \in Nat : Places(q, i)' \subseteq Places(q, i)
  PROVE  AnsweredOnce'
  <1>. SUFFICES ASSUME NEW q \in Node, NEW i \in DOMAIN posts',
                       NEW x \in Places(q, i)', NEW y \in Places(q, i)'
                PROVE  x = y
    BY DEF AnsweredOnce
  <1>1. x \in Places(q, i) /\ y \in Places(q, i)
    OBVIOUS
  <1>2. i \in DOMAIN posts
    BY <1>1, PlacesOwed
  <1>. QED  BY <1>1, <1>2 DEF AnsweredOnce

LEMMA SamePlaces ==
  ASSUME IndInv, AnsweredOnce, UNCHANGED <<posts, responders, response_rcv>>
  PROVE  AnsweredOnce'
  <1>1. \A q \in Node : \A i \in Nat : Places(q, i)' \subseteq Places(q, i)
    BY DEF Places
  <1>2. DOMAIN posts' \subseteq Nat
    BY PostFacts
  <1>. QED  BY <1>1, <1>2, OnceKept

\* A post that is no answer makes no place.
LEMMA PublishPlaces ==
  ASSUME IndInv, AnsweredOnce, NEW n \in Node, NEW json \in Requests \cup Broadcasts,
         publish(n, json), UNCHANGED <<responders, response_rcv>>
  PROVE  AnsweredOnce'
  <1>. DEFINE x == [source |-> n, json |-> json]
              K == Len(posts) + 1
  <1>1. x \in Post /\ x.json = json
    BY Kinds DEF Post
  <1>2. posts' = Append(posts, x)
    BY DEF publish
  <1>. HIDE DEF x
  <1>3. /\ DOMAIN posts = 1..Len(posts) /\ DOMAIN posts' = 1..K /\ Len(posts) \in Nat
        /\ \A k \in 1..Len(posts) : posts'[k] = posts[k]
        /\ posts'[K] = x
    BY <1>1, <1>2, PostsKept, PostFacts
  <1>4. json.fields # Field
    <2>1. "mode" \in Field /\ "data" \in Field /\ Field # {"mode"} /\ Field # {"data", "receiver"}
      BY DEF Field
    <2>. QED  BY <2>1, Kinds
  <1>5. ASSUME NEW k \in DOMAIN posts', posts'[k].json.fields = Field
        PROVE  k \in DOMAIN posts /\ posts'[k] = posts[k]
    BY <1>1, <1>3, <1>4, <1>5
  <1>6. \A q \in Node : \A i \in Nat : Places(q, i)' \subseteq Places(q, i)
    BY <1>5 DEF Places
  <1>. QED  BY <1>3, <1>6, OnceKept

\* A task that ends leaves its answer in the channel, or none.
LEMMA RespondPlaces ==
  ASSUME IndInv, AnsweredOnce, NEW n \in Node, NEW r \in responders[n],
         respond_with_public_recipes(n, r)
  PROVE  AnsweredOnce'
  <1>. DEFINE s == response_rcv[n]
              slot == <<"channel", Len(s) + 1>>
  <1>1. UNCHANGED posts /\ responders' = [responders EXCEPT ![n] = @ \ {r}]
    BY DEF respond_with_public_recipes, library
  <1>2. s \in Seq(Responses(n)) /\ Len(s) \in Nat /\ DOMAIN s = 1..Len(s)
    BY ChannelFacts
  <1>3. \/ UNCHANGED response_rcv
        \/ response_rcv' = [response_rcv EXCEPT ![n] = Append(s, ListResponse(r.to, r.re))]
    BY DEF respond_with_public_recipes
  <1>4. \A k \in DOMAIN Append(s, ListResponse(r.to, r.re)) :
          \/ k \in DOMAIN s /\ Append(s, ListResponse(r.to, r.re))[k] = s[k]
          \/ k = Len(s) + 1 /\ Append(s, ListResponse(r.to, r.re))[k].re = r.re
    BY <1>2 DEF ListResponse
  <1>5. ASSUME NEW q \in Node, NEW k \in DOMAIN response_rcv'[q]
        PROVE  \/ k \in DOMAIN response_rcv[q] /\ response_rcv'[q][k] = response_rcv[q][k]
               \/ q = n /\ k = Len(s) + 1 /\ response_rcv'[q][k].re = r.re
    BY <1>3, <1>4 DEF IndInv, TypeOK
  <1>6. ASSUME NEW q \in Node, NEW i \in Nat, NEW x \in Places(q, i)'
        PROVE  x \in Places(q, i) \/ (q = n /\ i = r.re /\ x = slot)
    <2>1. CASE \E t \in responders'[q] : t.re = i /\ x = <<"task", t>>
      BY <1>1, <2>1 DEF Places, IndInv, TypeOK
    <2>2. CASE \E k \in DOMAIN response_rcv'[q] : response_rcv'[q][k].re = i /\ x = <<"channel", k>>
      BY <1>5, <2>2 DEF Places
    <2>3. CASE \E k \in DOMAIN posts : /\ posts[k].source = q /\ posts[k].json.fields = Field
                                       /\ posts[k].json.re = i /\ x = <<"topic", k>>
      BY <2>3 DEF Places
    <2>. QED  BY <1>1, <1>6, <2>1, <2>2, <2>3 DEF Places
  <1>7. <<"task", r>> \in Places(n, r.re) /\ <<"task", r>> \notin Places(n, r.re)' /\ r.re \in Nat
    BY <1>1 DEF Places, IndInv, TypeOK
  <1>8. DOMAIN posts \subseteq Nat
    BY PostFacts
  <1>. SUFFICES ASSUME NEW q \in Node, NEW i \in DOMAIN posts,
                       NEW x \in Places(q, i)', NEW y \in Places(q, i)'
                PROVE  x = y
    BY <1>1 DEF AnsweredOnce
  <1>9. CASE q = n /\ i = r.re
    <2>1. \A z \in Places(n, r.re) : z = <<"task", r>>
      BY <1>7, <1>9 DEF AnsweredOnce
    <2>. QED  BY <1>6, <1>7, <1>9, <2>1
  <1>10. CASE ~(q = n /\ i = r.re)
    BY <1>6, <1>8, <1>10 DEF AnsweredOnce
  <1>. QED  BY <1>9, <1>10

\* The answer at the head of the channel goes to the topic, the others up.
LEMMA HeadPlaces ==
  ASSUME IndInv, AnsweredOnce, NEW n \in Node, PublishResponse(n)
  PROVE  AnsweredOnce'
  <1>. DEFINE s == response_rcv[n]
              x == [source |-> n, json |-> Head(s)]
              K == Len(posts) + 1
              Before(p) == IF p[1] = "channel" THEN <<"channel", p[2] + 1>>
                           ELSE IF p = <<"topic", K>> THEN <<"channel", 1>> ELSE p
  <1>1. /\ s \in Seq(Responses(n)) /\ s # <<>> /\ Len(s) \in Nat /\ DOMAIN s = 1..Len(s)
        /\ Head(s) = s[1] /\ Head(s) \in Responses(n)
    BY ChannelFacts, HeadTailProperties DEF PublishResponse
  <1>2. x \in Post /\ x.source = n /\ x.json = Head(s)
    BY <1>1, Kinds DEF Post
  <1>3. /\ posts' = Append(posts, x) /\ UNCHANGED responders
        /\ response_rcv' = [response_rcv EXCEPT ![n] = Tail(s)]
    BY DEF PublishResponse, publish
  <1>. HIDE DEF x
  <1>4. /\ DOMAIN posts = 1..Len(posts) /\ DOMAIN posts' = 1..K /\ Len(posts) \in Nat
        /\ \A k \in 1..Len(posts) : posts'[k] = posts[k]
        /\ posts'[K] = x
    BY <1>2, <1>3, PostsKept, PostFacts
  <1>5. \A k \in DOMAIN Tail(s) : k \in Nat \ {0} /\ k + 1 \in DOMAIN s /\ Tail(s)[k] = s[k + 1]
    BY <1>1
  <1>6. ASSUME NEW q \in Node, q # n, NEW i \in Nat PROVE Places(q, i)' \subseteq Places(q, i)
    <2>1. response_rcv'[q] = response_rcv[q]
      BY <1>3, <1>6 DEF IndInv, TypeOK
    <2>2. \A k \in DOMAIN posts' : posts'[k].source = q => k \in DOMAIN posts /\ posts'[k] = posts[k]
      BY <1>2, <1>4, <1>6
    <2>. QED  BY <1>3, <2>1, <2>2 DEF Places
  <1>7. ASSUME NEW i \in Nat, NEW p \in Places(n, i)'
        PROVE  /\ Before(p) \in Places(n, i)
               /\ \/ p[1] = "task"
                  \/ p[1] = "topic" /\ p[2] \in Nat
                  \/ p[1] = "channel" /\ p[2] \in Nat \ {0}
               /\ p = <<p[1], p[2]>>
    <2>1. CASE \E t \in responders[n] : t.re = i /\ p = <<"task", t>>
      BY <2>1 DEF Places
    <2>2. CASE \E k \in DOMAIN Tail(s) : Tail(s)[k].re = i /\ p = <<"channel", k>>
      <3>1. PICK k \in DOMAIN Tail(s) : Tail(s)[k].re = i /\ p = <<"channel", k>>
        BY <2>2
      <3>2. k + 1 \in DOMAIN s /\ s[k + 1].re = i /\ k \in Nat \ {0}
        BY <1>5, <3>1
      <3>3. Before(p) = <<"channel", k + 1>>
        BY <3>1
      <3>. HIDE DEF Before
      <3>. QED  BY <3>1, <3>2, <3>3 DEF Places
    <2>3. CASE \E k \in DOMAIN posts' : /\ posts'[k].source = n /\ posts'[k].json.fields = Field
                                        /\ posts'[k].json.re = i /\ p = <<"topic", k>>
      <3>1. PICK k \in DOMAIN posts' : /\ posts'[k].source = n /\ posts'[k].json.fields = Field
                                       /\ posts'[k].json.re = i /\ p = <<"topic", k>>
        BY <2>3
      <3>2. k \in Nat
        BY <1>4
      <3>3. CASE k = K
        <4>1. Before(p) = <<"channel", 1>>
          BY <3>1, <3>3
        <4>2. 1 \in DOMAIN s /\ s[1].re = i
          BY <1>1, <1>2, <1>4, <3>1, <3>3
        <4>. HIDE DEF Before
        <4>. QED  BY <3>1, <3>2, <4>1, <4>2 DEF Places
      <3>4. CASE k # K
        <4>1. Before(p) = p
          BY <3>1, <3>4
        <4>2. k \in DOMAIN posts /\ posts'[k] = posts[k]
          BY <1>4, <3>4
        <4>. HIDE DEF Before
        <4>. QED  BY <3>1, <3>2, <4>1, <4>2 DEF Places
      <3>. QED  BY <3>3, <3>4
    <2>4. response_rcv'[n] = Tail(s) /\ responders' = responders
      BY <1>3 DEF IndInv, TypeOK
    <2>. QED  BY <1>7, <2>1, <2>2, <2>3, <2>4 DEF Places
  <1>8. ASSUME NEW i \in DOMAIN posts', NEW p \in Places(n, i)', NEW t \in Places(n, i)'
        PROVE  p = t
    <2>1. i \in Nat
      BY <1>4
    <2>2. Before(p) \in Places(n, i) /\ Before(t) \in Places(n, i)
      BY <1>7, <2>1
    <2>3. i \in DOMAIN posts
      BY <2>1, <2>2, PlacesOwed
    <2>4. Before(p) = Before(t)
      BY <2>2, <2>3 DEF AnsweredOnce
    <2>. QED  BY <1>7, <2>1, <2>4
  <1>9. ASSUME NEW q \in Node, q # n, NEW i \in DOMAIN posts',
               NEW p \in Places(q, i)', NEW t \in Places(q, i)'
        PROVE  p = t
    <2>1. i \in Nat /\ p \in Places(q, i) /\ t \in Places(q, i)
      BY <1>4, <1>6, <1>9
    <2>2. i \in DOMAIN posts
      BY <2>1, PlacesOwed
    <2>. QED  BY <2>1, <2>2 DEF AnsweredOnce
  <1>. QED  BY <1>8, <1>9 DEF AnsweredOnce

\* A request makes its place when it is received, and is received once.
LEMMA ReceivePlaces ==
  ASSUME IndInv, AnsweredOnce, NEW m \in wire, Receive(m)
  PROVE  AnsweredOnce'
  <1>. DEFINE n == m.to  K == m.what
  <1>1. CASE K \in received[n]
    BY <1>1, SamePlaces DEF Receive, loop
  <1>2. CASE K \notin received[n]
    <2>1. HandleMessage(n, K) /\ UNCHANGED posts /\ K # Subscription
      BY <1>2 DEF Receive
    <2>2. n \in Node /\ K \in DOMAIN posts /\ K \in Nat /\ DOMAIN posts \subseteq Nat
      <3>1. n \in Node /\ K \in DOMAIN posts
        BY <2>1, WireFacts
      <3>2. DOMAIN posts \subseteq Nat
        BY PostFacts
      <3>. QED  BY <3>1, <3>2
    <2>. HIDE DEF n, K
    <2>. DEFINE r == [to |-> posts[K].source, re |-> K]
    <2>3. /\ UNCHANGED response_rcv
          /\ \A q \in Node : \A t \in responders'[q] : t \in responders[q] \/ (q = n /\ t = r)
      BY <2>1 DEF HandleMessage, IndInv, TypeOK
    <2>4. r.re = K
      OBVIOUS
    <2>. HIDE DEF r
    <2>5. ASSUME NEW q \in Node, NEW i \in Nat, NEW x \in Places(q, i)'
          PROVE  x \in Places(q, i) \/ (q = n /\ i = K /\ x = <<"task", r>>)
      BY <2>1, <2>3, <2>4, <2>5 DEF Places
    <2>6. \A x : x \notin Places(n, K)
      BY <1>2, <2>2, PlacesOwed DEF n, K
    <2>7. ASSUME NEW q \in Node, NEW i \in DOMAIN posts, NEW x \in Places(q, i)',
                 NEW y \in Places(q, i)'
          PROVE  x = y
      <3>1. CASE q = n /\ i = K
        BY <2>2, <2>5, <2>6, <3>1
      <3>2. CASE ~(q = n /\ i = K)
        BY <2>2, <2>5, <3>2 DEF AnsweredOnce
      <3>. QED  BY <3>1, <3>2
    <2>. QED  BY <2>1, <2>7 DEF AnsweredOnce
  <1>. QED  BY <1>1, <1>2

LEMMA OnceInductive == IndInv /\ AnsweredOnce /\ [Next]_vars => AnsweredOnce'
  <1>. SUFFICES ASSUME IndInv, AnsweredOnce, [Next]_vars PROVE AnsweredOnce'
    OBVIOUS
  <1>1. ASSUME NEW m \in wire, Receive(m) \/ Subscribed(m) PROVE AnsweredOnce'
    BY <1>1, ReceivePlaces, SamePlaces DEF Subscribed, loop
  <1>2. ASSUME NEW p \in Node, NEW q \in Node, Connect(p, q) \/ Disconnect(p, q)
        PROVE  AnsweredOnce'
    BY <1>2, SamePlaces DEF Connect, Disconnect, Lose, Break, loop
  <1>3. ASSUME NEW n \in Node, Mdns(n) PROVE AnsweredOnce'
    BY <1>3, SamePlaces DEF Mdns, Discovered, Expired, library, loop
  <1>4. ASSUME NEW n \in Node, Command(n) PROVE AnsweredOnce'
    <2>1. CASE handle_list_recipes(n)
      <3>1. PICK m \in {"All"} \cup Named : publish(n, ListRequest(m))
        BY <2>1 DEF handle_list_recipes
      <3>2. ListRequest(m) \in Requests /\ UNCHANGED <<responders, response_rcv>>
        BY <2>1, LocalAssumption DEF Requests, handle_list_recipes, loop
      <3>. QED  BY <3>1, <3>2, PublishPlaces
    <2>2. CASE handle_broadcast_recipe(n) \/ BroadcastPanic(n)
      BY <2>2, SamePlaces DEF handle_broadcast_recipe, BroadcastPanic, Panic, Lose, Break,
                              library, loop
    <2>. QED  BY <1>4, <2>1, <2>2 DEF Command
  <1>5. ASSUME NEW n \in Node, Turn(n) PROVE AnsweredOnce'
    <2>1. CASE PublishBroadcast(n)
      <3>1. broadcast_rcv[n] \in Seq(Broadcasts) /\ broadcast_rcv[n] # <<>>
        BY <2>1 DEF PublishBroadcast, IndInv, AllOwed
      <3>2. Head(broadcast_rcv[n]) \in Broadcasts
        BY <3>1, HeadTailProperties
      <3>. QED  BY <2>1, <3>2, PublishPlaces DEF PublishBroadcast
    <2>. QED  BY <1>5, <2>1, RespondPlaces, HeadPlaces DEF Turn
  <1>6. CASE UNCHANGED vars
    BY <1>6, SamePlaces DEF vars, library, loop
  <1>. QED  BY <1>1, <1>2, <1>3, <1>4, <1>5, <1>6 DEF Next, Network

LEMMA InitOnce == Init => AnsweredOnce
  <1>1. DOMAIN <<>> = {}
    OBVIOUS
  <1>. QED  BY <1>1 DEF Init, AnsweredOnce

\* In any network, with any number of copies of a request under way, a node
\* answers it at most once (floodsub's filter, before main.rs 182-207).
THEOREM AnswersOnce == Spec => []AnsweredOnce
  BY InitOnce, InitIndInv, Inductive, OnceInductive, PTL DEF Spec

-----------------------------------------------------------------------------
(* The board *)

\* What a connection joins is running; what mDNS keeps is a node's own records.
Joined ==
  /\ \A l \in links : \A n \in l : Running(n)
  /\ \A n \in Node : \A r \in discovered[n] : r.at = n
BoardInv == IndInv /\ AnsweredOnce /\ Joined

\* What the board sees of the state.
Notes == [i \in DOMAIN posts |-> note(posts[i])]
Owes == [n \in Node |-> owed(n)]
receivers(s) == [i \in DOMAIN s |-> s[i].receiver]
Planned == [n \in Node |-> receivers(broadcast_rcv[n])]
Living == {n \in Node : Running(n)}
Refines == Board!BNext \/ UNCHANGED Board!bvars

LEMMA JoinedInit == Init => Joined
  BY DEF Init, Joined

LEMMA JoinedStep == IndInv /\ Joined /\ [Next]_vars => Joined'
  <1>. SUFFICES ASSUME IndInv, Joined, [Next]_vars PROVE Joined'
    OBVIOUS
  <1>. USE DEF Joined, Running
  <1>1. ASSUME NEW m \in wire, Receive(m) \/ Subscribed(m) PROVE Joined'
    BY <1>1 DEF Receive, Subscribed, local
  <1>2. ASSUME NEW p \in Node, NEW q \in Node, Connect(p, q) \/ Disconnect(p, q)
        PROVE  Joined'
    BY <1>2 DEF Connect, Disconnect, Lose, Break, local
  <1>3. ASSUME NEW n \in Node, NEW R \in SUBSET Record, Discovered(n, R) \/ Expired(n, R)
        PROVE  Joined'
    <2>1. UNCHANGED <<status, links>> /\ discovered \in [Node -> SUBSET Record]
      BY <1>3 DEF Discovered, Expired, library, IndInv, TypeOK
    <2>2. \A r \in discovered'[n] : r.at = n
      BY <1>3, <2>1 DEF Discovered, Expired
    <2>3. \A q \in Node \ {n} : discovered'[q] = discovered[q]
      BY <1>3, <2>1 DEF Discovered, Expired
    <2>. QED  BY <2>1, <2>2, <2>3
  <1>4. ASSUME NEW n \in Node, Command(n) PROVE Joined'
    <2>1. CASE handle_list_recipes(n) \/ handle_broadcast_recipe(n)
      BY <2>1 DEF handle_list_recipes, handle_broadcast_recipe, publish, local, library
    <2>2. CASE BroadcastPanic(n)
      <3>1. PICK how : Panic(n, how)
        BY <2>2 DEF BroadcastPanic
      <3>2. /\ status' = [status EXCEPT ![n] = how] /\ links' = links \ {l \in links : n \in l}
            /\ UNCHANGED discovered
        BY <3>1 DEF Panic, Lose, Break
      <3>3. links \subseteq SUBSET Node /\ DOMAIN status = Node
        BY DEF IndInv, TypeOK
      <3>. QED  BY <3>2, <3>3
    <2>. QED  BY <1>4, <2>1, <2>2 DEF Command
  <1>5. ASSUME NEW n \in Node, Turn(n) PROVE Joined'
    BY <1>5 DEF Turn, respond_with_public_recipes, PublishResponse, PublishBroadcast, publish,
                local, library
  <1>6. CASE UNCHANGED vars
    BY <1>6 DEF vars, local, library
  <1>. QED  BY <1>1, <1>2, <1>3, <1>4, <1>5, <1>6 DEF Next, Network, Mdns

LEMMA BoardUnseen ==
  ASSUME UNCHANGED <<status, posts, received, loop>>
  PROVE  Refines
  BY DEF Refines, Board!bvars, Running, note, owed, loop

-----------------------------------------------------------------------------
(* Notes *)

\* What is published goes up as a note that says what the message is.
LEMMA PublishNote ==
  ASSUME IndInv, NEW n \in Node, NEW json \in Requests \cup Broadcasts \cup Responses(n),
         publish(n, json), Running(n)
  PROVE  Board!PutUp(n, note([source |-> n, json |-> json]))
  <1>. DEFINE x == [source |-> n, json |-> json]
              K == Len(posts) + 1
  <1>1. x \in Post
    BY Kinds DEF Post
  <1>2. posts' = Append(posts, x) /\ received' = [received EXCEPT ![n] = @ \cup {K}]
    BY DEF publish
  <1>. HIDE DEF x
  <1>3. /\ DOMAIN posts = 1..Len(posts) /\ DOMAIN posts' = 1..K /\ Len(posts) \in Nat
        /\ \A k \in 1..Len(posts) : posts'[k] = posts[k]
        /\ posts'[K] = x
    BY <1>1, <1>2, PostsKept, PostFacts
  <1>. DEFINE V == {note(posts[i]) : i \in DOMAIN posts} \cup {note(x)}
  <1>4. Notes \in Seq(V) /\ Len(Notes) = Len(posts) /\ note(x) \in V
    BY <1>3 DEF Notes
  <1>5. Notes' = [i \in 1..K |-> note(posts'[i])]
    BY <1>3 DEF Notes, note
  <1>6. /\ Append(Notes, note(x)) \in Seq(V) /\ Len(Append(Notes, note(x))) = K
        /\ \A i \in 1..Len(posts) : Append(Notes, note(x))[i] = note(posts[i])
        /\ Append(Notes, note(x))[K] = note(x)
    BY <1>3, <1>4, AppendProperties DEF Notes
  <1>7. Append(Notes, note(x)) \in [1..K -> V]
    BY <1>6, LenProperties
  <1>8. \A i \in 1..K : Notes'[i] = Append(Notes, note(x))[i]
    BY <1>3, <1>5, <1>6
  <1>9. Notes' = Append(Notes, note(x))
    BY <1>5, <1>7, <1>8
  <1>. QED  BY <1>2, <1>4, <1>9 DEF Board!PutUp, Notes, x

LEMMA NoteOf ==
  /\ \A n, m \in Node \cup {"All"} :
       note([source |-> n, json |-> ListRequest(m)]) = Board!Note(n, "request", m, 0)
  /\ \A n, p \in Node :
       note([source |-> n, json |-> ListBroadcast(p)]) = Board!Note(n, "broadcast", p, 0)
  /\ \A n, p \in Node : \A i \in Nat :
       note([source |-> n, json |-> ListResponse(p, i)]) = Board!Note(n, "response", p, i)
  <1>1. /\ \A m \in Node \cup {"All"} : kind(ListRequest(m)) = "request"
        /\ \A p \in Node : kind(ListBroadcast(p)) = "broadcast"
        /\ \A p \in Node : \A i \in Nat : kind(ListResponse(p, i)) = "response"
    BY DEF ListRequest, ListBroadcast, ListResponse, Field, kind, has
  <1>. QED  BY <1>1 DEF note, Board!Note, ListRequest, ListBroadcast, ListResponse

-----------------------------------------------------------------------------
(* Debts *)

\* Who owes what changes at one node, by one question.
LEMMA OwesChange ==
  ASSUME NEW n \in Node, NEW S, owed(n)' = S,
         \A q \in Node \ {n} : owed(q)' = owed(q)
  PROVE  Owes' = [Owes EXCEPT ![n] = S]
  BY DEF Owes

\* A task that has read the recipes hands its question to the channel.
LEMMA RespondBoard ==
  ASSUME BoardInv, NEW n \in Node, NEW r \in responders[n], respond_with_public_recipes(n, r)
  PROVE  Refines
  <1>. DEFINE s == response_rcv[n]
              i == r.re
  <1>1. /\ UNCHANGED <<status, posts, received, broadcast_rcv, heard>> /\ Running(n)
        /\ responders' = [responders EXCEPT ![n] = @ \ {r}]
    BY DEF respond_with_public_recipes, library
  <1>2. responders \in [Node -> SUBSET [to : Node, re : Nat]]
        /\ response_rcv \in [Node -> Seq(Json)]
    BY DEF BoardInv, IndInv, TypeOK
  <1>3. responders'[n] = responders[n] \ {r} /\ \A q \in Node \ {n} : responders'[q] = responders[q]
    BY <1>1, <1>2
  <1>4. CASE response_rcv' = [response_rcv EXCEPT ![n] = Append(@, ListResponse(r.to, i))]
    <2>1. <<r.to, i>> \in Owed(n)
      BY DEF BoardInv, IndInv, AllOwed
    <2>2. ListResponse(r.to, i) \in Responses(n) /\ ListResponse(r.to, i).re = i
      <3>1. \A a \in Owed(n) : ListResponse(a[1], a[2]) \in Responses(n)
        BY DEF Responses
      <3>2. ListResponse(<<r.to, i>>[1], <<r.to, i>>[2]) \in Responses(n)
        BY <2>1, <3>1
      <3>. QED  BY <3>2 DEF ListResponse
    <2>3. s \in Seq(Responses(n)) /\ DOMAIN s = 1..Len(s) /\ Len(s) \in Nat
      BY ChannelFacts DEF BoardInv
    <2>. HIDE DEF s, i
    <2>4. /\ response_rcv'[n] = Append(s, ListResponse(r.to, i))
          /\ \A q \in Node \ {n} : response_rcv'[q] = response_rcv[q]
      BY <1>2, <1>4 DEF s
    <2>5. /\ DOMAIN response_rcv'[n] = 1..Len(s) + 1
          /\ \A k \in 1..Len(s) : response_rcv'[n][k] = s[k]
          /\ response_rcv'[n][Len(s) + 1].re = i
      BY <2>2, <2>3, <2>4, AppendProperties, LenProperties
    <2>6. owed(n)' = owed(n)
      <3>1. {response_rcv'[n][k].re : k \in DOMAIN response_rcv'[n]}
            = {s[k].re : k \in DOMAIN s} \cup {i}
        BY <2>3, <2>5
      <3>2. {x.re : x \in responders'[n]} \cup {i} = {x.re : x \in responders[n]}
        BY <1>3 DEF i
      <3>. QED  BY <3>1, <3>2 DEF owed, s
    <2>7. \A q \in Node \ {n} : owed(q)' = owed(q)
      BY <1>3, <2>4 DEF owed
    <2>8. Owes' = Owes
      BY <2>6, <2>7 DEF Owes
    <2>. QED  BY <1>1, <2>8 DEF Refines, Board!bvars, Running, note, Owes
  <1>5. CASE UNCHANGED response_rcv
    <2>1. i \in owed(n) /\ i \in DOMAIN posts
      <3>1. <<r.to, i>> \in Owed(n)
        BY DEF BoardInv, IndInv, AllOwed
      <3>. QED  BY <3>1 DEF Owed, IsRequestFor, owed
    <2>2. \A x \in responders[n] : x.re = i => x = r
      <3>1. ASSUME NEW x \in responders[n], x.re = i PROVE <<"task", x>> = <<"task", r>>
        <4>1. <<"task", x>> \in Places(n, i) /\ <<"task", r>> \in Places(n, i)
          BY <3>1 DEF Places
        <4>. QED  BY <2>1, <4>1 DEF BoardInv, AnsweredOnce
      <3>. QED  BY <3>1
    <2>3. \A k \in DOMAIN s : s[k].re # i
      <3>1. SUFFICES ASSUME NEW k \in DOMAIN s, s[k].re = i PROVE FALSE
        OBVIOUS
      <3>2. <<"channel", k>> \in Places(n, i) /\ <<"task", r>> \in Places(n, i)
        BY <3>1 DEF Places
      <3>3. <<"channel", k>> = <<"task", r>>
        BY <2>1, <3>2 DEF BoardInv, AnsweredOnce
      <3>. QED  BY <3>3
    <2>4. owed(n)' = owed(n) \ {i}
      BY <1>3, <1>5, <2>2, <2>3 DEF owed
    <2>5. \A q \in Node \ {n} : owed(q)' = owed(q)
      BY <1>3, <1>5 DEF owed
    <2>6. Owes' = [Owes EXCEPT ![n] = @ \ {i}]
      BY <2>4, <2>5, OwesChange DEF Owes
    <2>7. Board!GiveUp(n, i)
      BY <1>1, <2>1, <2>6 DEF Board!GiveUp, Owes, Running, note
    <2>. QED  BY <2>1, <2>7 DEF Refines, Board!BNext, Owes
  <1>. QED  BY <1>4, <1>5 DEF respond_with_public_recipes

\* The first answer in the channel goes up, and is owed no more.
LEMMA PublishResponseBoard ==
  ASSUME BoardInv, NEW n \in Node, PublishResponse(n)
  PROVE  Refines
  <1>. DEFINE s == response_rcv[n]
              j == Head(s)
              i == j.re
  <1>1. /\ Running(n) /\ s # <<>> /\ publish(n, j)
        /\ response_rcv' = [response_rcv EXCEPT ![n] = Tail(@)]
        /\ UNCHANGED <<status, responders, broadcast_rcv, heard>>
    BY DEF PublishResponse
  <1>2. s \in Seq(Responses(n)) /\ DOMAIN s = 1..Len(s) /\ Len(s) \in Nat
    BY ChannelFacts DEF BoardInv
  <1>3. response_rcv \in [Node -> Seq(Json)]
    BY DEF BoardInv, IndInv, TypeOK
  <1>. HIDE DEF s
  <1>4. /\ j \in Responses(n) /\ Len(s) # 0 /\ j = s[1]
        /\ response_rcv'[n] = Tail(s)
        /\ DOMAIN Tail(s) = 1..Len(s) - 1
        /\ \A k \in 1..Len(s) - 1 : Tail(s)[k] = s[k + 1]
        /\ \A q \in Node \ {n} : response_rcv'[q] = response_rcv[q]
    <2>1. j \in Responses(n) /\ Tail(s) \in Seq(Responses(n)) /\ Len(Tail(s)) = Len(s) - 1
          /\ \A k \in 1..Len(Tail(s)) : Tail(s)[k] = s[k + 1]
      BY <1>1, <1>2, HeadTailProperties
    <2>2. j = s[1] /\ Len(s) # 0
      BY <1>1, <1>2, EmptySeq
    <2>. QED  BY <1>1, <1>3, <2>1, <2>2, LenProperties DEF s
  <1>5. PICK a \in Owed(n) : j = ListResponse(a[1], a[2])
    BY <1>4 DEF Responses
  <1>6. i = a[2] /\ a[1] \in Node /\ i \in Nat /\ i \in DOMAIN posts /\ posts[i].source = a[1]
    BY <1>5 DEF Owed, IsRequestFor, ListResponse
  <1>7. i \in owed(n)
    BY <1>2, <1>4 DEF owed, s
  <1>8. \A x \in responders[n] : x.re # i
    <2>1. SUFFICES ASSUME NEW x \in responders[n], x.re = i PROVE FALSE
      OBVIOUS
    <2>2. <<"channel", 1>> \in Places(n, i) /\ <<"task", x>> \in Places(n, i)
      BY <1>2, <1>4, <2>1 DEF Places, s
    <2>3. <<"channel", 1>> = <<"task", x>>
      BY <1>6, <2>2 DEF BoardInv, AnsweredOnce
    <2>. QED  BY <2>3
  <1>9. \A k \in 1..Len(s) - 1 : s[k + 1].re # i
    <2>1. SUFFICES ASSUME NEW k \in 1..Len(s) - 1, s[k + 1].re = i PROVE FALSE
      OBVIOUS
    <2>2. <<"channel", 1>> \in Places(n, i) /\ <<"channel", k + 1>> \in Places(n, i)
      BY <1>2, <1>4, <2>1 DEF Places, s
    <2>3. <<"channel", 1>> = <<"channel", k + 1>>
      BY <1>6, <2>2 DEF BoardInv, AnsweredOnce
    <2>. QED  BY <2>3
  <1>. HIDE DEF j, i
  <1>10. owed(n)' = owed(n) \ {i}
    <2>1. {s[k].re : k \in 1..Len(s)} = {i} \cup {s[k + 1].re : k \in 1..Len(s) - 1}
      <3>1. \A k \in 1..Len(s) : k = 1 \/ (k - 1 \in 1..Len(s) - 1 /\ k = (k - 1) + 1)
        BY <1>2
      <3>2. 1 \in 1..Len(s) /\ \A k \in 1..Len(s) - 1 : k + 1 \in 1..Len(s)
        BY <1>2, <1>4
      <3>3. s[1].re = i
        BY <1>4 DEF i
      <3>. QED  BY <3>1, <3>2, <3>3
    <2>2. {response_rcv'[n][k].re : k \in DOMAIN response_rcv'[n]}
          = {s[k + 1].re : k \in 1..Len(s) - 1}
      BY <1>4
    <2>3. owed(n) = {x.re : x \in responders[n]} \cup {s[k].re : k \in 1..Len(s)}
      BY <1>2 DEF owed, s
    <2>4. owed(n)' = {x.re : x \in responders[n]} \cup {s[k + 1].re : k \in 1..Len(s) - 1}
      BY <1>1, <2>2 DEF owed
    <2>. QED  BY <1>8, <1>9, <2>1, <2>3, <2>4
  <1>11. \A q \in Node \ {n} : owed(q)' = owed(q)
    BY <1>1, <1>4 DEF owed
  <1>12. Owes' = [Owes EXCEPT ![n] = @ \ {i}]
    BY <1>10, <1>11, OwesChange DEF Owes
  <1>13. Board!PutUp(n, Board!Note(n, "response", posts[i].source, i))
    <2>1. Board!PutUp(n, note([source |-> n, json |-> j]))
      BY <1>1, <1>4, PublishNote DEF BoardInv, j
    <2>. QED  BY <1>5, <1>6, <2>1, NoteOf
  <1>14. Board!Answer(n, i)
    <2>1. Notes[i].by = posts[i].source
      BY <1>6 DEF Notes, note
    <2>. QED  BY <1>1, <1>7, <1>12, <1>13, <2>1 DEF Board!Answer, Owes, Notes, Running
  <1>. QED  BY <1>7, <1>14 DEF Refines, Board!BNext, Owes

-----------------------------------------------------------------------------
(* Reading, planning, writing *)

\* A post is a request, a broadcast or a response.
LEMMA PostKinds ==
  ASSUME IndInv, NEW k \in DOMAIN posts
  PROVE  kind(posts[k].json) \in {"request", "response", "broadcast"}
  <1>1. posts[k].source \in Node
    BY PostFacts
  <1>2. posts[k].json \in Requests \cup Broadcasts \cup Responses(posts[k].source)
    BY <1>1 DEF IndInv, AllOwed
  <1>. QED  BY <1>1, <1>2, Kinds

LEMMA ReceiveBoard ==
  ASSUME BoardInv, NEW m \in wire, Receive(m)
  PROVE  Refines
  <1>. DEFINE n == m.to
              i == m.what
              json == posts[i].json
  <1>1. n \in Node /\ i \in DOMAIN posts /\ Running(n) /\ UNCHANGED <<status, posts>>
    <2>1. m.to \in Node /\ {m.from, m.to} \in links /\ m.what # Subscription
          /\ m.what \in DOMAIN posts
      BY WireFacts DEF BoardInv, Receive
    <2>. QED  BY <2>1 DEF BoardInv, Joined, Receive
  <1>2. CASE i \in received[n]
    <2>1. UNCHANGED <<received, loop>>
      BY <1>2 DEF Receive
    <2>. QED  BY <1>1, <2>1, BoardUnseen
  <1>3. CASE i \notin received[n]
    <2>1. received' = [received EXCEPT ![n] = @ \cup {i}] /\ HandleMessage(n, i)
      BY <1>3 DEF Receive
    <2>2. /\ responders \in [Node -> SUBSET [to : Node, re : Nat]]
          /\ heard \in [Node -> SUBSET ((1..Len(posts)) \X {"response", "broadcast"})]
      BY DEF BoardInv, IndInv, TypeOK
    <2>3. Notes[i] = note(posts[i]) /\ UNCHANGED <<response_rcv, broadcast_rcv>>
      BY <1>1, <2>1 DEF Notes, HandleMessage
    <2>4. kind(json) \in {"request", "response", "broadcast"}
      BY <1>1, PostKinds DEF BoardInv
    <2>. DEFINE due == {k \in {i} : Notes[k].what = "request" /\ Notes[k].to \in {"All", n}}
                mine == {<<k, Notes[k].what>> :
                           k \in {k \in {i} : Notes[k].what # "request" /\ Notes[k].to = n}}
    <2>5. due = IF asked(n, json) THEN {i} ELSE {}
      BY <2>3 DEF note, asked
    <2>6. mine = IF addressed(n, json) THEN {<<i, kind(json)>>} ELSE {}
      BY <2>3, <2>4 DEF note, addressed
    <2>7. heard' = [heard EXCEPT ![n] = @ \cup mine]
      BY <2>1, <2>2, <2>6 DEF HandleMessage
    <2>8. owed(n)' = owed(n) \cup due
      <3>1. CASE asked(n, json)
        <4>1. responders'[n] = responders[n] \cup {[to |-> posts[i].source, re |-> i]}
          BY <1>1, <2>1, <2>2, <3>1 DEF HandleMessage
        <4>2. {r.re : r \in responders'[n]} = {r.re : r \in responders[n]} \cup {i}
          <5>. DEFINE x == [to |-> posts[i].source, re |-> i]
          <5>1. x.re = i
            OBVIOUS
          <5>. HIDE DEF x, i
          <5>. QED  BY <4>1, <5>1 DEF x
        <4>3. due = {i}
          BY <2>5, <3>1
        <4>. HIDE DEF due
        <4>. QED  BY <2>3, <4>2, <4>3 DEF owed
      <3>2. CASE ~ asked(n, json)
        BY <2>1, <2>3, <2>5, <3>2 DEF owed, HandleMessage
      <3>. QED  BY <3>1, <3>2
    <2>9. \A q \in Node \ {n} : owed(q)' = owed(q)
      BY <2>1, <2>2, <2>3 DEF owed, HandleMessage
    <2>. HIDE DEF due, mine
    <2>10. Owes' = [Owes EXCEPT ![n] = @ \cup due]
      BY <1>1, <2>8, <2>9, OwesChange DEF Owes
    <2>11. Board!Read(n, i)
      BY <1>1, <1>3, <2>1, <2>3, <2>7, <2>10
         DEF Board!Read, Owes, Notes, Running, due, mine, note
    <2>. QED  BY <1>1, <2>11 DEF Refines, Board!BNext, Notes
  <1>. QED  BY <1>2, <1>3

LEMMA SameSequences == \A S : Board!SetToSeqs(S) = SetToSeqs(S)
  <1>1. \A S : Board!Cardinality(S) = Cardinality(S)
    BY DEF Board!Cardinality, Cardinality
  <1>. QED  BY <1>1 DEF Board!SetToSeqs, SetToSeqs

\* Broadcasts and their receivers, one by one.
LEMMA Receivers ==
  ASSUME NEW s \in Seq(Broadcasts)
  PROVE  /\ receivers(s) \in Seq(Node) /\ Len(receivers(s)) = Len(s) /\ Len(s) \in Nat
         /\ s # <<>> => /\ receivers(s) # <<>> /\ Head(s) = ListBroadcast(Head(receivers(s)))
                        /\ Head(receivers(s)) \in Node
                        /\ receivers(Tail(s)) = Tail(receivers(s))
  <1>1. Len(s) \in Nat /\ DOMAIN s = 1..Len(s) /\ s \in [1..Len(s) -> Broadcasts]
    BY LenProperties
  <1>2. \A j \in Broadcasts : j.receiver \in Node /\ j = ListBroadcast(j.receiver)
    BY DEF Broadcasts, ListBroadcast
  <1>3. receivers(s) \in [1..Len(s) -> Node]
    BY <1>1, <1>2 DEF receivers
  <1>4. receivers(s) \in Seq(Node) /\ Len(receivers(s)) = Len(s)
    BY <1>1, <1>3
  <1>5. ASSUME s # <<>>
        PROVE  /\ receivers(s) # <<>> /\ Head(s) = ListBroadcast(Head(receivers(s)))
               /\ Head(receivers(s)) \in Node /\ receivers(Tail(s)) = Tail(receivers(s))
    <2>1. Len(s) # 0 /\ Head(s) = s[1] /\ 1 \in 1..Len(s)
      BY <1>1, <1>5, EmptySeq
    <2>2. receivers(s) # <<>> /\ Head(receivers(s)) = receivers(s)[1]
      BY <1>1, <1>4, <2>1, EmptySeq
    <2>3. receivers(s)[1] = s[1].receiver /\ s[1] \in Broadcasts
      BY <1>1, <2>1 DEF receivers
    <2>4. /\ Tail(s) \in Seq(Broadcasts) /\ Len(Tail(s)) = Len(s) - 1
          /\ \A k \in 1..Len(Tail(s)) : Tail(s)[k] = s[k + 1]
      BY <1>5, HeadTailProperties
    <2>5. /\ Tail(receivers(s)) \in Seq(Node) /\ Len(Tail(receivers(s))) = Len(s) - 1
          /\ \A k \in 1..Len(Tail(receivers(s))) : Tail(receivers(s))[k] = receivers(s)[k + 1]
      BY <1>4, <2>2, HeadTailProperties
    <2>6. DOMAIN Tail(s) = 1..Len(s) - 1 /\ DOMAIN Tail(receivers(s)) = 1..Len(s) - 1
          /\ Tail(receivers(s)) \in [1..Len(s) - 1 -> Node]
      BY <2>4, <2>5, LenProperties
    <2>7. \A k \in 1..Len(s) - 1 : receivers(s)[k + 1] = s[k + 1].receiver
      BY <1>1, <2>1 DEF receivers
    <2>8. receivers(Tail(s)) = [k \in 1..Len(s) - 1 |-> Tail(s)[k].receiver]
      BY <2>6 DEF receivers
    <2>9. receivers(Tail(s)) = Tail(receivers(s))
      BY <2>4, <2>5, <2>6, <2>7, <2>8
    <2>. QED  BY <1>2, <2>1, <2>2, <2>3, <2>9
  <1>. QED  BY <1>1, <1>4, <1>5

LEMMA PlannedChange ==
  ASSUME NEW n \in Node, NEW S, receivers(broadcast_rcv'[n]) = S,
         \A q \in Node \ {n} : broadcast_rcv'[q] = broadcast_rcv[q]
  PROVE  Planned' = [Planned EXCEPT ![n] = S]
  BY DEF Planned, receivers

LEMMA PublishBroadcastBoard ==
  ASSUME BoardInv, NEW n \in Node, PublishBroadcast(n)
  PROVE  Refines
  <1>. DEFINE s == broadcast_rcv[n]
  <1>1. /\ Running(n) /\ s # <<>> /\ publish(n, Head(s))
        /\ broadcast_rcv' = [broadcast_rcv EXCEPT ![n] = Tail(@)]
        /\ UNCHANGED <<status, responders, response_rcv, heard>>
    BY DEF PublishBroadcast
  <1>2. s \in Seq(Broadcasts) /\ broadcast_rcv \in [Node -> Seq(Json)]
    BY DEF BoardInv, IndInv, TypeOK, AllOwed
  <1>3. broadcast_rcv'[n] = Tail(s) /\ \A q \in Node \ {n} : broadcast_rcv'[q] = broadcast_rcv[q]
    BY <1>1, <1>2
  <1>. DEFINE p == Head(receivers(s))
  <1>4. /\ receivers(s) # <<>> /\ Head(s) = ListBroadcast(p) /\ p \in Node
        /\ receivers(Tail(s)) = Tail(receivers(s))
    BY <1>1, <1>2, Receivers
  <1>5. Planned' = [Planned EXCEPT ![n] = Tail(@)]
    BY <1>3, <1>4, PlannedChange DEF Planned
  <1>6. Planned[n] = receivers(s)
    BY DEF Planned
  <1>. HIDE DEF s, p
  <1>7. Board!PutUp(n, Board!Note(n, "broadcast", p, 0))
    <2>1. Head(s) \in Broadcasts
      BY <1>4 DEF Broadcasts
    <2>2. Board!PutUp(n, note([source |-> n, json |-> ListBroadcast(p)]))
      BY <1>1, <1>4, <2>1, PublishNote DEF BoardInv
    <2>. QED  BY <1>4, <2>2, NoteOf
  <1>8. Owes' = Owes
    BY <1>1 DEF Owes, owed
  <1>9. Board!Write(n)
    BY <1>1, <1>4, <1>5, <1>6, <1>7, <1>8
       DEF Board!Write, Planned, receivers, Running, Owes, p
  <1>. QED  BY <1>9 DEF Refines, Board!BNext

\* "b r" plans one broadcast for each of the nodes found, and for no others.
LEMMA PlanBoard ==
  ASSUME BoardInv, NEW n \in Node, handle_broadcast_recipe(n)
  PROVE  Refines
  <1>. DEFINE F == peers(discovered[n])
              b == broadcast_rcv[n]
  <1>1. PICK s \in SetToSeqs(F) :
          broadcast_rcv' = [broadcast_rcv EXCEPT ![n] =
                              @ \o [i \in DOMAIN s |-> ListBroadcast(s[i])]]
    BY DEF handle_broadcast_recipe
  <1>2. /\ n \in Local /\ Running(n)
        /\ UNCHANGED <<status, posts, received, responders, response_rcv, heard>>
    BY DEF handle_broadcast_recipe, Typed, library
  <1>3. F \subseteq Local \ {n}
    <2>1. \A r \in discovered[n] : r \in Record /\ r.at = n
      BY DEF BoardInv, Joined, IndInv, TypeOK
    <2>. QED  BY <2>1, LocalAssumption DEF peers
  <1>4. F \subseteq Node /\ IsFiniteSet(F)
    BY <1>3, LocalAssumption, NodeAssumption, FS_Subset
  <1>. DEFINE k == Cardinality(F)
              c == [i \in DOMAIN s |-> ListBroadcast(s[i])]
  <1>5. k \in Nat /\ s \in [1..k -> F] /\ DOMAIN s = 1..k
    BY <1>1, <1>4, FS_CardinalityType DEF SetToSeqs
  <1>. HIDE DEF F, k
  <1>6. s \in Seq(Node) /\ Len(s) = k
    BY <1>4, <1>5
  <1>7. c \in Seq(Broadcasts) /\ Len(c) = k /\ \A i \in 1..k : c[i].receiver = s[i]
    <2>1. \A i \in 1..k : s[i] \in Node
      BY <1>4, <1>5
    <2>2. c \in [1..k -> Broadcasts]
      BY <1>5, <2>1 DEF Broadcasts
    <2>. QED  BY <1>5, <2>2 DEF ListBroadcast
  <1>8. b \in Seq(Broadcasts) /\ broadcast_rcv \in [Node -> Seq(Json)]
    BY DEF BoardInv, IndInv, TypeOK, AllOwed
  <1>9. broadcast_rcv'[n] = b \o c /\ \A q \in Node \ {n} : broadcast_rcv'[q] = broadcast_rcv[q]
    BY <1>1, <1>8
  <1>. HIDE DEF b, c
  <1>10. receivers(b \o c) = receivers(b) \o s
    <2>1. /\ b \o c \in Seq(Broadcasts) /\ Len(b \o c) = Len(b) + k
          /\ \A i \in 1..Len(b) + k : (b \o c)[i] = IF i <= Len(b) THEN b[i] ELSE c[i - Len(b)]
      BY <1>7, <1>8, ConcatProperties
    <2>2. receivers(b) \in Seq(Node) /\ Len(receivers(b)) = Len(b) /\ Len(b) \in Nat
      BY <1>8, Receivers
    <2>3. /\ receivers(b) \o s \in Seq(Node) /\ Len(receivers(b) \o s) = Len(b) + k
          /\ \A i \in 1..Len(b) + k :
               (receivers(b) \o s)[i] = IF i <= Len(b) THEN receivers(b)[i] ELSE s[i - Len(b)]
      <3>1. /\ receivers(b) \o s \in Seq(Node)
            /\ Len(receivers(b) \o s) = Len(receivers(b)) + Len(s)
            /\ \A i \in 1..Len(receivers(b)) + Len(s) : (receivers(b) \o s)[i] =
                 IF i <= Len(receivers(b)) THEN receivers(b)[i] ELSE s[i - Len(receivers(b))]
        BY <1>6, <2>2, ConcatProperties
      <3>. QED  BY <1>6, <2>2, <3>1
    <2>4. receivers(b) \o s \in [1..Len(b) + k -> Node] /\ DOMAIN (b \o c) = 1..Len(b) + k
          /\ DOMAIN b = 1..Len(b)
      BY <1>8, <2>1, <2>3, LenProperties
    <2>5. \A i \in 1..Len(b) + k : (b \o c)[i].receiver = (receivers(b) \o s)[i]
      <3>1. \A i \in 1..Len(b) : receivers(b)[i] = b[i].receiver
        BY <2>4 DEF receivers
      <3>2. \A i \in 1..Len(b) + k : /\ i <= Len(b) => i \in 1..Len(b)
                                     /\ ~ i <= Len(b) => i - Len(b) \in 1..k
        BY <1>5, <2>2
      <3>. QED  BY <1>7, <2>1, <2>3, <3>1, <3>2
    <2>6. receivers(b \o c) = [i \in 1..Len(b) + k |-> (b \o c)[i].receiver]
      BY <2>4 DEF receivers
    <2>. QED  BY <2>4, <2>5, <2>6
  <1>11. Planned' = [Planned EXCEPT ![n] = @ \o s]
    <2>1. receivers(broadcast_rcv'[n]) = Planned[n] \o s
      BY <1>9, <1>10 DEF Planned, b
    <2>. QED  BY <1>9, <2>1, PlannedChange
  <1>12. s \in Board!SetToSeqs(F) /\ F \in SUBSET (Local \ {n})
    BY <1>1, <1>3, SameSequences DEF F
  <1>13. Board!Plan(n)
    <2>1. n \in Living \cap Local
      BY <1>2 DEF Living
    <2>2. UNCHANGED <<Living, Notes, received, Owes, heard>>
      BY <1>2 DEF Living, Running, Notes, note, Owes, owed
    <2>. QED  BY <1>11, <1>12, <2>1, <2>2
              DEF Board!Plan, Planned, receivers, Living, Notes, Owes
  <1>. QED  BY <1>13 DEF Refines, Board!BNext

LEMMA CommandBoard ==
  ASSUME BoardInv, NEW n \in Node, Command(n)
  PROVE  Refines
  <1>1. CASE handle_list_recipes(n)
    <2>1. PICK m \in {"All"} \cup Named : publish(n, ListRequest(m))
      BY <1>1 DEF handle_list_recipes
    <2>2. m \in Node \cup {"All"} /\ ListRequest(m) \in Requests
      BY LocalAssumption DEF Requests
    <2>3. Running(n) /\ UNCHANGED <<status, loop>>
      BY <1>1 DEF handle_list_recipes, Typed
    <2>4. Board!PutUp(n, Board!Note(n, "request", m, 0))
      <3>1. Board!PutUp(n, note([source |-> n, json |-> ListRequest(m)]))
        BY <2>1, <2>2, <2>3, PublishNote DEF BoardInv
      <3>. QED  BY <2>2, <3>1, NoteOf
    <2>5. Board!Ask(n, m)
      BY <2>3, <2>4 DEF Board!Ask, Running, loop, owed
    <2>. QED  BY <2>2, <2>5 DEF Refines, Board!BNext
  <1>2. CASE BroadcastPanic(n)
    <2>1. PICK how \in {"mdns_panic", "read_panic"} : Panic(n, how)
      BY <1>2 DEF BroadcastPanic
    <2>2. status' = [status EXCEPT ![n] = how] /\ UNCHANGED <<posts, received, loop>>
      BY <2>1 DEF Panic, Lose, Break
    <2>3. status \in [Node -> {"running", "mdns_panic", "read_panic"}]
      BY DEF BoardInv, IndInv, TypeOK
    <2>4. n \in Living /\ Living' = Living \ {n}
      BY <1>2, <2>2, <2>3 DEF BroadcastPanic, Typed, Living, Running
    <2>5. Board!End(n)
      BY <2>2, <2>4 DEF Board!End, Living, loop, note, owed
    <2>. QED  BY <2>5 DEF Refines, Board!BNext
  <1>. QED  BY <1>1, <1>2, PlanBoard DEF Command

LEMMA StepBoard == BoardInv /\ [Next]_vars => Refines
  <1>. SUFFICES ASSUME BoardInv, [Next]_vars PROVE Refines
    OBVIOUS
  <1>1. ASSUME NEW m \in wire, Receive(m) \/ Subscribed(m) PROVE Refines
    BY <1>1, ReceiveBoard, BoardUnseen DEF Subscribed
  <1>2. ASSUME NEW p \in Node, NEW q \in Node, Connect(p, q) \/ Disconnect(p, q)
        PROVE  Refines
    BY <1>2, BoardUnseen DEF Connect, Disconnect, Lose, Break
  <1>3. ASSUME NEW n \in Node, Mdns(n) PROVE Refines
    BY <1>3, BoardUnseen DEF Mdns, Discovered, Expired, library
  <1>4. ASSUME NEW n \in Node, Command(n) PROVE Refines
    BY <1>4, CommandBoard
  <1>5. ASSUME NEW n \in Node, Turn(n) PROVE Refines
    BY <1>5, RespondBoard, PublishResponseBoard, PublishBroadcastBoard DEF Turn
  <1>6. CASE UNCHANGED vars
    BY <1>6, BoardUnseen DEF vars, library
  <1>. QED  BY <1>1, <1>2, <1>3, <1>4, <1>5, <1>6 DEF Next, Network

LEMMA InitBoard == Init => Board!BInit
  <1>. SUFFICES ASSUME Init PROVE Board!BInit
    OBVIOUS
  <1>1. /\ \A n \in Node : status[n] = "running" /\ responders[n] = {}
        /\ \A n \in Node : response_rcv[n] = <<>> /\ broadcast_rcv[n] = <<>>
        /\ posts = <<>>
    BY DEF Init
  <1>2. DOMAIN <<>> = {} /\ \A f : [i \in {} |-> f[i]] = <<>>
    OBVIOUS
  <1>3. [i \in DOMAIN posts |-> note(posts[i])] = <<>>
    BY <1>1, <1>2
  <1>4. \A n \in Node : owed(n) = {}
    BY <1>1, <1>2 DEF owed
  <1>5. \A n \in Node : [i \in DOMAIN broadcast_rcv[n] |-> broadcast_rcv[n][i].receiver] = <<>>
    BY <1>1, <1>2
  <1>. QED  BY <1>1, <1>3, <1>4, <1>5 DEF Board!BInit, Init, Running

\* All of it, mDNS with its partial views, floods that overlap, tasks, channels
\* and failures (handler.rs 637-669, main.rs 165-251, handlers.rs), is one board
\* of notes, each read at most once, and each question answered at most once.
THEOREM ExchangeRefinesBoard == Spec => RefinesBoard
  <1>1. Init => BoardInv /\ Board!BInit
    BY InitOnce, InitIndInv, JoinedInit, InitBoard DEF BoardInv
  <1>2. BoardInv /\ [Next]_vars => BoardInv' /\ [Board!BNext]_(Board!bvars)
    BY Inductive, OnceInductive, JoinedStep, StepBoard DEF BoardInv, Refines
  <1>. QED  BY <1>1, <1>2, PTL DEF Spec, RefinesBoard, Board!BSpec
=============================================================================
