---------------------------- MODULE RecipeStore ----------------------------
(***************************************************************************)
(* The recipe store of one node (src/bin/handlers.rs, utils.rs), from its  *)
(* identity's first start (constants.rs) to its exits, crashes and         *)
(* restarts.  The main task reads, changes and rewrites                    *)
(* data/<id>/recipes.json for every command; rewriting truncates the file  *)
(* and then fills it.  A request for the public recipes spawns a task that *)
(* reads the file whenever the scheduler lets it, and sends the answer to  *)
(* the main task, which publishes it between two commands.  An operation   *)
(* on a file is one step; a kill may come before any of them.              *)
(***************************************************************************)
EXTENDS Integers, FiniteSetsExt, Bags, Sequences

CONSTANTS
  Peer,         \* the nodes that send requests
  Local,        \* the nodes mDNS has discovered: receivers of "b r"
  Name,         \* the texts of new recipes
  DefaultNames, \* the texts of DEFAULT_RECIPES
  MaxStarts,    \* BOUND: starts of the program
  MaxCommands,  \* BOUND: commands typed
  MaxRequests   \* BOUND: requests received

User == 0
Anonymous == 1..MaxStarts      \* every start with -n has an identity of its own
Id == {User} \cup Anonymous
Recipe == [id : Nat, name : Name, public : BOOLEAN]

\* Numbered from 0, and all public.
Defaults == {[id |-> i - 1, name |-> DefaultNames[i], public |-> TRUE]
               : i \in DOMAIN DefaultNames}

ASSUME DefaultsAssumption == DefaultNames \in Seq(Name)
ASSUME RecipeBoundAssumption ==
  MaxStarts \in Nat /\ MaxCommands \in Nat /\ MaxRequests \in Nat

VARIABLES
  pc,          \* where the main task is, or how the process ended
  id,          \* the identity of the running process
  cred,        \* data/usercredentials
  disk,        \* disk[i]: data/<i>/recipes.json
  flushing,    \* the default recipes' write_all, on the blocking pool
  local_recipes, \* a command's recipes, read and changed
  receivers,   \* the nodes a "b r" has not reached yet
  responders,  \* a bag: the tasks spawned by respond_with_public_recipes
  response_rcv, broadcast_rcv,   \* the channels to the main task
  published,   \* a bag: what went out on the topic
  starts, commands, requests     \* the bounded counters

file == <<id, disk, cred, flushing>>
channels == <<responders, response_rcv, broadcast_rcv, published>>
counters == <<starts, commands, requests>>
vars == <<pc, id, cred, disk, flushing, local_recipes, receivers, responders,
          response_rcv, broadcast_rcv, published, starts, commands, requests>>

Down == {"down", "stopped", "key_panic", "broadcast_panic"}
Main == {"new_key", "defaults", "idle", "write", "truncated", "broadcast", "exit"}

Absent == [st |-> "absent", recipes |-> {}]
\* Empty, or cut short: no JSON.
Torn == [st |-> "torn", recipes |-> {}]
Whole(R) == [st |-> "whole", recipes |-> R]

public(R) == {r \in R : r.public}
Message(p, R) == [to |-> p, data |-> public(R)]

Init ==
  /\ pc = "down" /\ id = User
  /\ cred = "absent" /\ disk = [i \in Id |-> Absent]
  /\ flushing = FALSE
  /\ local_recipes = {} /\ receivers = {}
  /\ responders = EmptyBag /\ response_rcv = <<>> /\ broadcast_rcv = <<>>
  /\ published = EmptyBag
  /\ starts = 0 /\ commands = 0 /\ requests = 0

-----------------------------------------------------------------------------
(* Starts *)

Start(why) ==
  /\ pc \in Down /\ starts < MaxStarts
  /\ starts' = starts + 1
  /\ pc' = why
  /\ UNCHANGED <<disk, flushing, local_recipes, receivers, commands, requests>>
  /\ UNCHANGED channels

StartAnonymous ==
  /\ Start("defaults")
  /\ id' = starts + 1
  /\ UNCHANGED cred

StartKnown_defaults ==
  /\ cred # "absent"
  /\ Start(IF cred = "key" THEN "defaults" ELSE "key_panic")
  /\ id' = User
  /\ UNCHANGED cred
\* The key is read back; from_bytes unwraps.
StartKnown ==
  /\ cred # "absent"
  /\ Start(IF cred = "key" THEN "idle" ELSE "key_panic")
  /\ id' = User
  /\ UNCHANGED cred

\* File::create, before write_all.
StartNew ==
  /\ cred = "absent"
  /\ Start("new_key")
  /\ id' = User
  /\ cred' = "torn"

SaveKey ==
  /\ pc = "new_key"
  /\ cred' = "key"
  /\ pc' = "defaults"
  /\ UNCHANGED <<id, disk, flushing, local_recipes, receivers>>
  /\ UNCHANGED channels /\ UNCHANGED counters

\* create_default_recipes opens the file (no truncation) and hands its content to
\* the blocking pool: write_all of a tokio File does not wait for the write.
CreateDefaultRecipes ==
  /\ pc = "defaults"
  /\ disk' = [disk EXCEPT ![id] = IF @ = Absent THEN Torn ELSE @]
  /\ flushing' = TRUE
  /\ pc' = "idle"
  /\ UNCHANGED <<id, cred, local_recipes, receivers>>
  /\ UNCHANGED channels /\ UNCHANGED counters

Flush ==
  /\ flushing
  /\ flushing' = FALSE
  /\ disk' = [disk EXCEPT ![id] = IF @ = Absent THEN @ ELSE Whole(Defaults)]
  /\ UNCHANGED <<pc, id, cred, local_recipes, receivers>>
  /\ UNCHANGED channels /\ UNCHANGED counters

-----------------------------------------------------------------------------
(* Commands: read, change, truncate, write *)

new_id_empty(R) == IF R = {} THEN -1 ELSE Max({r.id : r \in R}) + 1
new_id_same(R) == IF R = {} THEN 0 ELSE Max({r.id : r \in R})
new_id(R) == IF R = {} THEN 0 ELSE Max({r.id : r \in R}) + 1

create_new_recipe(R, nm) ==
  R \cup {[id |-> new_id(R), name |-> nm, public |-> FALSE]}
delete_recipe(R, i) == {r \in R : r.id # i}
publish_recipe(R, i) ==
  {IF r.id = i THEN [r EXCEPT !.public = TRUE] ELSE r : r \in R}

\* read_local_recipes: the whole file, or an error.
Readable == disk[id].st = "whole"

Typed ==
  /\ pc = "idle" /\ commands < MaxCommands
  /\ commands' = commands + 1
  /\ UNCHANGED <<receivers, starts, requests>>
  /\ UNCHANGED file /\ UNCHANGED channels

\* A command that cannot read the store logs the error.
Command(R) ==
  /\ Typed
  /\ IF Readable THEN pc' = "write" /\ local_recipes' = R
                 ELSE UNCHANGED <<pc, local_recipes>>

CreateRecipe(nm) == Command(create_new_recipe(disk[id].recipes, nm))
DeleteRecipe(i) == Command(delete_recipe(disk[id].recipes, i))
PublishRecipe(i) == Command(publish_recipe(disk[id].recipes, i))

\* write_local_recipes: fs::write truncates the file and fills it.
Truncate ==
  /\ pc = "write"
  /\ disk' = [disk EXCEPT ![id] = Torn]
  /\ pc' = "truncated"
  /\ UNCHANGED <<id, cred, flushing, local_recipes, receivers>>
  /\ UNCHANGED channels /\ UNCHANGED counters

Write ==
  /\ pc = "truncated"
  /\ disk' = [disk EXCEPT ![id] = Whole(local_recipes)]
  /\ local_recipes' = {}
  /\ pc' = "idle"
  /\ UNCHANGED <<id, cred, flushing, receivers>>
  /\ UNCHANGED channels /\ UNCHANGED counters

-----------------------------------------------------------------------------
(* Requests, answers, broadcasts *)

\* A ListRequest from p to the identities in mode: ListMode::All, or One of them.
\* Only a request for this node spawns a responder.
Request(p, mode) ==
  /\ pc = "idle" /\ requests < MaxRequests
  /\ requests' = requests + 1
  /\ responders' = IF id \in mode THEN responders (+) SetToBag({p})
                                           ELSE responders
  /\ UNCHANGED <<pc, local_recipes, receivers, starts, commands>>
  /\ UNCHANGED <<response_rcv, broadcast_rcv, published>> /\ UNCHANGED file

respond_torn(p) ==
  /\ BagIn(p, responders)
  /\ responders' = responders (-) SetToBag({p})
  /\ response_rcv' = Append(response_rcv, Message(p, disk[id].recipes))
  /\ UNCHANGED <<pc, local_recipes, receivers, broadcast_rcv, published>>
  /\ UNCHANGED file /\ UNCHANGED counters
\* A spawned responder reads the file: an answer, or a logged error.
respond(p) ==
  /\ BagIn(p, responders)
  /\ responders' = responders (-) SetToBag({p})
  /\ response_rcv' = IF Readable
                     THEN Append(response_rcv, Message(p, disk[id].recipes))
                     ELSE response_rcv
  /\ UNCHANGED <<pc, local_recipes, receivers, broadcast_rcv, published>>
  /\ UNCHANGED file /\ UNCHANGED counters

\* The loop's branches for the two channels.
PublishResponse ==
  /\ pc = "idle" /\ response_rcv # <<>>
  /\ published' = published (+) SetToBag({Head(response_rcv)})
  /\ response_rcv' = Tail(response_rcv)
  /\ UNCHANGED <<pc, local_recipes, receivers, responders, broadcast_rcv>>
  /\ UNCHANGED file /\ UNCHANGED counters

PublishBroadcast_both ==
  /\ pc = "idle" /\ broadcast_rcv # <<>> /\ response_rcv # <<>>
  /\ published' = published (+) SetToBag({Head(broadcast_rcv)})
  /\ broadcast_rcv' = Tail(broadcast_rcv)
  /\ UNCHANGED <<pc, local_recipes, receivers, responders, response_rcv>>
  /\ UNCHANGED file /\ UNCHANGED counters
PublishBroadcast ==
  /\ pc = "idle" /\ broadcast_rcv # <<>>
  /\ published' = published (+) SetToBag({Head(broadcast_rcv)})
  /\ broadcast_rcv' = Tail(broadcast_rcv)
  /\ UNCHANGED <<pc, local_recipes, receivers, responders, response_rcv>>
  /\ UNCHANGED file /\ UNCHANGED counters

\* "b r": one read and one message per discovered node.
BroadcastRecipes ==
  /\ pc = "idle" /\ commands < MaxCommands
  /\ commands' = commands + 1
  /\ pc' = "broadcast"
  /\ receivers' = Local
  /\ UNCHANGED <<local_recipes, starts, requests>>
  /\ UNCHANGED file /\ UNCHANGED channels

broadcast_recipe(p) ==
  /\ pc = "broadcast" /\ p \in receivers
  /\ Readable
  /\ receivers' = receivers \ {p}
  /\ broadcast_rcv' = Append(broadcast_rcv, Message(p, disk[id].recipes))
  /\ UNCHANGED <<pc, local_recipes, responders, response_rcv, published>>
  /\ UNCHANGED file /\ UNCHANGED counters

Broadcasted ==
  /\ pc = "broadcast" /\ receivers = {}
  /\ pc' = "idle"
  /\ UNCHANGED <<local_recipes, receivers>>
  /\ UNCHANGED file /\ UNCHANGED channels /\ UNCHANGED counters

-----------------------------------------------------------------------------
(* Ends *)

End(why) ==
  /\ pc' = why
  /\ flushing' = FALSE
  /\ local_recipes' = {} /\ receivers' = {}
  /\ responders' = EmptyBag /\ response_rcv' = <<>> /\ broadcast_rcv' = <<>>
  /\ UNCHANGED <<cred, published>> /\ UNCHANGED counters

\* "z"; then the directory of an anonymous user goes, files and all.
Exit ==
  /\ pc = "idle" /\ pc' = "exit"
  /\ UNCHANGED <<local_recipes, receivers>>
  /\ UNCHANGED file /\ UNCHANGED channels /\ UNCHANGED counters

RemoveData ==
  /\ pc = "exit" /\ id # User /\ disk[id] # Absent
  /\ disk' = [disk EXCEPT ![id] = Absent]
  /\ UNCHANGED <<pc, id, cred, flushing, local_recipes, receivers>>
  /\ UNCHANGED channels /\ UNCHANGED counters

Exited ==
  /\ pc = "exit" /\ (id # User => disk[id] = Absent)
  /\ End("stopped")
  /\ UNCHANGED <<id, disk>>

\* A kill, or a panic anywhere in the process' main task ("delete r x").
Crash ==
  /\ pc \in Main
  /\ End("down")
  /\ UNCHANGED <<id, disk>>

\* broadcast_recipe's error meets an expect.
BroadcastPanic ==
  /\ pc = "broadcast" /\ receivers # {}
  /\ ~ Readable
  /\ End("broadcast_panic")
  /\ UNCHANGED <<id, disk>>

-----------------------------------------------------------------------------
MainTask ==
  \/ SaveKey \/ CreateDefaultRecipes \/ Truncate \/ Write
  \/ (\E p \in Local : broadcast_recipe(p)) \/ Broadcasted \/ BroadcastPanic
  \/ PublishResponse \/ PublishBroadcast
  \/ RemoveData \/ Exited

Operator ==
  \/ StartAnonymous \/ StartKnown \/ StartNew \/ Exit \/ BroadcastRecipes
  \/ \E nm \in Name : CreateRecipe(nm)
  \/ \E i \in 0..new_id(disk[id].recipes) : DeleteRecipe(i) \/ PublishRecipe(i)

Next ==
  \/ MainTask \/ Operator \/ Flush \/ Crash
  \/ \E p \in Peer : respond(p) \/ \E mode \in {Id, {id}, Id \ {id}} : Request(p, mode)

Spec == Init /\ [][Next]_vars

-----------------------------------------------------------------------------
(* Properties *)

File == [st : {"absent", "torn", "whole"}, recipes : SUBSET Recipe]
Answer == [to : Peer \cup Local, data : SUBSET Recipe]

\* The shape of the state; only a whole file has recipes to read.
TypeOK ==
  /\ pc \in Main \cup Down /\ id \in Id
  /\ cred \in {"absent", "torn", "key"}
  /\ disk \in [Id -> File]
  /\ \A i \in Id : disk[i].st # "whole" => disk[i].recipes = {}
  /\ flushing \in BOOLEAN
  /\ local_recipes \subseteq Recipe /\ receivers \subseteq Local
  /\ IsABag(responders) /\ BagToSet(responders) \subseteq Peer
  /\ response_rcv \in Seq(Answer) /\ broadcast_rcv \in Seq(Answer)
  /\ IsABag(published) /\ BagToSet(published) \subseteq Answer
  /\ starts \in 0..MaxStarts /\ commands \in 0..MaxCommands
  /\ requests \in 0..MaxRequests

Unique(R) == \A r, q \in R : r.id = q.id => r = q

\* No two recipes share an id, in a store, in a command's copy or in an answer,
\* over any sequence of creates and deletes (deleting the highest id frees it
\* for the next create) and any crash: delete and publish by id mean one recipe.
UniqueIds ==
  /\ \A i \in Id : Unique(disk[i].recipes)
  /\ Unique(local_recipes)
  /\ \A m \in BagToSet(published) : Unique(m.data)

\* A whole store is never replaced by a half-written one while the process
\* reads it for a command: the main task is the only writer, and the default
\* recipes are written before the first command that can read.
OneWriter ==
  /\ pc = "write" => disk[id].st = "whole" /\ ~ flushing
  /\ pc = "truncated" => disk[id] = Torn /\ ~ flushing

Queued(q) == [m \in {q[i] : i \in DOMAIN q} |-> Cardinality({i \in DOMAIN q : q[i] = m})]

\* The book a file stands for: from the truncation on that of the command's
\* recipes, as long as there is a task to write them.
BookOf(i) ==
  IF disk[i].st = "whole" THEN disk[i]
  ELSE IF i = id /\ pc = "truncated" THEN Whole(local_recipes)
  ELSE IF disk[i] = Absent \/ (i = id /\ flushing) THEN [st |-> "none", recipes |-> {}]
  ELSE [st |-> "lost", recipes |-> {}]

Promise == INSTANCE RecipeBook WITH
  Peer <- Peer \cup Local,
  book <- [i \in Id |-> BookOf(i)],
  running <- IF pc \in Main THEN {id} ELSE {},
  writing <- pc = "truncated",
  asked <- responders,
  answers <- Queued(response_rcv) (+) Queued(broadcast_rcv) (+) published

\* The store keeps RecipeBook's promise: commands take effect at once and whole,
\* answers are the public part of one state of the book between question and
\* answer, and a crash loses a book only in the middle of a write or before it
\* was first written.
RefinesBook == Promise!BSpec

\* The main task runs on and the blocking pool runs what it is given; the
\* operator need not type anything.
FairSpec ==
  Spec /\ WF_vars(MainTask) /\ WF_vars(Flush) /\ WF_vars(\E p \in Peer : respond(p))

\* Whatever was asked or broadcast leaves the process, or the process ends: the
\* responders end, the channels drain and the main task comes back to its loop.
Drains ==
  []<>(\/ pc \in Down
       \/ /\ pc \in {"idle", "exit"}
          /\ responders = EmptyBag /\ response_rcv = <<>> /\ broadcast_rcv = <<>>)
=============================================================================
