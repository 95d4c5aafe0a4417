----------------------------- MODULE NodesFile -----------------------------
(***************************************************************************)
(* data/nodes: what a node knows at its exit (src/bin/main.rs 354-398) and *)
(* a client reads at its start (408-431).  The processes started in one    *)
(* directory share the file, and nothing locks it.  Text is a sequence of  *)
(* cells, two to a line: the id with its space, and the addresses with the *)
(* line's end.                                                             *)
(***************************************************************************)
EXTENDS Integers, Sequences, SequencesExt

CONSTANTS
  Proc,       \* the processes started in the directory
  Node,       \* the nodes they may know
  Boot,       \* those of the clients' boot node list
  Public,     \* the IPv4 addresses that is_public_ip passes
  Private,    \* all other addresses
  MaxLearned, \* BOUND: entries of a table
  MaxExits,   \* BOUND: exits that save
  MaxCuts     \* BOUND: writes a full disk cuts short

ASSUME NodesAssumption == IsFiniteSet(Node) /\ Boot \subseteq Node
ASSUME AddressAssumption ==
  /\ Public \cap Private = {}
  /\ {"", "other", "none"} \cap (Public \cup Private) = {}
ASSUME FileBoundAssumption ==
  MaxLearned \in Nat /\ MaxExits \in Nat /\ MaxCuts \in Nat

VARIABLES
  exists,   \* is there a file data/nodes?
  file,     \* what it holds
  pc,       \* pc[p]: where p is between its start and its end
  server,   \* server[p]: was p started as a server?
  table,    \* table[p]: Kademlia's table, a set of [peer, addr]
  text,     \* text[p]: what p is about to write
  last,     \* history: the process and table of the last list written, or None
  saving,   \* history: saving[p]: the table whose text p is to write
  lost,     \* history: was a list destroyed by a kill, a full disk or a first start?
  exits, cuts   \* the bounded counters

vars == <<exists, file, pc, server, table, text, last, saving, lost, exits, cuts>>

None == [server |-> FALSE, table |-> {}]
\* What an empty list of addresses reads back as: the empty Multiaddr; and what
\* is left of an address whose end was cut off.
Address == Public \cup Private \cup {"", "other"}
Entry == [peer : Node, addr : Address]
Cell == [part : {"peer"}, peer : Node] \cup [part : {"addrs"}, addrs : SUBSET Public]
        \cup [part : {"torn"}]
Torn == [part |-> "torn"]

Init ==
  /\ exists = FALSE /\ file = <<>>
  /\ pc = [p \in Proc |-> "off"] /\ server = [p \in Proc |-> FALSE]
  /\ table = [p \in Proc |-> {}] /\ text = [p \in Proc |-> <<>>]
  /\ last = None /\ saving = [p \in Proc |-> None] /\ lost = FALSE
  /\ exits = 0 /\ cuts = 0

Goto(p, l) == pc' = [pc EXCEPT ![p] = l]

-----------------------------------------------------------------------------
(* load_nodes_file *)

\* Only a client reads the file; it looks whether there is one first.
Start(p, as_server) ==
  /\ pc[p] \in {"off", "panic"}
  /\ server' = [server EXCEPT ![p] = as_server]
  /\ table' = [table EXCEPT ![p] = {}]
  /\ Goto(p, IF as_server THEN "running" ELSE IF ~ exists THEN "create" ELSE "read")
  /\ UNCHANGED <<exists, file, text, last, saving, lost, exits, cuts>>

\* File::create empties a file that has been written meanwhile.
Create(p) ==
  /\ pc[p] = "create"
  /\ lost' = (lost \/ file # <<>>)
  /\ exists' = TRUE /\ file' = <<>>
  /\ Goto(p, "read")
  /\ UNCHANGED <<server, table, text, last, saving, exits, cuts>>

\* read_line takes the first line, whose parts are parsed and unwrapped: the
\* entries it may yield (Unparsable: none, the start panics).
Unparsable == {[peer |-> "none", addr |-> "none"]}
Entries(n, A) == {[peer |-> n, addr |-> a] : a \in IF A = {} THEN {""} ELSE A}
FirstLine(t) ==
  IF t = <<>> THEN {{}}
  ELSE IF t[1].part # "peer" THEN {Unparsable}
  ELSE IF Len(t) = 1 THEN {Entries(t[1].peer, {})}
  ELSE IF t[2].part = "addrs" THEN {Entries(t[1].peer, t[2].addrs)}
  ELSE IF t[2].part = "torn" THEN {Entries(t[1].peer, {"other"}), Unparsable}
  ELSE {Unparsable}

load_nodes_file(p) ==
  /\ pc[p] = "read"
  /\ \E nodes \in FirstLine(file) :
       IF nodes = Unparsable
       THEN Goto(p, "panic") /\ UNCHANGED table
       ELSE Goto(p, "running") /\ table' = [table EXCEPT ![p] = nodes]
  /\ UNCHANGED <<exists, file, server, text, last, saving, lost, exits, cuts>>

-----------------------------------------------------------------------------
(* A node that runs *)

\* BOUND: MaxLearned.
Learn(p, n, a) ==
  /\ pc[p] = "running" /\ Cardinality(table[p]) < MaxLearned
  /\ table' = [table EXCEPT ![p] = @ \cup {[peer |-> n, addr |-> a]}]
  /\ UNCHANGED <<exists, file, pc, server, text, last, saving, lost, exits, cuts>>

remove_peer(p, n) ==
  /\ pc[p] = "running"
  /\ table' = [table EXCEPT ![p] = {e \in @ : e.peer # n}]
  /\ UNCHANGED <<exists, file, pc, server, text, last, saving, lost, exits, cuts>>

-----------------------------------------------------------------------------
(* The exit *)

peers(T) == {e.peer : e \in T}
get_external_addrs(T, n) == {e.addr : e \in {e \in T : e.peer = n}} \cap Public
get_known_nodes(T, as_server) == peers(T) \ (IF as_server THEN {} ELSE Boot)

\* A line for every node, in the order s of Kademlia's buckets (mutant: no line's
\* end where there is no address).
Text_open(T, s) ==
  LET lines == [i \in 1..(2 * Len(s)) |->
        IF i % 2 = 1 THEN [part |-> "peer", peer |-> s[(i + 1) \div 2]]
        ELSE [part |-> "addrs", addrs |-> get_external_addrs(T, s[i \div 2])]]
  IN SelectSeq(lines, LAMBDA c : c.part = "peer" \/ c.addrs # {})
Text(T, s) ==
  [i \in 1..(2 * Len(s)) |->
    IF i % 2 = 1 THEN [part |-> "peer", peer |-> s[(i + 1) \div 2]]
    ELSE [part |-> "addrs", addrs |-> get_external_addrs(T, s[i \div 2])]]

Leave(p) == server' = [server EXCEPT ![p] = FALSE] /\ table' = [table EXCEPT ![p] = {}]

\* "z": the file is emptied, or created, if there is something to write (mutant:
\* in any case).  BOUND: MaxExits.
Exit_always(p) ==
  /\ pc[p] = "running" /\ exits < MaxExits
  /\ exits' = exits + 1
  /\ \E s \in SetToSeqs(get_known_nodes(table[p], server[p])) :
       text' = [text EXCEPT ![p] = Text(table[p], s)]
  /\ saving' = [saving EXCEPT ![p] = [server |-> server[p], table |-> table[p]]]
  /\ exists' = TRUE /\ file' = <<>> /\ Goto(p, "write")
  /\ Leave(p)
  /\ UNCHANGED <<last, lost, cuts>>
Exit(p) ==
  /\ pc[p] = "running" /\ exits < MaxExits
  /\ exits' = exits + 1
  /\ IF get_known_nodes(table[p], server[p]) = {}
     THEN Goto(p, "off") /\ UNCHANGED <<exists, file, text, saving>>
     ELSE /\ \E s \in SetToSeqs(get_known_nodes(table[p], server[p])) :
               text' = [text EXCEPT ![p] = Text(table[p], s)]
          /\ saving' = [saving EXCEPT ![p] = [server |-> server[p], table |-> table[p]]]
          /\ exists' = TRUE /\ file' = <<>> /\ Goto(p, "write")
  /\ Leave(p)
  /\ UNCHANGED <<last, lost, cuts>>

Done(p) ==
  /\ Goto(p, "off")
  /\ text' = [text EXCEPT ![p] = <<>>] /\ saving' = [saving EXCEPT ![p] = None]

\* The text goes to the beginning of the file; what another process has put there
\* shows where the text is shorter (mutant: the text goes behind that).
Write_append(p) ==
  /\ pc[p] = "write"
  /\ file' = file \o text[p]
  /\ last' = saving[p] /\ Done(p)
  /\ UNCHANGED <<exists, server, table, lost, exits, cuts>>
Write(p) ==
  /\ pc[p] = "write"
  /\ file' = text[p] \/ (file # <<>> /\ file' = text[p] \o <<Torn>>)
  /\ last' = saving[p] /\ Done(p)
  /\ UNCHANGED <<exists, server, table, lost, exits, cuts>>

\* A full disk takes the beginning of the text, and tokio's File, which writes
\* after write_all has returned, tells no one.  BOUND: MaxCuts.
WriteCut(p) ==
  /\ pc[p] = "write" /\ cuts < MaxCuts
  /\ cuts' = cuts + 1
  /\ \E k \in 0..(Len(text[p]) - 1) :
       LET begin == SubSeq(text[p], 1, k) IN
       \/ file' = begin \/ file' = begin \o <<Torn>>
       \/ file' = begin \o SubSeq(file, k + 1, Len(file))
  /\ lost' = TRUE
  /\ Done(p)
  /\ UNCHANGED <<exists, server, table, last, exits>>

\* A kill, or a panic of the main task, which does not save.
Kill(p) ==
  /\ pc[p] \notin {"off", "panic"}
  /\ lost' = (lost \/ pc[p] = "write")
  /\ Leave(p) /\ Done(p)
  /\ UNCHANGED <<exists, file, last, exits, cuts>>

-----------------------------------------------------------------------------
Running(p) ==
  \/ \E n \in Node, a \in Public \cup Private : Learn(p, n, a)
  \/ \E n \in Node : remove_peer(p, n)
Step(p) ==
  \/ \E as_server \in BOOLEAN : Start(p, as_server)
  \/ Create(p) \/ load_nodes_file(p) \/ Running(p)
  \/ Exit(p) \/ Write(p) \/ WriteCut(p) \/ Kill(p)
Next == \E p \in Proc : Step(p)

Spec == Init /\ [][Next]_vars

-----------------------------------------------------------------------------
(* Properties *)

\* The shape of the state; a process at its write has something to write.
TypeOK ==
  /\ exists \in BOOLEAN /\ file \in Seq(Cell)
  /\ pc \in [Proc -> {"off", "create", "read", "running", "write", "panic"}]
  /\ server \in [Proc -> BOOLEAN]
  /\ table \in [Proc -> SUBSET Entry] /\ text \in [Proc -> Seq(Cell)]
  /\ last \in [server : BOOLEAN, table : SUBSET Entry]
  /\ saving \in [Proc -> [server : BOOLEAN, table : SUBSET Entry]]
  /\ lost \in BOOLEAN /\ exits \in 0..MaxExits /\ cuts \in 0..MaxCuts
  /\ \A p \in Proc : (pc[p] = "write") <=> text[p] # <<>>

\* However the exits of several processes overlap, a client that finds nodes at
\* its start finds one node of the last list written, with the public addresses
\* that the writer knew of it, or the empty one; none of its boot nodes if it
\* was a client.  Only a full disk can mix lists up.
LoadsLastList ==
  [][\A p \in Proc : pc[p] = "read" /\ pc'[p] = "running" /\ cuts = 0 =>
       \/ table'[p] = {}
       \/ \E n \in peers(last.table) :
            /\ ~ last.server => n \notin Boot
            /\ table'[p] = Entries(n, {a \in Public : [peer |-> n, addr |-> a] \in last.table})]_vars

\* A list once written is there for the next start, also if a later exit knew of
\* no one, unless a process is about to write another or one was killed then, a
\* full disk cut it, or the first client's start emptied it.
ListStays ==
  last # None /\ (\A p \in Proc : pc[p] # "write") /\ ~ lost => file # <<>>

\* The unwraps of load_nodes_file never meet a line that does not parse, but for
\* a full disk.
StartParses == (\E p \in Proc : pc[p] = "panic") => cuts > 0
=============================================================================
