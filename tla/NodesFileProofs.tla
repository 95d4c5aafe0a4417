-------------------------- MODULE NodesFileProofs --------------------------
(***************************************************************************)
(* What TLAPS proves of NodesFile for any processes, nodes and bounds: all *)
(* of its properties.  Until a disk is full, the first line of the file is *)
(* the first line of the last list written, whatever was under it.         *)
(***************************************************************************)
EXTENDS NodesFile, SequenceTheorems, FiniteSetTheorems, TLAPS

List == [server : BOOLEAN, table : SUBSET Entry]

\* The first line of t is about a node that the list k names.
FirstOf(t, k) ==
  /\ Len(t) >= 2 /\ t[1].part = "peer" /\ t[2].part = "addrs"
  /\ t[1].peer \in get_known_nodes(k.table, k.server)
  /\ t[2].addrs = get_external_addrs(k.table, t[1].peer)

TextsOK == \A p \in Proc : pc[p] = "write" => FirstOf(text[p], saving[p])
FileOK == cuts = 0 /\ file # <<>> => FirstOf(file, last)

IndInv == TypeOK /\ TextsOK /\ FileOK /\ ListStays /\ StartParses

-----------------------------------------------------------------------------
(* Texts *)

LEMMA KnownNodes ==
  ASSUME NEW T \in SUBSET Entry, NEW sv \in BOOLEAN
  PROVE  /\ get_known_nodes(T, sv) \subseteq Node
         /\ IsFiniteSet(get_known_nodes(T, sv))
  <1>1. get_known_nodes(T, sv) \subseteq Node
    BY DEF get_known_nodes, peers, Entry
  <1>. QED  BY <1>1, NodesAssumption, FS_Subset

\* Every text is a sequence of cells and begins with the line of a known node.
LEMMA Texts ==
  ASSUME NEW T \in SUBSET Entry, NEW sv \in BOOLEAN, get_known_nodes(T, sv) # {},
         NEW s \in SetToSeqs(get_known_nodes(T, sv))
  PROVE  /\ Text(T, s) \in Seq(Cell) /\ Text(T, s) # <<>>
         /\ FirstOf(Text(T, s), [server |-> sv, table |-> T])
  <1>. DEFINE S == get_known_nodes(T, sv)
              n == Cardinality(S)
              t == Text(T, s)
  <1>1. S \subseteq Node /\ IsFiniteSet(S) /\ n \in Nat /\ n # 0
    BY KnownNodes, FS_CardinalityType, FS_EmptySet
  <1>2. s \in [1..n -> S]
    BY DEF SetToSeqs
  <1>. HIDE DEF S, n
  <1>3. s \in Seq(S) /\ Len(s) = n
    BY <1>1, <1>2, SeqDef, LenProperties
  <1>4. ASSUME NEW i \in 1..(2 * n)
        PROVE  t[i] = IF i % 2 = 1 THEN [part |-> "peer", peer |-> s[(i + 1) \div 2]]
                      ELSE [part |-> "addrs", addrs |-> get_external_addrs(T, s[i \div 2])]
    BY <1>3 DEF Text
  <1>5. ASSUME NEW i \in 1..(2 * n) PROVE t[i] \in Cell
    <2>1. CASE i % 2 = 1
      <3>1. (i + 1) \div 2 \in 1..n
        BY <1>1, <2>1
      <3>2. s[(i + 1) \div 2] \in Node
        BY <1>1, <1>2, <3>1
      <3>3. t[i] = [part |-> "peer", peer |-> s[(i + 1) \div 2]]
        BY <1>4, <2>1
      <3>. QED  BY <3>2, <3>3 DEF Cell
    <2>2. CASE i % 2 # 1
      <3>1. t[i] = [part |-> "addrs", addrs |-> get_external_addrs(T, s[i \div 2])]
        BY <1>4, <2>2
      <3>2. get_external_addrs(T, s[i \div 2]) \in SUBSET Public
        BY DEF get_external_addrs
      <3>. QED  BY <3>1, <3>2 DEF Cell
    <2>. QED  BY <2>1, <2>2
  <1>6. 2 * n \in Nat /\ 2 * n >= 2 /\ 1 \in 1..(2 * n) /\ 2 \in 1..(2 * n) /\ 1 \in 1..n
        /\ 1 % 2 = 1 /\ 2 % 2 = 0 /\ (1 + 1) \div 2 = 1 /\ 2 \div 2 = 1
    BY <1>1
  <1>7. t \in [1..(2 * n) -> Cell]
    <2>1. t = [i \in 1..(2 * n) |-> t[i]]
      BY <1>3 DEF Text
    <2>. QED  BY <1>5, <2>1
  <1>8. t \in Seq(Cell) /\ Len(t) = 2 * n
    BY <1>6, <1>7, SeqDef, LenProperties
  <1>9. t[1] = [part |-> "peer", peer |-> s[1]]
        /\ t[2] = [part |-> "addrs", addrs |-> get_external_addrs(T, s[1])]
    <2>. HIDE DEF t
    <2>1. t[1] = IF 1 % 2 = 1 THEN [part |-> "peer", peer |-> s[(1 + 1) \div 2]]
                 ELSE [part |-> "addrs", addrs |-> get_external_addrs(T, s[1 \div 2])]
      BY <1>4, <1>6
    <2>2. t[2] = IF 2 % 2 = 1 THEN [part |-> "peer", peer |-> s[(2 + 1) \div 2]]
                 ELSE [part |-> "addrs", addrs |-> get_external_addrs(T, s[2 \div 2])]
      BY <1>4, <1>6
    <2>. QED  BY <1>6, <2>1, <2>2
  <1>10. s[1] \in S
    BY <1>2, <1>6
  <1>11. t # <<>>
    BY <1>6, <1>8
  <1>12. FirstOf(t, [server |-> sv, table |-> T])
    BY <1>6, <1>8, <1>9, <1>10 DEF FirstOf, S
  <1>. QED  BY <1>8, <1>11, <1>12

\* What follows a text does not change its first line.
LEMMA Overlaid ==
  ASSUME NEW t \in Seq(Cell), NEW u \in Seq(Cell), NEW k, FirstOf(t, k)
  PROVE  t \o u \in Seq(Cell) /\ FirstOf(t \o u, k)
  <1>1. /\ t \o u \in Seq(Cell) /\ Len(t \o u) = Len(t) + Len(u)
        /\ Len(t) \in Nat /\ Len(u) \in Nat /\ Len(t) >= 2
        /\ \A i \in 1..Len(t) : (t \o u)[i] = t[i]
    BY ConcatProperties, LenProperties DEF FirstOf
  <1>2. Len(t \o u) >= 2 /\ 1 \in 1..Len(t) /\ 2 \in 1..Len(t)
    BY <1>1
  <1>3. (t \o u)[1] = t[1] /\ (t \o u)[2] = t[2]
    BY <1>1, <1>2
  <1>. QED  BY <1>1, <1>2, <1>3 DEF FirstOf

LEMMA TornText == <<Torn>> \in Seq(Cell)
  <1>1. Torn \in Cell
    BY DEF Torn, Cell
  <1>. QED  BY <1>1

\* A whole first line parses, to the entries of its node.
LEMMA FirstParses ==
  ASSUME NEW t \in Seq(Cell), NEW k, FirstOf(t, k)
  PROVE  /\ FirstLine(t) = {Entries(t[1].peer, t[2].addrs)}
         /\ Entries(t[1].peer, t[2].addrs) # Unparsable
  <1>1. FirstLine(t) = {Entries(t[1].peer, t[2].addrs)}
    BY LenProperties, EmptySeq DEF FirstOf, FirstLine
  <1>2. t[2].addrs \subseteq Public
    BY DEF FirstOf, get_external_addrs
  <1>3. \A e \in Entries(t[1].peer, t[2].addrs) : e.addr # "none"
    <2>. DEFINE A == IF t[2].addrs = {} THEN {""} ELSE t[2].addrs
    <2>1. \A a \in A : a # "none"
      BY <1>2, AddressAssumption
    <2>2. Entries(t[1].peer, t[2].addrs) = {[peer |-> t[1].peer, addr |-> a] : a \in A}
      BY DEF Entries
    <2>. HIDE DEF A
    <2>. QED  BY <2>1, <2>2
  <1>4. [peer |-> "none", addr |-> "none"].addr = "none"
    OBVIOUS
  <1>. QED  BY <1>1, <1>3, <1>4 DEF Unparsable

\* Whatever the file holds, what it yields are entries, or nothing parses.
LEMMA ParsedEntries ==
  ASSUME NEW t \in Seq(Cell), NEW nodes \in FirstLine(t), nodes # Unparsable
  PROVE  nodes \subseteq Entry
  <1>1. ASSUME NEW n \in Node, NEW A \in SUBSET Address PROVE Entries(n, A) \subseteq Entry
    <2>. DEFINE B == IF A = {} THEN {""} ELSE A
    <2>1. B \subseteq Address
      BY DEF Address
    <2>2. Entries(n, A) = {[peer |-> n, addr |-> a] : a \in B}
      BY DEF Entries
    <2>. HIDE DEF B
    <2>. QED  BY <2>1, <2>2 DEF Entry
  <1>2. CASE t = <<>>
    BY <1>2 DEF FirstLine
  <1>3. CASE t # <<>>
    <2>6. Len(t) \in Nat /\ Len(t) >= 1 /\ 1 \in 1..Len(t)
      <3>1. Len(t) \in Nat /\ Len(t) # 0
        BY <1>3, LenProperties, EmptySeq
      <3>. QED  BY <3>1
    <2>1. t[1] \in Cell
      BY <2>6, ElementOfSeq
    <2>2. t[1].part = "peer" => t[1].peer \in Node
      BY <2>1 DEF Cell
    <2>3. Len(t) # 1 => t[2] \in Cell
      <3>1. Len(t) # 1 => 2 \in 1..Len(t)
        <4>1. \A l \in Nat : l >= 1 /\ l # 1 => 2 \in 1..l
          OBVIOUS
        <4>. QED  BY <2>6, <4>1, Zenon
      <3>. QED  BY <3>1, ElementOfSeq
    <2>4. Len(t) # 1 /\ t[2].part = "addrs" => t[2].addrs \in SUBSET Address
      BY <2>3 DEF Cell, Address
    <2>5. {"other"} \in SUBSET Address /\ {} \in SUBSET Address
      BY DEF Address
    <2>. QED  BY <1>1, <1>3, <2>2, <2>4, <2>5 DEF FirstLine
  <1>. QED  BY <1>2, <1>3

-----------------------------------------------------------------------------
(* The inductive invariant *)

LEMMA InitIndInv == Init => IndInv
  <1>. SUFFICES ASSUME Init PROVE IndInv
    OBVIOUS
  <1>1. None \in List
    BY DEF None, List
  <1>2. TypeOK
    <2>1. exits \in 0..MaxExits /\ cuts \in 0..MaxCuts
      BY FileBoundAssumption DEF Init
    <2>2. exists \in BOOLEAN /\ lost \in BOOLEAN /\ last \in List
      BY <1>1 DEF Init
    <2>3. /\ server \in [Proc -> BOOLEAN] /\ saving \in [Proc -> List]
          /\ table \in [Proc -> SUBSET Entry]
      BY <1>1 DEF Init
    <2>4. /\ pc \in [Proc -> {"off", "create", "read", "running", "write", "panic"}]
          /\ file \in Seq(Cell) /\ text \in [Proc -> Seq(Cell)]
          /\ \A p \in Proc : (pc[p] = "write") <=> text[p] # <<>>
      BY DEF Init
    <2>. QED  BY <2>1, <2>2, <2>3, <2>4 DEF TypeOK, List
  <1>3. TextsOK /\ FileOK /\ ListStays /\ StartParses
    BY DEF Init, TextsOK, FileOK, ListStays, StartParses
  <1>. QED  BY <1>2, <1>3 DEF IndInv

\* What Done and Leave leave behind.
LEMMA Ends ==
  ASSUME TypeOK, NEW p \in Proc
  PROVE  /\ Done(p) => /\ pc' \in [Proc -> {"off", "create", "read", "running", "write", "panic"}]
                       /\ text' \in [Proc -> Seq(Cell)] /\ saving' \in [Proc -> List]
                       /\ pc'[p] = "off" /\ text'[p] = <<>>
                       /\ \A q \in Proc \ {p} : /\ pc'[q] = pc[q] /\ text'[q] = text[q]
                                                /\ saving'[q] = saving[q]
         /\ Leave(p) => server' \in [Proc -> BOOLEAN] /\ table' \in [Proc -> SUBSET Entry]
  <1>1. <<>> \in Seq(Cell) /\ None \in List
    BY DEF None, List
  <1>2. ASSUME Done(p)
        PROVE  /\ pc' = [pc EXCEPT ![p] = "off"] /\ text' = [text EXCEPT ![p] = <<>>]
               /\ saving' = [saving EXCEPT ![p] = None]
    BY <1>2 DEF Done, Goto
  <1>3. /\ pc \in [Proc -> {"off", "create", "read", "running", "write", "panic"}]
        /\ text \in [Proc -> Seq(Cell)] /\ saving \in [Proc -> List]
        /\ server \in [Proc -> BOOLEAN] /\ table \in [Proc -> SUBSET Entry]
    BY DEF TypeOK, List
  <1>4. ASSUME Done(p)
        PROVE  /\ pc' \in [Proc -> {"off", "create", "read", "running", "write", "panic"}]
               /\ pc'[p] = "off" /\ \A q \in Proc \ {p} : pc'[q] = pc[q]
    BY <1>2, <1>3, <1>4
  <1>5. ASSUME Done(p)
        PROVE  /\ text' \in [Proc -> Seq(Cell)] /\ text'[p] = <<>>
               /\ \A q \in Proc \ {p} : text'[q] = text[q]
    BY <1>1, <1>2, <1>3, <1>5
  <1>6. ASSUME Done(p)
        PROVE  /\ saving' \in [Proc -> List] /\ \A q \in Proc \ {p} : saving'[q] = saving[q]
    BY <1>1, <1>2, <1>3, <1>6
  <1>7. Leave(p) => server' \in [Proc -> BOOLEAN] /\ table' \in [Proc -> SUBSET Entry]
    BY <1>3 DEF Leave
  <1>. QED  BY <1>4, <1>5, <1>6, <1>7

LEMMA StartSteps ==
  ASSUME IndInv, NEW p \in Proc,
         (\E as_server \in BOOLEAN : Start(p, as_server)) \/ Create(p)
  PROVE  IndInv'
  <1>. USE DEF IndInv
  <1>1. ASSUME NEW as_server \in BOOLEAN, Start(p, as_server) PROVE IndInv'
    <2>1. /\ pc' \in [Proc -> {"off", "create", "read", "running", "write", "panic"}]
          /\ pc[p] # "write" /\ pc'[p] \notin {"write", "panic"}
          /\ \A q \in Proc \ {p} : pc'[q] = pc[q]
      BY <1>1 DEF Start, Goto, TypeOK
    <2>2. UNCHANGED <<exists, file, text, last, saving, lost, exits, cuts>>
      BY <1>1 DEF Start
    <2>3. server' \in [Proc -> BOOLEAN] /\ table' \in [Proc -> SUBSET Entry]
      BY <1>1 DEF Start, TypeOK
    <2>4. TypeOK'
      BY <2>1, <2>2, <2>3 DEF TypeOK
    <2>5. TextsOK' /\ FileOK' /\ ListStays' /\ StartParses'
      BY <2>1, <2>2 DEF TextsOK, FileOK, ListStays, StartParses
    <2>. QED  BY <2>4, <2>5
  <1>2. CASE Create(p)
    <2>1. /\ pc' \in [Proc -> {"off", "create", "read", "running", "write", "panic"}]
          /\ pc[p] # "write" /\ pc'[p] \notin {"write", "panic"}
          /\ \A q \in Proc \ {p} : pc'[q] = pc[q]
      BY <1>2 DEF Create, Goto, TypeOK
    <2>2. /\ UNCHANGED <<server, table, text, last, saving, exits, cuts>>
          /\ exists' = TRUE /\ file' = <<>> /\ lost' = (lost \/ file # <<>>)
      BY <1>2 DEF Create
    <2>3. exists' \in BOOLEAN /\ lost' \in BOOLEAN
      BY <2>2, Zenon
    <2>4. TypeOK'
      BY <2>1, <2>2, <2>3 DEF TypeOK
    <2>5. TextsOK' /\ FileOK' /\ StartParses'
      BY <2>1, <2>2 DEF TextsOK, FileOK, StartParses
    <2>6. ListStays'
      BY <2>1, <2>2 DEF ListStays
    <2>. QED  BY <2>4, <2>5, <2>6
  <1>. QED  BY <1>1, <1>2

LEMMA LoadStep ==
  ASSUME IndInv, NEW p \in Proc, load_nodes_file(p)
  PROVE  IndInv'
  <1>. USE DEF IndInv
  <1>1. PICK nodes \in FirstLine(file) :
          IF nodes = Unparsable
          THEN Goto(p, "panic") /\ UNCHANGED table
          ELSE Goto(p, "running") /\ table' = [table EXCEPT ![p] = nodes]
    BY DEF load_nodes_file
  <1>2. UNCHANGED <<exists, file, server, text, last, saving, lost, exits, cuts>>
    BY DEF load_nodes_file
  <1>3. file \in Seq(Cell) /\ cuts \in Nat
    BY FileBoundAssumption DEF TypeOK
  <1>4. /\ pc' \in [Proc -> {"off", "create", "read", "running", "write", "panic"}]
        /\ pc[p] # "write" /\ pc'[p] # "write"
        /\ pc'[p] = "panic" => nodes = Unparsable
        /\ \A q \in Proc \ {p} : pc'[q] = pc[q]
    BY <1>1 DEF load_nodes_file, Goto, TypeOK
  <1>5. table' \in [Proc -> SUBSET Entry]
    BY <1>1, <1>3, ParsedEntries DEF TypeOK
  <1>6. TypeOK'
    BY <1>2, <1>4, <1>5 DEF TypeOK
  <1>7. TextsOK' /\ FileOK' /\ ListStays'
    BY <1>2, <1>4 DEF TextsOK, FileOK, ListStays
  <1>8. ASSUME cuts = 0 PROVE nodes # Unparsable
    <2>1. CASE file = <<>>
      BY <2>1 DEF FirstLine, Unparsable
    <2>2. CASE file # <<>>
      <3>1. FirstOf(file, last)
        BY <1>8, <2>2 DEF FileOK
      <3>. QED  BY <1>3, <3>1, FirstParses
    <2>. QED  BY <2>1, <2>2
  <1>9. StartParses'
    <2>1. (\E q \in Proc : pc'[q] = "panic") => cuts # 0
      <3>1. (\E q \in Proc : pc[q] = "panic") => cuts # 0
        BY <1>3 DEF StartParses
      <3>. QED  BY <1>4, <1>8, <3>1
    <2>. QED  BY <1>2, <1>3, <2>1 DEF StartParses
  <1>. QED  BY <1>6, <1>7, <1>9

LEMMA RunningSteps ==
  ASSUME IndInv, NEW p \in Proc, Running(p)
  PROVE  IndInv'
  <1>. USE DEF IndInv
  <1>1. UNCHANGED <<exists, file, pc, server, text, last, saving, lost, exits, cuts>>
    BY DEF Running, Learn, remove_peer
  <1>2. table' \in [Proc -> SUBSET Entry]
    <2>1. ASSUME NEW n \in Node, NEW a \in Public \cup Private
          PROVE  [peer |-> n, addr |-> a] \in Entry
      BY DEF Entry, Address
    <2>2. ASSUME NEW n \in Node, NEW a \in Public \cup Private, Learn(p, n, a)
          PROVE  table' \in [Proc -> SUBSET Entry]
      BY <2>1, <2>2 DEF Learn, TypeOK
    <2>3. ASSUME NEW n \in Node, remove_peer(p, n) PROVE table' \in [Proc -> SUBSET Entry]
      BY <2>3 DEF remove_peer, TypeOK
    <2>. QED  BY <2>2, <2>3 DEF Running
  <1>3. TypeOK'
    BY <1>1, <1>2 DEF TypeOK
  <1>4. TextsOK' /\ FileOK' /\ ListStays' /\ StartParses'
    BY <1>1 DEF TextsOK, FileOK, ListStays, StartParses
  <1>. QED  BY <1>3, <1>4

LEMMA ExitStep ==
  ASSUME IndInv, NEW p \in Proc, Exit(p)
  PROVE  IndInv'
  <1>. USE DEF IndInv
  <1>. DEFINE T == table[p]
              sv == server[p]
              k == [server |-> sv, table |-> T]
  <1>1. /\ T \in SUBSET Entry /\ sv \in BOOLEAN /\ k \in List
        /\ pc[p] = "running" /\ text[p] = <<>>
    BY DEF TypeOK, List, Exit
  <1>2. exits' \in 0..MaxExits
    BY FileBoundAssumption DEF Exit, TypeOK
  <1>3. server' \in [Proc -> BOOLEAN] /\ table' \in [Proc -> SUBSET Entry]
    BY Ends DEF Exit
  <1>4. UNCHANGED <<last, lost, cuts>>
    BY DEF Exit
  <1>5. CASE get_known_nodes(T, sv) = {}
    <2>1. Goto(p, "off") /\ UNCHANGED <<exists, file, text, saving>>
      BY <1>5 DEF Exit
    <2>2. /\ pc' \in [Proc -> {"off", "create", "read", "running", "write", "panic"}]
          /\ pc'[p] = "off" /\ \A q \in Proc \ {p} : pc'[q] = pc[q]
      BY <2>1 DEF Goto, TypeOK
    <2>3. TypeOK'
      BY <1>1, <1>2, <1>3, <1>4, <2>1, <2>2 DEF TypeOK
    <2>4. TextsOK' /\ FileOK' /\ ListStays' /\ StartParses'
      BY <1>1, <1>4, <2>1, <2>2 DEF TextsOK, FileOK, ListStays, StartParses
    <2>. QED  BY <2>3, <2>4
  <1>6. CASE get_known_nodes(T, sv) # {}
    <2>1. PICK s \in SetToSeqs(get_known_nodes(T, sv)) : text' = [text EXCEPT ![p] = Text(T, s)]
      BY <1>6 DEF Exit
    <2>2. /\ saving' = [saving EXCEPT ![p] = k]
          /\ exists' = TRUE /\ file' = <<>> /\ Goto(p, "write")
      BY <1>6 DEF Exit
    <2>3. Text(T, s) \in Seq(Cell) /\ Text(T, s) # <<>> /\ FirstOf(Text(T, s), k)
      BY <1>1, <1>6, Texts
    <2>. HIDE DEF k
    <2>4. /\ pc' \in [Proc -> {"off", "create", "read", "running", "write", "panic"}]
          /\ pc'[p] = "write" /\ \A q \in Proc \ {p} : pc'[q] = pc[q]
      BY <2>2 DEF Goto, TypeOK
    <2>5. /\ text' \in [Proc -> Seq(Cell)] /\ text'[p] = Text(T, s)
          /\ saving' \in [Proc -> List] /\ saving'[p] = k
          /\ \A q \in Proc \ {p} : text'[q] = text[q] /\ saving'[q] = saving[q]
      BY <1>1, <2>1, <2>2, <2>3 DEF TypeOK, List
    <2>6. TypeOK'
      BY <1>2, <1>3, <1>4, <2>2, <2>3, <2>4, <2>5 DEF TypeOK, List
    <2>7. TextsOK'
      <3>1. FirstOf(text'[p], saving'[p])
        BY <2>3, <2>5
      <3>2. \A q \in Proc \ {p} : pc'[q] = "write" => FirstOf(text'[q], saving'[q])
        BY <2>4, <2>5 DEF TextsOK
      <3>. QED  BY <3>1, <3>2 DEF TextsOK
    <2>8. FileOK' /\ ListStays'
      BY <2>2, <2>4 DEF FileOK, ListStays
    <2>9. StartParses'
      BY <1>1, <1>4, <2>4 DEF StartParses
    <2>. QED  BY <2>6, <2>7, <2>8, <2>9
  <1>. QED  BY <1>5, <1>6

LEMMA WriteSteps ==
  ASSUME IndInv, NEW p \in Proc, Write(p) \/ WriteCut(p) \/ Kill(p)
  PROVE  IndInv'
  <1>. USE DEF IndInv
  <1>1. /\ pc' \in [Proc -> {"off", "create", "read", "running", "write", "panic"}]
        /\ text' \in [Proc -> Seq(Cell)] /\ saving' \in [Proc -> List]
        /\ pc'[p] = "off" /\ text'[p] = <<>>
        /\ \A q \in Proc \ {p} : pc'[q] = pc[q] /\ text'[q] = text[q] /\ saving'[q] = saving[q]
    <2>1. Done(p)
      BY DEF Write, WriteCut, Kill
    <2>. QED  BY <2>1, Ends
  <1>2. TextsOK'
    <2>1. \A q \in Proc \ {p} : pc'[q] = "write" => FirstOf(text'[q], saving'[q])
      BY <1>1 DEF TextsOK
    <2>. QED  BY <1>1, <2>1 DEF TextsOK
  <1>3. \A q \in Proc : (pc'[q] = "write") <=> text'[q] # <<>>
    BY <1>1 DEF TypeOK
  <1>4. cuts \in Nat /\ MaxCuts \in Nat /\ exits \in 0..MaxExits
    BY FileBoundAssumption DEF TypeOK
  <1>5. CASE Write(p)
    <2>1. /\ pc[p] = "write" /\ last' = saving[p]
          /\ UNCHANGED <<exists, server, table, lost, exits, cuts>>
          /\ file' = text[p] \/ file' = text[p] \o <<Torn>>
      BY <1>5 DEF Write
    <2>2. text[p] \in Seq(Cell) /\ text[p] # <<>> /\ FirstOf(text[p], saving[p]) /\ saving[p] \in List
      BY <2>1 DEF TypeOK, TextsOK, List
    <2>3. file' \in Seq(Cell) /\ FirstOf(file', last')
      BY <2>1, <2>2, Overlaid, TornText
    <2>4. file' # <<>>
      BY <2>3, EmptySeq DEF FirstOf
    <2>5. TypeOK'
      BY <1>1, <1>3, <2>1, <2>2, <2>3 DEF TypeOK, List
    <2>6. FileOK' /\ ListStays'
      BY <2>3, <2>4 DEF FileOK, ListStays
    <2>7. StartParses'
      BY <1>1, <2>1 DEF StartParses
    <2>. QED  BY <1>2, <2>5, <2>6, <2>7
  <1>6. CASE WriteCut(p)
    <2>1. /\ cuts < MaxCuts /\ cuts' = cuts + 1 /\ lost' = TRUE
          /\ UNCHANGED <<exists, server, table, last, exits>>
      BY <1>6 DEF WriteCut
    <2>2. cuts' \in 0..MaxCuts /\ cuts' # 0 /\ cuts' > 0
      BY <1>4, <2>1
    <2>3. file' \in Seq(Cell)
      <3>1. PICK i \in 0..(Len(text[p]) - 1) :
              LET begin == SubSeq(text[p], 1, i) IN
              \/ file' = begin \/ file' = begin \o <<Torn>>
              \/ file' = begin \o SubSeq(file, i + 1, Len(file))
        BY <1>6 DEF WriteCut
      <3>2. text[p] \in Seq(Cell) /\ file \in Seq(Cell)
        BY DEF TypeOK
      <3>3. /\ Len(text[p]) \in Nat /\ Len(file) \in Nat /\ i \in Nat /\ i <= Len(text[p])
            /\ 1 \in 1..(Len(text[p]) + 1) /\ i + 1 \in Nat
        BY <3>2, LenProperties
      <3>4. SubSeq(text[p], 1, i) \in Seq(Cell)
        BY <3>2, <3>3, SubSeqProperties
      <3>5. SubSeq(file, i + 1, Len(file)) \in Seq(Cell)
        BY <3>2, <3>3, SubSeqProperties
      <3>. QED  BY <3>1, <3>4, <3>5, TornText, ConcatProperties
    <2>4. TypeOK'
      <3>1. lost' \in BOOLEAN
        BY <2>1, Zenon
      <3>. QED  BY <1>1, <1>3, <2>1, <2>2, <2>3, <3>1 DEF TypeOK, List
    <2>5. FileOK' /\ StartParses'
      BY <2>2 DEF FileOK, StartParses
    <2>6. ListStays'
      BY <2>1 DEF ListStays
    <2>. QED  BY <1>2, <2>4, <2>5, <2>6
  <1>7. CASE Kill(p)
    <2>1. /\ lost' = (lost \/ pc[p] = "write") /\ Leave(p)
          /\ UNCHANGED <<exists, file, last, exits, cuts>>
      BY <1>7 DEF Kill
    <2>2. lost' \in BOOLEAN
      BY <2>1, Zenon
    <2>3. server' \in [Proc -> BOOLEAN] /\ table' \in [Proc -> SUBSET Entry]
      BY <2>1, Ends
    <2>4. TypeOK'
      BY <1>1, <1>3, <2>1, <2>2, <2>3 DEF TypeOK, List
    <2>5. FileOK' /\ StartParses'
      BY <1>1, <2>1 DEF FileOK, StartParses
    <2>6. ListStays'
      BY <1>1, <2>1 DEF ListStays
    <2>. QED  BY <1>2, <2>4, <2>5, <2>6
  <1>. QED  BY <1>5, <1>6, <1>7

-----------------------------------------------------------------------------
(* The theorems *)

LEMMA Inductive == IndInv /\ [Next]_vars => IndInv'
  <1>. SUFFICES ASSUME IndInv, [Next]_vars PROVE IndInv'
    OBVIOUS
  <1>1. ASSUME NEW p \in Proc, Step(p) PROVE IndInv'
    BY <1>1, StartSteps, LoadStep, RunningSteps, ExitStep, WriteSteps DEF Step
  <1>2. CASE UNCHANGED vars
    BY <1>2 DEF vars, IndInv, TypeOK, TextsOK, FileOK, ListStays, StartParses
  <1>. QED  BY <1>1, <1>2 DEF Next

\* The first line of the file is whole and of the last list written (main.rs
\* 354-391), until a disk is full.
THEOREM InductiveInvariant == Spec => []IndInv
  <1>. QED  BY InitIndInv, Inductive, PTL DEF Spec

\* The state keeps its shape.
THEOREM TypeCorrect == Spec => []TypeOK
  <1>1. IndInv => TypeOK
    BY DEF IndInv
  <1>. QED  BY <1>1, InductiveInvariant, PTL

\* A written list stays for the next start, but for the causes named.
THEOREM ListsStay == Spec => []ListStays
  <1>1. IndInv => ListStays
    BY DEF IndInv
  <1>. QED  BY <1>1, InductiveInvariant, PTL

\* load_nodes_file's unwraps hold until a disk is full.
THEOREM StartsParse == Spec => []StartParses
  <1>1. IndInv => StartParses
    BY DEF IndInv
  <1>. QED  BY <1>1, InductiveInvariant, PTL

\* A start loads one node of the last list, with its public addresses.
THEOREM StartsLoadTheLastList == Spec => LoadsLastList
  <1>1. ASSUME IndInv, [Next]_vars
        PROVE  [\A p \in Proc : pc[p] = "read" /\ pc'[p] = "running" /\ cuts = 0 =>
                  \/ table'[p] = {}
                  \/ \E n \in peers(last.table) :
                       /\ ~ last.server => n \notin Boot
                       /\ table'[p] = Entries(n, {a \in Public :
                            [peer |-> n, addr |-> a] \in last.table})]_vars
    <2>. SUFFICES ASSUME NEW p \in Proc, pc[p] = "read", pc'[p] = "running", cuts = 0
                  PROVE  \/ table'[p] = {}
                         \/ \E n \in peers(last.table) :
                              /\ ~ last.server => n \notin Boot
                              /\ table'[p] = Entries(n, {a \in Public :
                                   [peer |-> n, addr |-> a] \in last.table})
      OBVIOUS
    <2>. USE <1>1 DEF IndInv
    <2>1. load_nodes_file(p)
      <3>1. PICK q \in Proc : Step(q)
        BY DEF Next, vars
      <3>2. pc' # pc
        OBVIOUS
      <3>3. \A l : Goto(q, l) => q = p /\ l = "running"
        BY DEF Goto, TypeOK
      <3>4. ~ Create(q) /\ ~ Exit(q) /\ ~ Write(q) /\ ~ WriteCut(q) /\ ~ Kill(q)
        <4>1. ~ Goto(q, "read") /\ ~ Goto(q, "off") /\ ~ Goto(q, "write")
          BY <3>3
        <4>2. ~ Done(q)
          BY <4>1 DEF Done
        <4>3. ~ Create(q) /\ ~ Exit(q)
          BY <4>1 DEF Create, Exit
        <4>. QED  BY <4>2, <4>3 DEF Write, WriteCut, Kill
      <3>5. ~ Running(q)
        BY <3>2 DEF Running, Learn, remove_peer
      <3>6. ~ \E as_server \in BOOLEAN : Start(q, as_server)
        BY <3>3 DEF Start
      <3>7. load_nodes_file(q)
        BY <3>1, <3>4, <3>5, <3>6 DEF Step
      <3>. QED  BY <3>3, <3>7 DEF load_nodes_file
    <2>2. PICK nodes \in FirstLine(file) :
            IF nodes = Unparsable THEN Goto(p, "panic") /\ UNCHANGED table
            ELSE Goto(p, "running") /\ table' = [table EXCEPT ![p] = nodes]
      BY <2>1 DEF load_nodes_file
    <2>3. table'[p] = nodes
      BY <2>2 DEF Goto, TypeOK
    <2>4. CASE file = <<>>
      BY <2>3, <2>4 DEF FirstLine
    <2>5. CASE file # <<>>
      <3>. DEFINE n == file[1].peer
                  A == {a \in Public : [peer |-> n, addr |-> a] \in last.table}
      <3>1. FirstOf(file, last) /\ file \in Seq(Cell) /\ last \in List
        BY <2>5 DEF FileOK, TypeOK, List
      <3>2. nodes = Entries(n, file[2].addrs)
        BY <3>1, FirstParses
      <3>3. n \in peers(last.table) /\ (~ last.server => n \notin Boot)
        BY <3>1 DEF FirstOf, get_known_nodes
      <3>4. file[2].addrs = A
        <4>1. last.table \subseteq Entry
          BY <3>1 DEF List
        <4>2. \A e \in last.table : e.peer = n => e = [peer |-> n, addr |-> e.addr]
          BY <4>1 DEF Entry
        <4>3. file[2].addrs = {e.addr : e \in {e \in last.table : e.peer = n}} \cap Public
          BY <3>1 DEF FirstOf, get_external_addrs
        <4>. QED  BY <4>2, <4>3
      <3>. QED  BY <2>3, <3>2, <3>3, <3>4
    <2>. QED  BY <2>4, <2>5
  <1>. QED  BY <1>1, InductiveInvariant, PTL DEF Spec, LoadsLastList
=============================================================================
