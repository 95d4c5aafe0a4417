----------------------------- MODULE AddressBook -----------------------------
(***************************************************************************)
(* What the peer exchange promises, without connections, requests or       *)
(* events.  Every node keeps an address book and writes letters: a node    *)
(* announces its own addresses, and tells others what it has on third      *)
(* nodes.  An address gets into a book in four ways only, a letter tells   *)
(* exactly the public part of its writer's book at the moment of writing.  *)
(* An entry is crossed out as a whole once the two have met; of addresses  *)
(* that lead nowhere one is always kept, so that nobody else is forgotten. *)
(***************************************************************************)
CONSTANTS
  Node,        \* the nodes
  Dialers,     \* those that file others behind a relay of theirs
  Relay,       \* Relay[n]: the address of the relay of dialer n
  Boot,        \* Boot[n]: the nodes that n does not tell others of
  SendBack,    \* SendBack[n]: where n's calls come from
  Advertised,  \* Advertised[n]: the sets of addresses n may announce
  Saved,       \* Saved[n]: the book n starts with
  DialPlan     \* <<n, a>>: n dials a of its own accord

VARIABLES
  alive,       \* the nodes whose process runs
  book,        \* book[n][p]: the addresses n has for p
  dialled,     \* history: <<n, a>>, n has reached a
  letters      \* what is under way: [from, to, about], about[p] a set of addresses

avars == <<alive, book, dialled, letters>>

Public(A) == {a \in A : a.wan}
Relayed(n, p) == [peer |-> p, via |-> Relay[n].peer, wan |-> Relay[n].wan]

\* What n files under p when it reads the letter l.  A dialer takes no address
\* from a letter, unless its relay announces itself.
Filed(n, l, p) ==
  IF p \notin DOMAIN l.about \ {n} \/ l.about[p] = {} THEN {}
  ELSE IF n \in Dialers /\ ~ (p = l.from /\ p = Relay[n].peer) THEN {Relayed(n, p)}
  ELSE l.about[p]

\* A letter that n can write now: on nodes it knows, other than its reader and
\* the boot nodes, and on each all that is public and no more.
Telling(n, l) ==
  /\ l.from = n /\ l.to # n
  /\ \A p \in DOMAIN l.about : /\ p \notin Boot[n] \cup {l.to, n}
                               /\ book[n][p] # {} /\ l.about[p] = Public(book[n][p])
Writes(n) == \A l \in letters' \ letters : Telling(n, l)'

Met(n, p) == \E d \in dialled : {d[1], d[2].peer} = {n, p}

AInit ==
  /\ alive = Node
  /\ book = Saved
  /\ dialled = {}
  /\ letters = {}

\* A node calls whom it has an address of.
ADial(n, a) ==
  /\ {n, a.peer} \subseteq alive /\ a.peer # n
  /\ a \in book[n][a.peer] \/ <<n, a>> \in DialPlan
  /\ dialled' = dialled \cup {<<n, a>>}
  /\ UNCHANGED <<alive, book, letters>>

File(n, p, A) ==
  /\ n \in alive /\ p # n
  /\ book' = [book EXCEPT ![n][p] = @ \cup A]
  /\ UNCHANGED <<alive, dialled, letters>>

\* The four ways: whoever calls, whoever answers, an announcement, a telling.
Greet(n, p) == (\E d \in dialled : d[1] = p /\ d[2].peer = n) /\ File(n, p, {SendBack[p]})
Confirm(d) == d \in dialled /\ File(d[1], d[2].peer, {d[2]})
Announce(p, n) ==
  /\ {p, n} \subseteq alive /\ Met(p, n)
  /\ \E A \in Advertised[p] :
       letters' = letters \cup {[from |-> p, to |-> n, about |-> [q \in {p} |-> A]]}
  /\ UNCHANGED <<alive, book, dialled>>
\* The reader may tell others what it has now, and the letter may have copies.
Read(n, l) ==
  /\ n \in alive /\ l \in letters /\ l.to = n
  /\ book' = [book EXCEPT ![n] = [p \in Node |-> @[p] \cup Filed(n, l, p)]]
  /\ Writes(n)
  /\ UNCHANGED <<alive, dialled>>

Tell(n) == n \in alive /\ Writes(n) /\ UNCHANGED <<alive, book, dialled>>
Lost == letters' \subseteq letters /\ UNCHANGED <<alive, book, dialled>>

Forget(n, p) ==
  /\ n \in alive /\ Met(n, p)
  /\ book' = [book EXCEPT ![n][p] = {}]
  /\ UNCHANGED <<alive, dialled, letters>>

\* Addresses are given up, never the last.
Strike(n, p) ==
  /\ n \in alive
  /\ \E A \in SUBSET book[n][p] :
       A # book[n][p] /\ book' = [book EXCEPT ![n][p] = @ \ A]
  /\ UNCHANGED <<alive, dialled, letters>>

AEnd(n) ==
  /\ n \in alive /\ alive' = alive \ {n}
  /\ book' = [book EXCEPT ![n] = [p \in Node |-> {}]]
  /\ letters' \subseteq letters
  /\ UNCHANGED dialled

ARestart(n) ==
  /\ n \notin alive /\ alive' = alive \cup {n}
  /\ book' = [book EXCEPT ![n] = Saved[n]]
  /\ UNCHANGED <<dialled, letters>>

ANext ==
  \/ Lost
  \/ \E l \in letters : Read(l.to, l)
  \/ \E d \in dialled : Confirm(d)
  \/ \E n \in Node : Tell(n) \/ AEnd(n) \/ ARestart(n)
  \/ \E n, p \in Node :
       \/ Greet(n, p) \/ Announce(n, p) \/ Forget(n, p) \/ Strike(n, p)
       \/ \E a \in book[n][p] \cup {d[2] : d \in DialPlan} : ADial(n, a)

ASpec == AInit /\ [][ANext]_avars
=============================================================================
