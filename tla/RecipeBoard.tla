----------------------------- MODULE RecipeBoard -----------------------------
(***************************************************************************)
(* What the recipe messages promise, without networks, views, floods,      *)
(* tasks or channels: one board that all nodes put their notes up on.  A   *)
(* node reads each note once or never, tells its user of those that are    *)
(* meant for it and no others, and owes every question that it has read    *)
(* and that means it one answer, which goes to the one who asked.          *)
(***************************************************************************)
EXTENDS Naturals, Sequences, SequencesExt

CONSTANTS Node, Local    \* Local: the nodes that find others

VARIABLES
  alive,    \* the nodes whose process runs
  notes,    \* what was put up, in order: [by, what, to, re]
  read,     \* read[n]: the notes n has read or written
  owes,     \* owes[n]: the questions that n has yet to answer
  planned,  \* planned[n]: those that n has yet to write its recipes to
  told      \* told[n]: the notes that n told its user of, and as what

bvars == <<alive, notes, read, owes, planned, told>>

Note(n, what, to, re) == [by |-> n, what |-> what, to |-> to, re |-> re]

BInit ==
  /\ alive = Node /\ notes = <<>>
  /\ read = [n \in Node |-> {}] /\ owes = [n \in Node |-> {}]
  /\ planned = [n \in Node |-> <<>>] /\ told = [n \in Node |-> {}]

PutUp(n, note) ==
  /\ n \in alive
  /\ notes' = Append(notes, note)
  /\ read' = [read EXCEPT ![n] = @ \cup {Len(notes) + 1}]

Ask(n, to) ==
  /\ PutUp(n, Note(n, "request", to, 0))
  /\ UNCHANGED <<alive, owes, planned, told>>

\* A note is read once, and for what it is: a question is owed an answer,
\* anything else is for the user it is addressed to.
Read(n, i) ==
  /\ n \in alive /\ i \in DOMAIN notes \ read[n]
  /\ read' = [read EXCEPT ![n] = @ \cup {i}]
  /\ owes' = [owes EXCEPT ![n] =
       @ \cup {k \in {i} : notes[k].what = "request" /\ notes[k].to \in {"All", n}}]
  /\ told' = [told EXCEPT ![n] =
       @ \cup {<<k, notes[k].what>> : k \in {k \in {i} : notes[k].what # "request" /\ notes[k].to = n}}]
  /\ UNCHANGED <<alive, notes, planned>>

Answer(n, i) ==
  /\ i \in owes[n]
  /\ PutUp(n, Note(n, "response", notes[i].by, i))
  /\ owes' = [owes EXCEPT ![n] = @ \ {i}]
  /\ UNCHANGED <<alive, planned, told>>
\* Its recipes could not be read.
GiveUp(n, i) ==
  /\ n \in alive /\ i \in owes[n]
  /\ owes' = [owes EXCEPT ![n] = @ \ {i}]
  /\ UNCHANGED <<alive, notes, read, planned, told>>

\* "b r": one note for each of some others, in some order.
Plan(n) ==
  /\ n \in alive \cap Local
  /\ \E S \in SUBSET (Local \ {n}) : \E s \in SetToSeqs(S) :
       planned' = [planned EXCEPT ![n] = @ \o s]
  /\ UNCHANGED <<alive, notes, read, owes, told>>
Write(n) ==
  /\ planned[n] # <<>>
  /\ PutUp(n, Note(n, "broadcast", Head(planned[n]), 0))
  /\ planned' = [planned EXCEPT ![n] = Tail(@)]
  /\ UNCHANGED <<alive, owes, told>>

End(n) ==
  /\ n \in alive /\ alive' = alive \ {n}
  /\ UNCHANGED <<notes, read, owes, planned, told>>

BNext == \E n \in Node :
  \/ \E to \in Node \cup {"All"} : Ask(n, to)
  \/ \E i \in DOMAIN notes : Read(n, i)
  \/ \E i \in owes[n] : Answer(n, i) \/ GiveUp(n, i)
  \/ Plan(n) \/ Write(n) \/ End(n)

BSpec == BInit /\ [][BNext]_bvars
=============================================================================
