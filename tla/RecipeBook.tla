----------------------------- MODULE RecipeBook -----------------------------
(***************************************************************************)
(* What a node's recipe store promises, without files, tasks or channels.  *)
(* Every identity has one book.  The commands of the running identity      *)
(* change its book in one step each, and peers that ask are answered with  *)
(* the public part of the book as it was at some moment between their      *)
(* request and the answer, or, while a change is being written, not at     *)
(* all.  A crash loses the book only if it comes in the middle of a change.*)
(***************************************************************************)
EXTENDS Integers, FiniteSetsExt, Bags

CONSTANTS
  Id,        \* the identities of this machine, one for each directory of data/
  User,      \* the one that usercredentials keeps; the others are anonymous
  Peer,      \* the other nodes
  Name,      \* what a recipe says, but for its id
  Defaults   \* the recipes of a new book

Recipe == [id : Nat, name : Name, public : BOOLEAN]
NoBook == [st |-> "none", recipes |-> {}]
LostBook == [st |-> "lost", recipes |-> {}]
Book(R) == [st |-> "whole", recipes |-> R]

public(R) == {r \in R : r.public}
\* One above the highest id of R, 0 in an empty book.
new_id(R) == IF R = {} THEN 0 ELSE Max({r.id : r \in R}) + 1

Created(R, nm) == R \cup {[id |-> new_id(R), name |-> nm, public |-> FALSE]}
Deleted(R, i) == {r \in R : r.id # i}
Published(R, i) == {IF r.id = i THEN [r EXCEPT !.public = TRUE] ELSE r : r \in R}

VARIABLES
  book,      \* book[i]: the book of identity i
  running,   \* the identities whose process runs: one at most
  writing,   \* is a change being written?
  asked,     \* a bag: the peers whose requests are being answered
  answers    \* a bag: the answers and broadcasts made so far

bvars == <<book, running, writing, asked, answers>>

BInit ==
  /\ book = [i \in Id |-> NoBook]
  /\ running = {}
  /\ writing = FALSE
  /\ asked = EmptyBag
  /\ answers = EmptyBag

BStart(i) ==
  /\ running = {}
  /\ running' = {i}
  /\ UNCHANGED <<book, writing, asked, answers>>

\* A new identity gets the default book.
BNew(i) ==
  /\ running = {i} /\ book[i] = NoBook
  /\ book' = [book EXCEPT ![i] = Book(Defaults)]
  /\ UNCHANGED <<running, writing, asked, answers>>

BChange(i) ==
  /\ running = {i} /\ ~ writing /\ book[i].st = "whole"
  /\ \/ \E nm \in Name : book' = [book EXCEPT ![i] = Book(Created(book[i].recipes, nm))]
     \/ \E k \in 0..new_id(book[i].recipes) :
          \/ book' = [book EXCEPT ![i] = Book(Deleted(book[i].recipes, k))]
          \/ book' = [book EXCEPT ![i] = Book(Published(book[i].recipes, k))]
  /\ writing' = TRUE
  /\ UNCHANGED <<running, asked, answers>>

BChanged ==
  /\ writing /\ writing' = FALSE
  /\ UNCHANGED <<book, running, asked, answers>>

BAsk(p) ==
  /\ running # {}
  /\ asked' = asked (+) SetToBag({p})
  /\ UNCHANGED <<book, running, writing, answers>>

AnswerOf(i, p) == [to |-> p, data |-> public(book[i].recipes)]

BAnswer(i, p) ==
  /\ running = {i} /\ ~ writing /\ book[i].st = "whole"
  /\ BagIn(p, asked)
  /\ asked' = asked (-) SetToBag({p})
  /\ answers' = answers (+) SetToBag({AnswerOf(i, p)})
  /\ UNCHANGED <<book, running, writing>>

\* No answer: only for want of a whole book.
BRefuse(i, p) ==
  /\ running = {i} /\ (writing \/ book[i].st # "whole")
  /\ BagIn(p, asked)
  /\ asked' = asked (-) SetToBag({p})
  /\ UNCHANGED <<book, running, writing, answers>>

BBroadcast(i, p) ==
  /\ running = {i} /\ ~ writing /\ book[i].st = "whole"
  /\ answers' = answers (+) SetToBag({AnswerOf(i, p)})
  /\ UNCHANGED <<book, running, writing, asked>>

\* The end of the process, with the answers that have not left it; the book of
\* an anonymous identity may go with it.
BEnd(i, lost) ==
  /\ running = {i} /\ running' = {}
  /\ writing' = FALSE
  /\ asked' = EmptyBag
  /\ IsABag(answers') /\ answers' \sqsubseteq answers
  /\ book' = [book EXCEPT ![i] = IF lost THEN LostBook ELSE @]

BStop(i) == BEnd(i, FALSE)
BCrash(i) == (writing \/ book[i] = NoBook) /\ BEnd(i, TRUE)
BForget(i) ==
  /\ running = {i} /\ i # User
  /\ book' = [book EXCEPT ![i] = NoBook]
  /\ UNCHANGED <<running, writing, asked, answers>>

BNext ==
  \/ BChanged
  \/ \E i \in Id : \/ BStart(i) \/ BNew(i) \/ BChange(i) \/ BStop(i) \/ BCrash(i)
                   \/ BForget(i)
                   \/ \E p \in Peer : BAnswer(i, p) \/ BRefuse(i, p) \/ BBroadcast(i, p)
  \/ \E p \in Peer : BAsk(p)

BSpec == BInit /\ [][BNext]_bvars
=============================================================================
