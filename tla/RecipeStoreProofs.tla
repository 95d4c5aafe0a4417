------------------------- MODULE RecipeStoreProofs -------------------------
(***************************************************************************)
(* Proofs about RecipeStore: its type invariant, OneWriter and UniqueIds,  *)
(* for any default recipes, any peers and any number of starts, commands   *)
(* and requests.                                                           *)
(***************************************************************************)
EXTENDS RecipeStore, SequenceTheorems, WellFoundedInduction, TLAPS

Bounded(R) == \E b \in Nat : \A r \in R : r.id <= b
\* What a store, a copy or an answer must be.
GoodBook(R) == R \subseteq Recipe /\ Unique(R) /\ Bounded(R)
GoodAnswer(m) == m \in Answer /\ GoodBook(m.data)
GoodQueue(q) == q \in Seq(Answer) /\ \A i \in DOMAIN q : GoodAnswer(q[i])

\* UniqueIds is not inductive: a command's new id is fresh in the copy only if
\* the copy is what the store holds, the store is rewritten by one task at a
\* time, and the default recipes come first. Files says where the process and
\* its files can be relative to each other.
Files ==
  /\ \A i \in Id : i > starts => disk[i] = Absent
  /\ id <= starts
  /\ cred # "key" => disk[User] = Absent
  /\ pc = "new_key" => id = User
  /\ pc \in {"new_key", "defaults"} => disk[id] = Absent /\ ~ flushing
  /\ pc = "defaults" /\ id = User => cred = "key"
  /\ flushing => /\ pc \in {"idle", "broadcast", "exit"}
                 /\ disk[id].st # "whole"
                 /\ id = User => cred = "key"
  /\ pc \in {"idle", "write", "truncated", "broadcast", "exit"} /\ id = User => cred = "key"

Books ==
  /\ \A i \in Id : GoodBook(disk[i].recipes)
  /\ GoodBook(local_recipes)
  /\ GoodQueue(response_rcv) /\ GoodQueue(broadcast_rcv)
  /\ \A m \in BagToSet(published) : GoodAnswer(m)

IndInv == TypeOK /\ OneWriter /\ Files /\ Books

-----------------------------------------------------------------------------
(* Recipes *)

\* A bounded set of naturals that is not empty has a greatest element.
LEMMA Greatest ==
  ASSUME NEW S \in SUBSET Nat, S # {}, NEW b \in Nat, \A x \in S : x <= b
  PROVE  Max(S) \in S /\ \A x \in S : x <= Max(S)
<1> DEFINE R == OpToRel(<, Nat)
           T == {n \in Nat : \A x \in S : x <= n}
<1>1. IsWellFoundedOn(R, Nat)
  BY NatLessThanWellFounded
<1>2. T \subseteq Nat /\ T # {}
  OBVIOUS
<1>3. PICK m \in T : \A n \in T : <<n, m>> \notin R
  <2> HIDE DEF R, T
  <2> QED BY <1>1, <1>2, WFMin
<1>4. m \in Nat /\ \A x \in S : x <= m
  BY <1>3
<1>5. \A n \in Nat : n < m => <<n, m>> \in R
  BY <1>4 DEF OpToRel
<1>6. \A n \in Nat : (\A x \in S : x <= n) => ~ (n < m)
  BY <1>3, <1>5
<1>7. m \in S
  <2> HIDE DEF R, T
  <2> SUFFICES ASSUME m \notin S PROVE FALSE
    OBVIOUS
  <2>1. \A x \in S : x \in Nat /\ x <= m /\ x # m
    BY <1>4
  <2>2. PICK y \in S : TRUE
    OBVIOUS
  <2>3. m - 1 \in Nat
    BY <2>1, <2>2, <1>4
  <2>4. \A x \in S : x <= m - 1
    BY <2>1, <1>4
  <2> QED BY <2>3, <2>4, <1>6, <1>4
<1> HIDE DEF R, T
<1> QED BY <1>4, <1>7 DEF Max

LEMMA NewId ==
  ASSUME NEW R, GoodBook(R)
  PROVE  new_id(R) \in Nat /\ \A r \in R : r.id < new_id(R)
<1>1. CASE R = {}
  BY <1>1 DEF new_id
<1>2. CASE R # {}
  <2> DEFINE S == {r.id : r \in R}
  <2>1. PICK b \in Nat : \A r \in R : r.id <= b
    BY DEF GoodBook, Bounded
  <2>2. S \in SUBSET Nat /\ S # {} /\ \A x \in S : x <= b
    BY <1>2, <2>1 DEF GoodBook, Recipe
  <2>3. Max(S) \in S /\ \A x \in S : x <= Max(S)
    <3> HIDE DEF S
    <3> QED BY <2>2, Greatest
  <2> QED BY <1>2, <2>2, <2>3 DEF new_id, GoodBook, Recipe
<1> QED BY <1>1, <1>2

LEMMA CreatedGood ==
  ASSUME NEW R, GoodBook(R), NEW nm \in Name
  PROVE  GoodBook(create_new_recipe(R, nm))
<1> DEFINE r == [id |-> new_id(R), name |-> nm, public |-> FALSE]
<1>1. new_id(R) \in Nat /\ \A x \in R : x.id < new_id(R)
  BY NewId
<1>2. r \in Recipe /\ r.id = new_id(R)
  BY <1>1 DEF Recipe
<1>3. create_new_recipe(R, nm) = R \cup {r}
  BY DEF create_new_recipe
<1>4. \A x \in R \cup {r} : x \in Recipe /\ x.id <= new_id(R)
  <2> HIDE DEF r
  <2>1. \A x \in R : x \in Recipe /\ x.id \in Nat
    BY DEF GoodBook, Recipe
  <2> QED BY <1>1, <1>2, <2>1
<1>5. Unique(R \cup {r})
  <2> HIDE DEF r
  <2> QED BY <1>1, <1>2 DEF GoodBook, Unique, Recipe
<1> HIDE DEF r
<1> QED BY <1>1, <1>3, <1>4, <1>5 DEF GoodBook, Bounded

LEMMA SubsetGood ==
  ASSUME NEW R, NEW S, GoodBook(R), S \subseteq R
  PROVE  GoodBook(S)
BY DEF GoodBook, Unique, Bounded

LEMMA DeletedGood ==
  ASSUME NEW R, GoodBook(R), NEW i
  PROVE  GoodBook(delete_recipe(R, i))
BY SubsetGood DEF delete_recipe

LEMMA PublishedGood ==
  ASSUME NEW R, GoodBook(R), NEW i
  PROVE  GoodBook(publish_recipe(R, i))
<1> DEFINE pub(r) == IF r.id = i THEN [r EXCEPT !.public = TRUE] ELSE r
           P == publish_recipe(R, i)
<1>1. P = {pub(r) : r \in R}
  BY DEF publish_recipe
<1>2. \A r \in R : pub(r) \in Recipe /\ pub(r).id = r.id
  BY DEF GoodBook, Recipe
<1>3. Unique(P)
  <2> SUFFICES ASSUME NEW x \in P, NEW y \in P, x.id = y.id
               PROVE  x = y
    BY DEF Unique
  <2>1. PICK r \in R : x = pub(r)
    BY <1>1
  <2>2. PICK q \in R : y = pub(q)
    BY <1>1
  <2>3. r = q
    BY <2>1, <2>2, <1>2 DEF GoodBook, Unique
  <2> QED BY <2>1, <2>2, <2>3
<1>4. P \subseteq Recipe
  <2> HIDE DEF pub
  <2> QED BY <1>1, <1>2
<1>5. Bounded(P)
  <2>1. PICK b \in Nat : \A r \in R : r.id <= b
    BY DEF GoodBook, Bounded
  <2> HIDE DEF pub
  <2>2. \A x \in P : x.id <= b
    BY <2>1, <1>1, <1>2
  <2> QED BY <2>2 DEF Bounded
<1> QED BY <1>3, <1>4, <1>5 DEF GoodBook

LEMMA DefaultsGood == GoodBook(Defaults)
<1> DEFINE rec(i) == [id |-> i - 1, name |-> DefaultNames[i], public |-> TRUE]
<1>1. DefaultNames \in Seq(Name) /\ Len(DefaultNames) \in Nat
  BY DefaultsAssumption
<1>2. \A i \in DOMAIN DefaultNames :
        i - 1 \in Nat /\ i - 1 <= Len(DefaultNames) /\ DefaultNames[i] \in Name
  BY <1>1
<1>3. Defaults = {rec(i) : i \in DOMAIN DefaultNames}
  BY DEF Defaults
<1>4. \A i \in DOMAIN DefaultNames : rec(i) \in Recipe /\ rec(i).id = i - 1
  BY <1>2 DEF Recipe
<1>5. \A i, j \in DOMAIN DefaultNames : i - 1 = j - 1 => i = j
  BY <1>1
<1> HIDE DEF rec
<1>6. Defaults \subseteq Recipe
  BY <1>3, <1>4
<1>7. Unique(Defaults)
  BY <1>3, <1>4, <1>5 DEF Unique
<1>8. \A r \in Defaults : r.id <= Len(DefaultNames)
  BY <1>2, <1>3, <1>4
<1> QED BY <1>1, <1>6, <1>7, <1>8 DEF GoodBook, Bounded

LEMMA EmptyBookGood == GoodBook({})
<1>1. 0 \in Nat
  OBVIOUS
<1> QED BY <1>1 DEF GoodBook, Unique, Bounded

LEMMA MessageGood ==
  ASSUME NEW R, GoodBook(R), NEW p \in Peer \cup Local
  PROVE  GoodAnswer(Message(p, R))
<1>1. public(R) \subseteq R
  BY DEF public
<1>2. GoodBook(public(R))
  BY <1>1, SubsetGood
<1>3. Message(p, R) \in Answer /\ Message(p, R).data = public(R)
  BY <1>2 DEF Message, Answer, GoodBook
<1> QED BY <1>2, <1>3 DEF GoodAnswer

-----------------------------------------------------------------------------
(* Bags and queues *)

LEMMA EmptyBagIsBag == IsABag(EmptyBag) /\ BagToSet(EmptyBag) = {}
BY DEF IsABag, EmptyBag, SetToBag, BagToSet

LEMMA BagGrows ==
  ASSUME NEW B, IsABag(B), NEW x
  PROVE  IsABag(B (+) SetToBag({x})) /\ BagToSet(B (+) SetToBag({x})) = BagToSet(B) \cup {x}
<1> DEFINE D == SetToBag({x})
           Pos == {n \in Nat : n > 0}
<1>1. DOMAIN D = {x} /\ D[x] = 1
  BY DEF SetToBag
<1>2. \A e \in DOMAIN B : B[e] \in Nat /\ B[e] > 0
  BY DEF IsABag
<1>3. \A e \in DOMAIN B \cup DOMAIN D :
        (IF e \in DOMAIN B THEN B[e] ELSE 0) + (IF e \in DOMAIN D THEN D[e] ELSE 0) \in Pos
  <2> HIDE DEF D
  <2> QED BY <1>1, <1>2
<1> HIDE DEF D, Pos
<1>4. DOMAIN (B (+) D) = DOMAIN B \cup DOMAIN D /\ B (+) D \in [DOMAIN B \cup DOMAIN D -> Pos]
  BY <1>3 DEF (+)
<1> QED BY <1>1, <1>4 DEF IsABag, BagToSet, D, Pos

LEMMA BagShrinks ==
  ASSUME NEW B, IsABag(B), NEW x
  PROVE  IsABag(B (-) SetToBag({x})) /\ BagToSet(B (-) SetToBag({x})) \subseteq BagToSet(B)
<1> DEFINE D == SetToBag({x})
           Pos == {n \in Nat : n > 0}
           L == [e \in DOMAIN B |-> IF e \in DOMAIN D THEN B[e] - D[e] ELSE B[e]]
           P == {d \in DOMAIN L : L[d] > 0}
<1>1. DOMAIN D = {x} /\ D[x] = 1
  BY DEF SetToBag
<1>2. \A e \in DOMAIN B : B[e] \in Nat /\ B[e] > 0
  BY DEF IsABag
<1> HIDE DEF D
<1>3. DOMAIN L = DOMAIN B /\ \A e \in DOMAIN B : L[e] \in Int
  BY <1>1, <1>2
<1>4. B (-) D = [e \in P |-> L[e]]
  BY DEF (-)
<1> HIDE DEF L
<1>5. P \subseteq DOMAIN B /\ \A e \in P : L[e] \in Pos
  BY <1>3
<1> HIDE DEF P, Pos
<1>6. DOMAIN (B (-) D) = P /\ B (-) D \in [P -> Pos]
  BY <1>4, <1>5
<1> QED BY <1>5, <1>6 DEF IsABag, BagToSet, D, Pos

LEMMA QueueGrows ==
  ASSUME NEW s, GoodQueue(s), NEW m, GoodAnswer(m)
  PROVE  GoodQueue(Append(s, m))
BY DEF GoodQueue, GoodAnswer

LEMMA QueueShrinks ==
  ASSUME NEW s, GoodQueue(s), s # <<>>
  PROVE  GoodQueue(Tail(s)) /\ GoodAnswer(Head(s))
<1>1. \A i \in DOMAIN Tail(s) : i + 1 \in DOMAIN s /\ Tail(s)[i] = s[i + 1]
  BY DEF GoodQueue
<1>2. Tail(s) \in Seq(Answer) /\ Head(s) = s[1] /\ 1 \in DOMAIN s
  BY DEF GoodQueue
<1> QED BY <1>1, <1>2 DEF GoodQueue

-----------------------------------------------------------------------------
(* The inductive invariant *)

LEMMA InitGood == Init => IndInv
<1> SUFFICES ASSUME Init PROVE IndInv
  OBVIOUS
<1>1. TypeOK
  <2>1. Absent \in File /\ User \in Id
    BY DEF File, Absent, Id
  <2>2. disk \in [Id -> File] /\ \A i \in Id : disk[i].recipes = {}
    BY <2>1 DEF Init, Absent
  <2>3. starts \in 0..MaxStarts /\ commands \in 0..MaxCommands /\ requests \in 0..MaxRequests
    BY RecipeBoundAssumption DEF Init
  <2>4. <<>> \in Seq(Answer)
    OBVIOUS
  <2>5. pc \in Main \cup Down
    BY DEF Init, Down
  <2> QED
    BY <2>1, <2>2, <2>3, <2>4, <2>5, EmptyBagIsBag DEF Init, TypeOK
<1>2. OneWriter
  BY DEF Init, OneWriter
<1>3. Files
  <2>1. \A i \in Id : disk[i] = Absent
    BY DEF Init
  <2>2. User \in Id /\ id <= starts
    BY DEF Id, Init, User
  <2> QED BY <2>1, <2>2 DEF Init, Files
<1>4. Books
  BY EmptyBagIsBag, EmptyBookGood DEF Init, Books, GoodQueue, Absent
<1> QED BY <1>1, <1>2, <1>3, <1>4 DEF IndInv

\* A start touches neither stores nor answers.
LEMMA StartGood ==
  ASSUME IndInv, NEW why, Start(why), cred' \in {"absent", "torn", "key"},
         why \in {"defaults", "new_key", "idle", "key_panic"}, id' \in Id
  PROVE  TypeOK' /\ OneWriter' /\ Books'
<1>1. starts' \in 0..MaxStarts
  BY RecipeBoundAssumption DEF IndInv, TypeOK, Start
<1>2. TypeOK'
  BY <1>1 DEF IndInv, TypeOK, Start, channels, Main, Down
<1>3. OneWriter'
  BY DEF Start, OneWriter
<1>4. Books'
  BY DEF IndInv, Books, Start, channels
<1> QED BY <1>2, <1>3, <1>4

LEMMA StartAnonymousGood == IndInv /\ StartAnonymous => IndInv'
<1> SUFFICES ASSUME IndInv, StartAnonymous PROVE IndInv'
  OBVIOUS
<1>1. starts \in Nat /\ starts < MaxStarts
  BY RecipeBoundAssumption DEF IndInv, TypeOK, StartAnonymous, Start
<1>2. id' \in Id /\ id' = starts + 1 /\ id' # User
  BY <1>1, RecipeBoundAssumption DEF StartAnonymous, Id, Anonymous, User
<1>3. TypeOK' /\ OneWriter' /\ Books'
  BY <1>2, StartGood DEF StartAnonymous, IndInv, TypeOK
<1>4. \A i \in Id : i \in Int
  BY RecipeBoundAssumption DEF Id, Anonymous, User
<1>5. Files'
  BY <1>1, <1>2, <1>4 DEF IndInv, Files, StartAnonymous, Start, Down
<1> QED BY <1>3, <1>5 DEF IndInv

LEMMA StartKnownGood == IndInv /\ StartKnown => IndInv'
<1> SUFFICES ASSUME IndInv, StartKnown PROVE IndInv'
  OBVIOUS
<1>1. id' \in Id /\ id' = User /\ starts \in Nat /\ starts' = starts + 1
  BY RecipeBoundAssumption DEF StartKnown, Start, Id, IndInv, TypeOK
<1>2. TypeOK' /\ OneWriter' /\ Books'
  BY <1>1, StartGood DEF StartKnown, IndInv, TypeOK
<1>3. \A i \in Id : i \in Int
  BY RecipeBoundAssumption DEF Id, Anonymous, User
<1>4. Files'
  BY <1>1, <1>3 DEF IndInv, Files, StartKnown, Start, Down, User
<1> QED BY <1>2, <1>4 DEF IndInv

LEMMA StartNewGood == IndInv /\ StartNew => IndInv'
<1> SUFFICES ASSUME IndInv, StartNew PROVE IndInv'
  OBVIOUS
<1>1. id' \in Id /\ id' = User /\ starts \in Nat /\ starts' = starts + 1
  BY RecipeBoundAssumption DEF StartNew, Start, Id, IndInv, TypeOK
<1>2. TypeOK' /\ OneWriter' /\ Books'
  BY <1>1, StartGood DEF StartNew
<1>3. \A i \in Id : i \in Int
  BY RecipeBoundAssumption DEF Id, Anonymous, User
<1>4. Files'
  BY <1>1, <1>3 DEF IndInv, Files, StartNew, Start, Down, User
<1> QED BY <1>2, <1>4 DEF IndInv

LEMMA SaveKeyGood == IndInv /\ SaveKey => IndInv'
<1> SUFFICES ASSUME IndInv, SaveKey PROVE IndInv'
  OBVIOUS
<1> USE DEF SaveKey, channels, counters
<1>1. TypeOK'
  BY DEF IndInv, TypeOK, Main
<1>2. OneWriter'
  BY DEF OneWriter
<1>3. Files'
  BY DEF IndInv, Files
<1>4. Books'
  BY DEF IndInv, Books
<1> QED BY <1>1, <1>2, <1>3, <1>4 DEF IndInv

\* The steps that write a file: the store of the running identity becomes f.
LEMMA FileWritten ==
  ASSUME IndInv, NEW f \in File, GoodBook(f.recipes), f.st # "whole" => f.recipes = {},
         disk' = [disk EXCEPT ![id] = f]
  PROVE  /\ disk' \in [Id -> File] /\ disk'[id] = f
         /\ \A i \in Id : i # id => disk'[i] = disk[i]
         /\ \A i \in Id : disk'[i].st # "whole" => disk'[i].recipes = {}
         /\ \A i \in Id : GoodBook(disk'[i].recipes)
<1>1. disk \in [Id -> File] /\ id \in Id
  BY DEF IndInv, TypeOK
<1>2. disk' \in [Id -> File] /\ disk'[id] = f /\ \A i \in Id : i # id => disk'[i] = disk[i]
  BY <1>1
<1> QED BY <1>2 DEF IndInv, TypeOK, Books

\* What the files are once the process has written its own.
LEMMA FilesWritten ==
  ASSUME IndInv, id' = id, cred' = cred, starts' = starts,
         id = User => cred = "key",
         \A i \in Id : i # id => disk'[i] = disk[i]
  PROVE  /\ \A i \in Id : i > starts' => disk'[i] = Absent
         /\ id' <= starts'
         /\ cred' # "key" => disk'[User] = Absent
<1>1. \A i \in Id : i \in Int
  BY RecipeBoundAssumption DEF Id, Anonymous, User
<1>2. id \in Id /\ User \in Id /\ starts \in Int /\ id <= starts
  BY RecipeBoundAssumption DEF Id, IndInv, TypeOK, Files
<1> QED BY <1>1, <1>2 DEF IndInv, Files

LEMMA CreateDefaultRecipesGood == IndInv /\ CreateDefaultRecipes => IndInv'
<1> SUFFICES ASSUME IndInv, CreateDefaultRecipes PROVE IndInv'
  OBVIOUS
<1>1. Torn \in File /\ GoodBook(Torn.recipes) /\ Torn.st = "torn" /\ Torn.recipes = {}
  BY EmptyBookGood DEF Torn, File
<1>2. disk[id] = Absent /\ pc = "defaults" /\ (id = User => cred = "key")
  BY DEF CreateDefaultRecipes, IndInv, Files
<1>3. disk' = [disk EXCEPT ![id] = Torn]
  BY <1>2 DEF CreateDefaultRecipes
<1>4. /\ disk' \in [Id -> File] /\ disk'[id] = Torn
      /\ \A i \in Id : i # id => disk'[i] = disk[i]
      /\ \A i \in Id : disk'[i].st # "whole" => disk'[i].recipes = {}
      /\ \A i \in Id : GoodBook(disk'[i].recipes)
  BY <1>1, <1>3, FileWritten
<1> USE DEF CreateDefaultRecipes, channels, counters
<1>5. TypeOK'
  BY <1>4 DEF IndInv, TypeOK, Main
<1>6. OneWriter'
  BY DEF OneWriter
<1>7. Files'
  BY <1>1, <1>2, <1>4, FilesWritten DEF Files
<1>8. Books'
  BY <1>4 DEF IndInv, Books
<1> QED BY <1>5, <1>6, <1>7, <1>8 DEF IndInv

LEMMA FlushGood == IndInv /\ Flush => IndInv'
<1> SUFFICES ASSUME IndInv, Flush PROVE IndInv'
  OBVIOUS
<1> DEFINE f == IF disk[id] = Absent THEN Absent ELSE Whole(Defaults)
<1>1. f \in File /\ GoodBook(f.recipes) /\ (f.st # "whole" => f.recipes = {})
  BY EmptyBookGood, DefaultsGood DEF Absent, Whole, File, GoodBook
<1>2. pc \in {"idle", "broadcast", "exit"} /\ (id = User => cred = "key") /\ flushing
  BY DEF Flush, IndInv, Files
<1>3. disk' = [disk EXCEPT ![id] = f]
  BY DEF Flush, IndInv, TypeOK
<1> HIDE DEF f
<1>4. /\ disk' \in [Id -> File] /\ disk'[id] = f
      /\ \A i \in Id : i # id => disk'[i] = disk[i]
      /\ \A i \in Id : disk'[i].st # "whole" => disk'[i].recipes = {}
      /\ \A i \in Id : GoodBook(disk'[i].recipes)
  BY <1>1, <1>3, FileWritten
<1> USE DEF Flush, channels, counters
<1>5. TypeOK'
  BY <1>4 DEF IndInv, TypeOK, Main
<1>6. OneWriter'
  BY <1>2 DEF OneWriter
<1>7. Files'
  BY <1>2, <1>4, FilesWritten DEF Files
<1>8. Books'
  BY <1>4 DEF IndInv, Books
<1> QED BY <1>5, <1>6, <1>7, <1>8 DEF IndInv

\* A command's copy of the store is a good book, and no write is under way.
LEMMA CommandGood ==
  ASSUME IndInv, NEW R, GoodBook(disk[id].recipes) => GoodBook(R), Command(R)
  PROVE  IndInv'
<1>1. id \in Id /\ GoodBook(disk[id].recipes)
  BY DEF IndInv, TypeOK, Books
<1>2. GoodBook(R) /\ R \subseteq Recipe
  BY <1>1 DEF GoodBook
<1>3. commands' \in 0..MaxCommands
  BY RecipeBoundAssumption DEF IndInv, TypeOK, Command, Typed
<1> USE DEF Command, Typed, file, channels
<1>4. TypeOK'
  BY <1>2, <1>3 DEF IndInv, TypeOK, Main
<1>5. OneWriter'
  BY DEF IndInv, OneWriter, Files, Readable
<1>6. Files'
  BY DEF IndInv, Files, Readable
<1>7. Books'
  BY <1>2 DEF IndInv, Books
<1> QED BY <1>4, <1>5, <1>6, <1>7 DEF IndInv

LEMMA TruncateGood == IndInv /\ Truncate => IndInv'
<1> SUFFICES ASSUME IndInv, Truncate PROVE IndInv'
  OBVIOUS
<1>1. Torn \in File /\ GoodBook(Torn.recipes) /\ Torn.st = "torn" /\ Torn.recipes = {}
  BY EmptyBookGood DEF Torn, File
<1>2. pc = "write" /\ ~ flushing /\ (id = User => cred = "key")
  BY DEF Truncate, IndInv, Files, OneWriter
<1>3. /\ disk' \in [Id -> File] /\ disk'[id] = Torn
      /\ \A i \in Id : i # id => disk'[i] = disk[i]
      /\ \A i \in Id : disk'[i].st # "whole" => disk'[i].recipes = {}
      /\ \A i \in Id : GoodBook(disk'[i].recipes)
  BY <1>1, FileWritten DEF Truncate
<1> USE DEF Truncate, channels, counters
<1>4. TypeOK'
  BY <1>3 DEF IndInv, TypeOK, Main
<1>5. OneWriter'
  BY <1>2, <1>3 DEF OneWriter
<1>6. Files'
  BY <1>2, <1>3, FilesWritten DEF Files
<1>7. Books'
  BY <1>3 DEF IndInv, Books
<1> QED BY <1>4, <1>5, <1>6, <1>7 DEF IndInv

LEMMA WriteGood == IndInv /\ Write => IndInv'
<1> SUFFICES ASSUME IndInv, Write PROVE IndInv'
  OBVIOUS
<1> DEFINE f == Whole(local_recipes)
<1>1. f \in File /\ GoodBook(f.recipes) /\ (f.st # "whole" => f.recipes = {})
  BY DEF Whole, File, IndInv, TypeOK, Books
<1>2. pc = "truncated" /\ ~ flushing /\ (id = User => cred = "key")
  BY DEF Write, IndInv, Files, OneWriter
<1>3. /\ disk' \in [Id -> File] /\ disk'[id] = f
      /\ \A i \in Id : i # id => disk'[i] = disk[i]
      /\ \A i \in Id : disk'[i].st # "whole" => disk'[i].recipes = {}
      /\ \A i \in Id : GoodBook(disk'[i].recipes)
  <2> HIDE DEF f
  <2>1. disk' = [disk EXCEPT ![id] = f]
    BY DEF Write, f
  <2> QED BY <1>1, <2>1, FileWritten
<1> HIDE DEF f
<1> USE DEF Write, channels, counters
<1>4. TypeOK'
  BY <1>3 DEF IndInv, TypeOK, Main
<1>5. OneWriter'
  BY DEF OneWriter
<1>6. Files'
  BY <1>2, <1>3, FilesWritten DEF Files
<1>7. Books'
  BY <1>3, EmptyBookGood DEF IndInv, Books
<1> QED BY <1>4, <1>5, <1>6, <1>7 DEF IndInv

\* Requests, answers and broadcasts leave the files alone; answers come from
\* good books.
LEMMA RequestGood ==
  ASSUME IndInv, NEW p \in Peer, NEW mode, Request(p, mode)
  PROVE  IndInv'
<1> USE DEF Request, file
<1>1. requests' \in 0..MaxRequests
  BY RecipeBoundAssumption DEF IndInv, TypeOK
<1>2. IsABag(responders') /\ BagToSet(responders') \subseteq Peer
  <2>1. IsABag(responders) /\ BagToSet(responders) \subseteq Peer
    BY DEF IndInv, TypeOK
  <2>2. /\ IsABag(responders (+) SetToBag({p}))
        /\ BagToSet(responders (+) SetToBag({p})) = BagToSet(responders) \cup {p}
    BY <2>1, BagGrows
  <2> QED BY <2>1, <2>2
<1>3. TypeOK'
  BY <1>1, <1>2 DEF IndInv, TypeOK
<1>4. OneWriter' /\ Files' /\ Books'
  BY DEF IndInv, OneWriter, Files, Books
<1> QED BY <1>3, <1>4 DEF IndInv

LEMMA StoreAnswers ==
  ASSUME IndInv, NEW p \in Peer \cup Local
  PROVE  GoodAnswer(Message(p, disk[id].recipes))
BY MessageGood DEF IndInv, TypeOK, Books

LEMMA respondGood ==
  ASSUME IndInv, NEW p \in Peer, respond(p)
  PROVE  IndInv'
<1> USE DEF respond, file, counters
<1>1. GoodQueue(response_rcv')
  BY StoreAnswers, QueueGrows DEF IndInv, Books
<1>2. IsABag(responders') /\ BagToSet(responders') \subseteq Peer
  BY BagShrinks DEF IndInv, TypeOK
<1>3. TypeOK'
  BY <1>1, <1>2 DEF IndInv, TypeOK, GoodQueue
<1>4. OneWriter' /\ Files' /\ Books'
  BY <1>1 DEF IndInv, OneWriter, Files, Books
<1> QED BY <1>3, <1>4 DEF IndInv

\* An answer taken from a channel and published.
LEMMA PublishedBag ==
  ASSUME IndInv, NEW m, GoodAnswer(m), published' = published (+) SetToBag({m})
  PROVE  /\ IsABag(published') /\ BagToSet(published') \subseteq Answer
         /\ \A a \in BagToSet(published') : GoodAnswer(a)
<1>1. IsABag(published) /\ BagToSet(published) \subseteq Answer
  BY DEF IndInv, TypeOK
<1>2. IsABag(published') /\ BagToSet(published') = BagToSet(published) \cup {m}
  BY <1>1, BagGrows
<1>3. m \in Answer /\ \A a \in BagToSet(published) : GoodAnswer(a)
  BY DEF IndInv, Books, GoodAnswer
<1> QED BY <1>1, <1>2, <1>3

LEMMA PublishResponseGood == IndInv /\ PublishResponse => IndInv'
<1> SUFFICES ASSUME IndInv, PublishResponse PROVE IndInv'
  OBVIOUS
<1> USE DEF PublishResponse, file, counters
<1>1. GoodQueue(response_rcv') /\ GoodAnswer(Head(response_rcv))
  BY QueueShrinks DEF IndInv, Books
<1>2. /\ IsABag(published') /\ BagToSet(published') \subseteq Answer
      /\ \A a \in BagToSet(published') : GoodAnswer(a)
  BY <1>1, PublishedBag
<1>3. TypeOK'
  BY <1>1, <1>2 DEF IndInv, TypeOK, GoodQueue
<1>4. OneWriter' /\ Files' /\ Books'
  BY <1>1, <1>2 DEF IndInv, OneWriter, Files, Books
<1> QED BY <1>3, <1>4 DEF IndInv

LEMMA PublishBroadcastGood == IndInv /\ PublishBroadcast => IndInv'
<1> SUFFICES ASSUME IndInv, PublishBroadcast PROVE IndInv'
  OBVIOUS
<1> USE DEF PublishBroadcast, file, counters
<1>1. GoodQueue(broadcast_rcv') /\ GoodAnswer(Head(broadcast_rcv))
  BY QueueShrinks DEF IndInv, Books
<1>2. /\ IsABag(published') /\ BagToSet(published') \subseteq Answer
      /\ \A a \in BagToSet(published') : GoodAnswer(a)
  BY <1>1, PublishedBag
<1>3. TypeOK'
  BY <1>1, <1>2 DEF IndInv, TypeOK, GoodQueue
<1>4. OneWriter' /\ Files' /\ Books'
  BY <1>1, <1>2 DEF IndInv, OneWriter, Files, Books
<1> QED BY <1>3, <1>4 DEF IndInv

LEMMA BroadcastRecipesGood == IndInv /\ BroadcastRecipes => IndInv'
<1> SUFFICES ASSUME IndInv, BroadcastRecipes PROVE IndInv'
  OBVIOUS
<1> USE DEF BroadcastRecipes, file, channels
<1>1. commands' \in 0..MaxCommands
  BY RecipeBoundAssumption DEF IndInv, TypeOK
<1>2. TypeOK'
  BY <1>1 DEF IndInv, TypeOK, Main
<1>3. OneWriter' /\ Files' /\ Books'
  BY DEF IndInv, OneWriter, Files, Books
<1> QED BY <1>2, <1>3 DEF IndInv

LEMMA broadcast_recipeGood ==
  ASSUME IndInv, NEW p \in Local, broadcast_recipe(p)
  PROVE  IndInv'
<1> USE DEF broadcast_recipe, file, counters
<1>1. GoodQueue(broadcast_rcv')
  BY StoreAnswers, QueueGrows DEF IndInv, Books
<1>2. TypeOK'
  BY <1>1 DEF IndInv, TypeOK, GoodQueue
<1>3. OneWriter' /\ Files' /\ Books'
  BY <1>1 DEF IndInv, OneWriter, Files, Books
<1> QED BY <1>2, <1>3 DEF IndInv

\* Back to the loop after a "b r", or on to the exit.
LEMMA MovesOnGood == IndInv /\ (Broadcasted \/ Exit) => IndInv'
<1> SUFFICES ASSUME IndInv, Broadcasted \/ Exit PROVE IndInv'
  OBVIOUS
<1> USE DEF Broadcasted, Exit, file, channels, counters
<1>1. TypeOK'
  BY DEF IndInv, TypeOK, Main
<1>2. OneWriter' /\ Files' /\ Books'
  BY DEF IndInv, OneWriter, Files, Books
<1> QED BY <1>1, <1>2 DEF IndInv

LEMMA RemoveDataGood == IndInv /\ RemoveData => IndInv'
<1> SUFFICES ASSUME IndInv, RemoveData PROVE IndInv'
  OBVIOUS
<1> USE DEF RemoveData, channels, counters
<1>1. Absent \in File /\ GoodBook(Absent.recipes) /\ Absent.st = "absent" /\ Absent.recipes = {}
  BY EmptyBookGood DEF Absent, File
<1>2. /\ disk' \in [Id -> File] /\ disk'[id] = Absent
      /\ \A i \in Id : i # id => disk'[i] = disk[i]
      /\ \A i \in Id : disk'[i].st # "whole" => disk'[i].recipes = {}
      /\ \A i \in Id : GoodBook(disk'[i].recipes)
  BY <1>1, FileWritten
<1>3. TypeOK'
  BY <1>2 DEF IndInv, TypeOK
<1>4. OneWriter'
  BY DEF OneWriter
<1>5. Files'
  BY <1>1, <1>2, FilesWritten DEF IndInv, Files
<1>6. Books'
  BY <1>2 DEF IndInv, Books
<1> QED BY <1>3, <1>4, <1>5, <1>6 DEF IndInv

\* An ended process leaves the files as they are, and no task.
LEMMA EndGood == IndInv /\ (Exited \/ Crash \/ BroadcastPanic) => IndInv'
<1> SUFFICES ASSUME IndInv, Exited \/ Crash \/ BroadcastPanic PROVE IndInv'
  OBVIOUS
<1>1. /\ pc' \in Down /\ ~ flushing'
      /\ local_recipes' = {} /\ receivers' = {}
      /\ responders' = EmptyBag /\ response_rcv' = <<>> /\ broadcast_rcv' = <<>>
      /\ UNCHANGED <<cred, published, starts, commands, requests, id, disk>>
  BY DEF Exited, Crash, BroadcastPanic, End, Down, counters
<1>2. GoodQueue(<<>>)
  BY DEF GoodQueue
<1>3. TypeOK'
  <2>1. <<>> \in Seq(Answer)
    OBVIOUS
  <2>2. IsABag(responders') /\ BagToSet(responders') \subseteq Peer
    BY <1>1, EmptyBagIsBag
  <2>3. pc' \in Main \cup Down /\ flushing' \in BOOLEAN
    BY <1>1, Zenon DEF Exited, Crash, BroadcastPanic, End
  <2> QED BY <1>1, <2>1, <2>2, <2>3 DEF IndInv, TypeOK
<1>4. OneWriter'
  BY <1>1 DEF OneWriter, Down
<1>5. Files'
  BY <1>1 DEF IndInv, Files, Down
<1>6. Books'
  BY <1>1, <1>2, EmptyBookGood DEF IndInv, Books
<1> QED BY <1>3, <1>4, <1>5, <1>6 DEF IndInv

LEMMA StutterGood == IndInv /\ UNCHANGED vars => IndInv'
BY DEF IndInv, TypeOK, OneWriter, Files, Books, vars

LEMMA StepGood == IndInv /\ [Next]_vars => IndInv'
<1> SUFFICES ASSUME IndInv, [Next]_vars PROVE IndInv'
  OBVIOUS
<1>1. CASE MainTask
  BY <1>1, SaveKeyGood, CreateDefaultRecipesGood, TruncateGood, WriteGood,
     broadcast_recipeGood, MovesOnGood, EndGood, PublishResponseGood,
     PublishBroadcastGood, RemoveDataGood DEF MainTask
<1>2. CASE Operator
  <2>1. ASSUME NEW nm \in Name, CreateRecipe(nm) PROVE IndInv'
    BY <2>1, CommandGood, CreatedGood DEF CreateRecipe
  <2>2. ASSUME NEW i, DeleteRecipe(i) PROVE IndInv'
    BY <2>2, CommandGood, DeletedGood DEF DeleteRecipe
  <2>3. ASSUME NEW i, PublishRecipe(i) PROVE IndInv'
    BY <2>3, CommandGood, PublishedGood DEF PublishRecipe
  <2> QED
    BY <1>2, <2>1, <2>2, <2>3, StartAnonymousGood, StartKnownGood, StartNewGood,
       MovesOnGood, BroadcastRecipesGood DEF Operator
<1>3. CASE Flush
  BY <1>3, FlushGood
<1>4. CASE Crash
  BY <1>4, EndGood
<1>5. CASE \E p \in Peer : \/ respond(p)
                           \/ \E mode \in {Id, {id}, Id \ {id}} : Request(p, mode)
  BY <1>5, respondGood, RequestGood
<1>6. CASE UNCHANGED vars
  BY <1>6, StutterGood
<1> QED BY <1>1, <1>2, <1>3, <1>4, <1>5, <1>6 DEF Next

-----------------------------------------------------------------------------
(* Theorems *)

THEOREM Invariance == Spec => []IndInv
<1> QED BY InitGood, StepGood, PTL DEF Spec

\* The state of the store has its shape, in every run.
THEOREM TypeCorrect == Spec => []TypeOK
<1>1. IndInv => TypeOK
  BY DEF IndInv
<1> QED BY <1>1, Invariance, PTL

\* No command rewrites the store from a copy that something else has overtaken:
\* from read to write the main task is its only writer.
THEOREM OneWriterAlways == Spec => []OneWriter
<1>1. IndInv => OneWriter
  BY DEF IndInv
<1> QED BY <1>1, Invariance, PTL

\* Ids stay unique in the stores, in the commands' copies and in the answers,
\* whatever is created, deleted, published, interrupted and restarted.
THEOREM IdsStayUnique == Spec => []UniqueIds
<1>1. IndInv => UniqueIds
  BY DEF IndInv, Books, UniqueIds, GoodBook, GoodAnswer
<1> QED BY <1>1, Invariance, PTL
=============================================================================
