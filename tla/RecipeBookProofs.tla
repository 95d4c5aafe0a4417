-------------------------- MODULE RecipeBookProofs --------------------------
(***************************************************************************)
(* RecipeStore implements RecipeBook, for any default recipes, any peers   *)
(* and any number of starts, commands and requests: every step of the      *)
(* store is a step of the book, or leaves the book as it is.  To the       *)
(* invariant of RecipeStoreProofs this adds what a command is about to     *)
(* write, and that an ended process leaves no tasks and no messages.       *)
(***************************************************************************)
EXTENDS RecipeStoreProofs, FiniteSetTheorems

(* Bags *)

Copies(B, x) == IF x \in DOMAIN B THEN B[x] ELSE 0

LEMMA PlusCopies ==
  ASSUME NEW B, IsABag(B), NEW C, IsABag(C)
  PROVE  /\ IsABag(B (+) C) /\ DOMAIN (B (+) C) = DOMAIN B \cup DOMAIN C
         /\ \A x : Copies(B (+) C, x) = Copies(B, x) + Copies(C, x)
<1> DEFINE Pos == {n \in Nat : n > 0}
           U == DOMAIN B \cup DOMAIN C
<1>1. /\ \A e \in DOMAIN B : B[e] \in Nat /\ B[e] > 0
      /\ \A e \in DOMAIN C : C[e] \in Nat /\ C[e] > 0
  BY DEF IsABag
<1>2. \A e \in U : Copies(B, e) + Copies(C, e) \in Pos
  BY <1>1 DEF Copies
<1>3. B (+) C = [e \in U |-> Copies(B, e) + Copies(C, e)]
  BY DEF (+), Copies
<1>4. DOMAIN (B (+) C) = U /\ B (+) C \in [U -> Pos]
  <2> HIDE DEF Pos, U
  <2> QED BY <1>2, <1>3
<1>5. \A x : Copies(B (+) C, x) = Copies(B, x) + Copies(C, x)
  BY <1>3, <1>4 DEF Copies
<1> QED BY <1>4, <1>5 DEF IsABag

\* Bags with the same copies of everything are the same.
LEMMA SameBag ==
  ASSUME NEW B, IsABag(B), NEW C, IsABag(C), \A x : Copies(B, x) = Copies(C, x)
  PROVE  B = C
<1>1. /\ \A e \in DOMAIN B : B[e] \in Nat /\ B[e] > 0
      /\ \A e \in DOMAIN C : C[e] \in Nat /\ C[e] > 0
  BY DEF IsABag
<1>2. DOMAIN B = DOMAIN C
  BY <1>1 DEF Copies
<1>3. \A e \in DOMAIN B : B[e] = C[e]
  BY <1>2 DEF Copies
<1> QED BY <1>2, <1>3 DEF IsABag

LEMMA CopiesNat == \A B : IsABag(B) => \A x : Copies(B, x) \in Nat
BY DEF IsABag, Copies

LEMMA SingleCopies ==
  ASSUME NEW m
  PROVE  /\ IsABag(SetToBag({m}))
         /\ \A x : Copies(SetToBag({m}), x) = IF x = m THEN 1 ELSE 0
BY DEF IsABag, SetToBag, Copies

-----------------------------------------------------------------------------
(* The messages that wait in a channel, as a bag *)

At(q, x) == {i \in DOMAIN q : q[i] = x}

LEMMA QueuedCopies ==
  ASSUME NEW T, NEW q \in Seq(T)
  PROVE  /\ IsABag(Queued(q))
         /\ \A x : IsFiniteSet(At(q, x)) /\ Copies(Queued(q), x) = Cardinality(At(q, x))
<1>1. DOMAIN q = 1..Len(q) /\ IsFiniteSet(DOMAIN q)
  BY FS_Interval
<1>2. \A x : At(q, x) \in SUBSET (DOMAIN q)
  BY DEF At
<1>3. \A x : IsFiniteSet(At(q, x)) /\ Cardinality(At(q, x)) \in Nat
  BY <1>1, <1>2, FS_Subset, FS_CardinalityType
<1>4. \A x : Cardinality(At(q, x)) = 0 <=> At(q, x) = {}
  BY <1>3, FS_EmptySet
<1> DEFINE D == {q[i] : i \in DOMAIN q}
<1>5. Queued(q) = [m \in D |-> Cardinality(At(q, m))]
  BY DEF Queued, At
<1>6. \A x : x \in D <=> At(q, x) # {}
  BY DEF At
<1> HIDE DEF D
<1>7. \A x \in D : Cardinality(At(q, x)) \in {n \in Nat : n > 0}
  BY <1>3, <1>4, <1>6
<1>8. DOMAIN Queued(q) = D /\ Queued(q) \in [D -> {n \in Nat : n > 0}]
  BY <1>5, <1>7
<1>9. \A x : Copies(Queued(q), x) = Cardinality(At(q, x))
  BY <1>4, <1>5, <1>6, <1>8 DEF Copies
<1> QED BY <1>3, <1>8, <1>9 DEF IsABag

LEMMA QueuedAppend ==
  ASSUME NEW T, NEW q \in Seq(T), NEW m \in T
  PROVE  Queued(Append(q, m)) = Queued(q) (+) SetToBag({m})
<1> DEFINE r == Append(q, m)
           n == Len(q) + 1
<1>1. r \in Seq(T) /\ DOMAIN r = DOMAIN q \cup {n} /\ n \notin DOMAIN q
      /\ r[n] = m /\ \A i \in DOMAIN q : r[i] = q[i]
  OBVIOUS
<1>2. \A x : At(r, x) = IF x = m THEN At(q, x) \cup {n} ELSE At(q, x)
  <2> HIDE DEF r, n
  <2> QED BY <1>1 DEF At
<1>3. \A x : n \notin At(q, x)
  BY <1>1 DEF At
<1> HIDE DEF r, n
<1>4. \A x : Copies(Queued(r), x) = Copies(Queued(q), x) + Copies(SetToBag({m}), x)
  <2> TAKE x
  <2>1. /\ Copies(Queued(r), x) = Cardinality(At(r, x))
        /\ Copies(Queued(q), x) = Cardinality(At(q, x)) /\ IsFiniteSet(At(q, x))
        /\ IsABag(Queued(q))
    BY <1>1, QueuedCopies
  <2>2. Cardinality(At(q, x)) \in Nat
    BY <2>1, FS_CardinalityType
  <2>3. Cardinality(At(q, x) \cup {n}) = Cardinality(At(q, x)) + 1
    BY <1>3, <2>1, FS_AddElement
  <2>4. Copies(SetToBag({m}), x) = IF x = m THEN 1 ELSE 0
    BY SingleCopies
  <2>5. CASE x = m
    BY <1>2, <2>1, <2>2, <2>3, <2>4, <2>5
  <2>6. CASE x # m
    BY <1>2, <2>1, <2>2, <2>4, <2>6
  <2> QED BY <2>5, <2>6
<1>5. IsABag(Queued(r)) /\ IsABag(Queued(q)) /\ IsABag(SetToBag({m}))
  BY <1>1, QueuedCopies, SingleCopies
<1>6. Queued(r) = Queued(q) (+) SetToBag({m})
  <2> DEFINE B == Queued(r)
             C == Queued(q) (+) SetToBag({m})
  <2>1. IsABag(C) /\ \A x : Copies(C, x) = Copies(Queued(q), x) + Copies(SetToBag({m}), x)
    BY <1>5, PlusCopies
  <2>2. IsABag(B) /\ \A x : Copies(B, x) = Copies(C, x)
    BY <1>4, <1>5, <2>1
  <2> HIDE DEF B, C
  <2>3. B = C
    BY <2>1, <2>2, SameBag
  <2> QED BY <2>3 DEF B, C
<1> QED BY <1>6 DEF r

LEMMA QueuedTail ==
  ASSUME NEW T, NEW q \in Seq(T), q # <<>>
  PROVE  Queued(q) = Queued(Tail(q)) (+) SetToBag({Head(q)})
<1> DEFINE t == Tail(q)
           h == Head(q)
<1>1. t \in Seq(T) /\ h \in T /\ h = q[1] /\ 1 \in DOMAIN q
      /\ DOMAIN q = 1..Len(q) /\ DOMAIN t = 1..(Len(q) - 1) /\ Len(q) \in Nat \ {0}
      /\ \A i \in DOMAIN t : t[i] = q[i + 1]
  OBVIOUS
<1> HIDE DEF t, h
<1>2. \A x : Copies(Queued(q), x) = Copies(Queued(t), x) + Copies(SetToBag({h}), x)
  <2> TAKE x
  <2> DEFINE S == At(q, x) \ {1}
  <2>1. /\ Copies(Queued(q), x) = Cardinality(At(q, x)) /\ IsFiniteSet(At(q, x))
        /\ Copies(Queued(t), x) = Cardinality(At(t, x)) /\ IsFiniteSet(At(t, x))
    BY <1>1, QueuedCopies
  <2>2. Cardinality(S) = Cardinality(At(t, x))
    <3> DEFINE f == [i \in At(t, x) |-> i + 1]
    <3>1. \A i \in At(t, x) : i + 1 \in S
      BY <1>1 DEF At
    <3>2. \A j \in S : j - 1 \in At(t, x) /\ (j - 1) + 1 = j
      BY <1>1 DEF At
    <3>3. At(t, x) \subseteq Nat
      BY <1>1 DEF At
    <3>4. f \in Bijection(At(t, x), S)
      <4> HIDE DEF S
      <4>1. f \in [At(t, x) -> S] /\ \A i, j \in At(t, x) : f[i] = f[j] => i = j
        BY <3>1, <3>3
      <4>2. \A j \in S : \E i \in At(t, x) : f[i] = j
        BY <3>2
      <4> QED BY <4>1, <4>2 DEF Bijection, Injection, Surjection, IsInjective
    <3>5. ExistsBijection(At(t, x), S)
      BY <3>4 DEF ExistsBijection
    <3> QED BY <2>1, <3>5, FS_Bijection
  <2>3. Cardinality(S) = IF 1 \in At(q, x) THEN Cardinality(At(q, x)) - 1
                         ELSE Cardinality(At(q, x))
    BY <2>1, FS_RemoveElement
  <2>4. 1 \in At(q, x) <=> x = h
    BY <1>1 DEF At
  <2>5. Cardinality(At(q, x)) \in Nat
    BY <2>1, FS_CardinalityType
  <2> HIDE DEF S
  <2>6. Copies(SetToBag({h}), x) = IF x = h THEN 1 ELSE 0
    BY SingleCopies
  <2> QED BY <2>1, <2>2, <2>3, <2>4, <2>5, <2>6
<1>3. IsABag(Queued(q)) /\ IsABag(Queued(t)) /\ IsABag(SetToBag({h}))
  BY <1>1, QueuedCopies, SingleCopies
<1>4. Queued(q) = Queued(t) (+) SetToBag({h})
  <2> DEFINE B == Queued(q)
             C == Queued(t) (+) SetToBag({h})
  <2>1. IsABag(C) /\ \A x : Copies(C, x) = Copies(Queued(t), x) + Copies(SetToBag({h}), x)
    BY <1>3, PlusCopies
  <2>2. IsABag(B) /\ \A x : Copies(B, x) = Copies(C, x)
    BY <1>2, <1>3, <2>1
  <2> HIDE DEF B, C
  <2>3. B = C
    BY <2>1, <2>2, SameBag
  <2> QED BY <2>3 DEF B, C
<1> QED BY <1>4 DEF t, h

-----------------------------------------------------------------------------
(* The invariant *)

\* What a command may have made of the recipes R.
Changes(R) ==
  {create_new_recipe(R, nm) : nm \in Name}
  \cup UNION {{delete_recipe(R, i), publish_recipe(R, i)} : i \in 0..new_id(R)}

Copied == pc = "write" => local_recipes \in Changes(disk[id].recipes)
Ended ==
  pc \in Down => responders = EmptyBag /\ response_rcv = <<>> /\ broadcast_rcv = <<>>
BookInv == IndInv /\ Copied /\ Ended

LEMMA InitBook == Init => BookInv
BY InitGood DEF Init, BookInv, Copied, Ended

\* Steps that neither read for a command nor touch the file under one.
LEMMA CopiedStays ==
  ASSUME Copied, UNCHANGED <<pc, local_recipes, id>> \/ pc' # "write",
         pc = "write" => disk'[id] = disk[id]
  PROVE  Copied'
BY DEF Copied

LEMMA StepCopied == BookInv /\ [Next]_vars => Copied'
<1> SUFFICES ASSUME BookInv, [Next]_vars PROVE Copied'
  OBVIOUS
<1>0. Copied /\ TypeOK /\ OneWriter /\ (flushing => pc # "write")
  BY DEF BookInv, IndInv, Files
<1>1. CASE MainTask
  <2>1. pc' # "write"
    BY <1>1 DEF MainTask, SaveKey, CreateDefaultRecipes, Truncate, Write, broadcast_recipe,
       Broadcasted, BroadcastPanic, PublishResponse, PublishBroadcast, RemoveData, Exited, End
  <2> QED BY <2>1 DEF Copied
<1>2. CASE Operator
  <2>1. ASSUME NEW R, Command(R), R \in Changes(disk[id].recipes) PROVE Copied'
    BY <2>1 DEF Command, Typed, file, Copied
  <2>2. ASSUME NEW nm \in Name, CreateRecipe(nm) PROVE Copied'
    BY <2>1, <2>2 DEF CreateRecipe, Changes
  <2>3. ASSUME NEW i \in 0..new_id(disk[id].recipes), DeleteRecipe(i) \/ PublishRecipe(i)
        PROVE  Copied'
    BY <2>1, <2>3 DEF DeleteRecipe, PublishRecipe, Changes
  <2>4. CASE StartAnonymous \/ StartKnown \/ StartNew \/ Exit \/ BroadcastRecipes
    <3>1. pc' # "write"
      BY <2>4 DEF StartAnonymous, StartKnown, StartNew, Start, Exit, BroadcastRecipes
    <3> QED BY <3>1 DEF Copied
  <2> QED BY <1>2, <2>2, <2>3, <2>4 DEF Operator
<1>3. CASE Flush
  BY <1>0, <1>3 DEF Flush, Copied
<1>4. CASE Crash
  <2>1. pc' # "write"
    BY <1>4 DEF Crash, End
  <2> QED BY <2>1 DEF Copied
<1>5. CASE \E p \in Peer : \/ respond(p)
                           \/ \E mode \in {Id, {id}, Id \ {id}} : Request(p, mode)
  BY <1>0, <1>5 DEF respond, Request, file, Copied
<1>6. CASE UNCHANGED vars
  BY <1>0, <1>6 DEF vars, Copied
<1> QED BY <1>1, <1>2, <1>3, <1>4, <1>5, <1>6 DEF Next

LEMMA StepEnded == BookInv /\ [Next]_vars => Ended'
<1> SUFFICES ASSUME BookInv, [Next]_vars PROVE Ended'
  OBVIOUS
<1>0. Ended /\ Main \cap Down = {}
  BY DEF BookInv, Main, Down
<1>1. CASE Exited \/ Crash \/ BroadcastPanic
  BY <1>1 DEF Exited, Crash, BroadcastPanic, End, Ended
<1>2. CASE SaveKey \/ CreateDefaultRecipes \/ Truncate \/ Write \/ Broadcasted
           \/ PublishResponse \/ PublishBroadcast \/ RemoveData \/ Exit \/ BroadcastRecipes
           \/ \E p \in Local : broadcast_recipe(p)
  <2>1. pc' \notin Down
    BY <1>2 DEF SaveKey, CreateDefaultRecipes, Truncate, Write, Broadcasted, PublishResponse,
       PublishBroadcast, RemoveData, Exit, BroadcastRecipes, broadcast_recipe, Down
  <2> QED BY <2>1 DEF Ended
<1>3. CASE StartAnonymous \/ StartKnown \/ StartNew
  BY <1>0, <1>3 DEF StartAnonymous, StartKnown, StartNew, Start, channels, Ended
<1>4. ASSUME NEW R, Command(R) PROVE Ended'
  BY <1>4 DEF Command, Typed, Down, Ended
<1>5. CASE Flush
  BY <1>0, <1>5 DEF Flush, channels, Ended
<1>6. ASSUME NEW p \in Peer, respond(p) PROVE Ended'
  <2>1. responders # EmptyBag
    BY <1>6 DEF respond, BagIn, BagToSet, EmptyBag, SetToBag
  <2> QED BY <1>0, <1>6, <2>1 DEF respond, Ended
<1>7. ASSUME NEW p \in Peer, NEW mode, Request(p, mode) PROVE Ended'
  BY <1>7 DEF Request, Down, Ended
<1>8. CASE UNCHANGED vars
  BY <1>0, <1>8 DEF vars, Ended
<1> QED BY <1>1, <1>2, <1>3, <1>4, <1>5, <1>6, <1>7, <1>8
        DEF Next, MainTask, Operator, CreateRecipe, DeleteRecipe, PublishRecipe

LEMMA StepBook == BookInv /\ [Next]_vars => BookInv'
BY StepGood, StepCopied, StepEnded DEF BookInv

-----------------------------------------------------------------------------
(* What the book sees of the store *)

BookMap == [i \in Id |-> BookOf(i)]
Runs == IF pc \in Main THEN {id} ELSE {}
Answering(r, b, p) == Queued(r) (+) Queued(b) (+) p
Answers == Answering(response_rcv, broadcast_rcv, published)
NoBook == [st |-> "none", recipes |-> {}]
LostBook == [st |-> "lost", recipes |-> {}]

\* The store's step is a step of the book, or the book stays as it is.
Refines == Promise!BNext \/ UNCHANGED Promise!bvars

LEMMA AnsweringCopies ==
  ASSUME NEW r \in Seq(Answer), NEW b \in Seq(Answer), NEW p, IsABag(p)
  PROVE  /\ IsABag(Queued(r)) /\ IsABag(Queued(b)) /\ IsABag(Answering(r, b, p))
         /\ \A x : Copies(Answering(r, b, p), x) =
                     Copies(Queued(r), x) + Copies(Queued(b), x) + Copies(p, x)
<1>1. IsABag(Queued(r)) /\ IsABag(Queued(b))
  BY QueuedCopies
<1> DEFINE Q == Queued(r) (+) Queued(b)
<1>2. IsABag(Q) /\ \A x : Copies(Q, x) = Copies(Queued(r), x) + Copies(Queued(b), x)
  BY <1>1, PlusCopies
<1>3. Answering(r, b, p) = Q (+) p
  BY DEF Answering
<1> HIDE DEF Q
<1>4. IsABag(Q (+) p) /\ \A x : Copies(Q (+) p, x) = Copies(Q, x) + Copies(p, x)
  BY <1>2, PlusCopies
<1>5. \A x : Copies(Answering(r, b, p), x) =
               Copies(Queued(r), x) + Copies(Queued(b), x) + Copies(p, x)
  BY <1>2, <1>3, <1>4
<1> QED BY <1>1, <1>3, <1>4, <1>5

\* The order and the place of the additions do not matter.
LEMMA Regrouped ==
  ASSUME NEW B, IsABag(B), NEW C, IsABag(C), NEW D, IsABag(D),
         \A x : Copies(B, x) = Copies(C, x) + Copies(D, x)
  PROVE  B = C (+) D
<1> DEFINE E == C (+) D
<1>1. IsABag(E) /\ \A x : Copies(E, x) = Copies(C, x) + Copies(D, x)
  BY PlusCopies
<1> HIDE DEF E
<1>2. B = E
  BY <1>1, SameBag
<1> QED BY <1>2 DEF E

\* One more message in a channel is one more answer; one that goes on to the
\* topic was one before.
LEMMA OneMore ==
  ASSUME NEW r \in Seq(Answer), NEW b \in Seq(Answer), NEW p, IsABag(p), NEW m \in Answer
  PROVE  /\ Answering(Append(r, m), b, p) = Answering(r, b, p) (+) SetToBag({m})
         /\ Answering(r, Append(b, m), p) = Answering(r, b, p) (+) SetToBag({m})
         /\ Answering(r, b, p (+) SetToBag({m})) = Answering(r, b, p) (+) SetToBag({m})
<1> DEFINE S == SetToBag({m})
           ra == Append(r, m)
           ba == Append(b, m)
<1>1. ra \in Seq(Answer) /\ ba \in Seq(Answer)
  OBVIOUS
<1>2. IsABag(S) /\ IsABag(p (+) S) /\ IsABag(Answering(r, b, p))
  BY SingleCopies, PlusCopies, AnsweringCopies
<1>3. IsABag(Queued(r)) /\ IsABag(Queued(b))
  BY QueuedCopies
<1> HIDE DEF S, ra, ba
<1>4. ASSUME NEW x
      PROVE  /\ Copies(Queued(r), x) \in Nat /\ Copies(Queued(b), x) \in Nat
             /\ Copies(p, x) \in Nat /\ Copies(S, x) \in Nat
             /\ Copies(Answering(r, b, p), x) =
                  Copies(Queued(r), x) + Copies(Queued(b), x) + Copies(p, x)
             /\ Copies(Queued(r) (+) S, x) = Copies(Queued(r), x) + Copies(S, x)
             /\ Copies(Queued(b) (+) S, x) = Copies(Queued(b), x) + Copies(S, x)
             /\ Copies(p (+) S, x) = Copies(p, x) + Copies(S, x)
  <2>1. /\ Copies(Queued(r), x) \in Nat /\ Copies(Queued(b), x) \in Nat
        /\ Copies(p, x) \in Nat /\ Copies(S, x) \in Nat
    BY <1>2, <1>3, CopiesNat
  <2>2. Copies(Answering(r, b, p), x) =
          Copies(Queued(r), x) + Copies(Queued(b), x) + Copies(p, x)
    BY AnsweringCopies
  <2>3. /\ Copies(Queued(r) (+) S, x) = Copies(Queued(r), x) + Copies(S, x)
        /\ Copies(Queued(b) (+) S, x) = Copies(Queued(b), x) + Copies(S, x)
        /\ Copies(p (+) S, x) = Copies(p, x) + Copies(S, x)
    BY <1>2, <1>3, PlusCopies
  <2> QED BY <2>1, <2>2, <2>3
<1>5. Queued(ra) = Queued(r) (+) S /\ Queued(ba) = Queued(b) (+) S
  BY QueuedAppend DEF S, ra, ba
<1>6. Answering(ra, b, p) = Answering(r, b, p) (+) S
  <2>1. IsABag(Answering(ra, b, p))
        /\ \A x : Copies(Answering(ra, b, p), x) =
             Copies(Queued(ra), x) + Copies(Queued(b), x) + Copies(p, x)
    BY <1>1, AnsweringCopies
  <2>2. \A x : Copies(Answering(ra, b, p), x) = Copies(Answering(r, b, p), x) + Copies(S, x)
    <3> TAKE x
    <3> QED BY <1>4, <1>5, <2>1
  <2> QED BY <1>2, <2>1, <2>2, Regrouped
<1>7. Answering(r, ba, p) = Answering(r, b, p) (+) S
  <2>1. IsABag(Answering(r, ba, p))
        /\ \A x : Copies(Answering(r, ba, p), x) =
             Copies(Queued(r), x) + Copies(Queued(ba), x) + Copies(p, x)
    BY <1>1, AnsweringCopies
  <2>2. \A x : Copies(Answering(r, ba, p), x) = Copies(Answering(r, b, p), x) + Copies(S, x)
    <3> TAKE x
    <3> QED BY <1>4, <1>5, <2>1
  <2> QED BY <1>2, <2>1, <2>2, Regrouped
<1>8. Answering(r, b, p (+) S) = Answering(r, b, p) (+) S
  <2>1. IsABag(Answering(r, b, p (+) S))
        /\ \A x : Copies(Answering(r, b, p (+) S), x) =
             Copies(Queued(r), x) + Copies(Queued(b), x) + Copies(p (+) S, x)
    BY <1>2, AnsweringCopies
  <2>2. \A x : Copies(Answering(r, b, p (+) S), x) = Copies(Answering(r, b, p), x) + Copies(S, x)
    <3> TAKE x
    <3> QED BY <1>4, <2>1
  <2> QED BY <1>2, <2>1, <2>2, Regrouped
<1> QED BY <1>6, <1>7, <1>8 DEF S, ra, ba

\* A message that goes from a channel to the topic stays an answer.
LEMMA Moved ==
  ASSUME NEW r \in Seq(Answer), NEW b \in Seq(Answer), NEW p, IsABag(p)
  PROVE  /\ r # <<>> => Answering(Tail(r), b, p (+) SetToBag({Head(r)})) = Answering(r, b, p)
         /\ b # <<>> => Answering(r, Tail(b), p (+) SetToBag({Head(b)})) = Answering(r, b, p)
<1>1. ASSUME r # <<>>
      PROVE  Answering(Tail(r), b, p (+) SetToBag({Head(r)})) = Answering(r, b, p)
  <2> DEFINE t == Tail(r)
             h == Head(r)
             S == SetToBag({h})
  <2>1. t \in Seq(Answer) /\ h \in Answer
    BY <1>1
  <2>2. Queued(r) = Queued(t) (+) S
    BY <1>1, QueuedTail
  <2> HIDE DEF t, h
  <2>3. Answering(t, b, p (+) S) = Answering(t, b, p) (+) S
    BY <2>1, OneMore
  <2>4. /\ IsABag(Answering(r, b, p)) /\ IsABag(Answering(t, b, p)) /\ IsABag(S)
        /\ IsABag(Queued(t)) /\ IsABag(Queued(b))
    BY <2>1, AnsweringCopies, SingleCopies
  <2> HIDE DEF S
  <2>5. \A x : Copies(Answering(r, b, p), x) = Copies(Answering(t, b, p), x) + Copies(S, x)
    <3> TAKE x
    <3>1. /\ Copies(Answering(r, b, p), x) =
               Copies(Queued(r), x) + Copies(Queued(b), x) + Copies(p, x)
          /\ Copies(Answering(t, b, p), x) =
               Copies(Queued(t), x) + Copies(Queued(b), x) + Copies(p, x)
      BY <2>1, AnsweringCopies
    <3>2. Copies(Queued(t) (+) S, x) = Copies(Queued(t), x) + Copies(S, x)
      BY <2>4, PlusCopies
    <3>3. /\ Copies(Queued(t), x) \in Nat /\ Copies(Queued(b), x) \in Nat
          /\ Copies(p, x) \in Nat /\ Copies(S, x) \in Nat
      BY <2>4, CopiesNat
    <3> QED BY <2>2, <3>1, <3>2, <3>3
  <2>6. Answering(r, b, p) = Answering(t, b, p) (+) S
    BY <2>4, <2>5, Regrouped
  <2> QED BY <2>3, <2>6 DEF t, h, S
<1>2. ASSUME b # <<>>
      PROVE  Answering(r, Tail(b), p (+) SetToBag({Head(b)})) = Answering(r, b, p)
  <2> DEFINE t == Tail(b)
             h == Head(b)
             S == SetToBag({h})
  <2>1. t \in Seq(Answer) /\ h \in Answer
    BY <1>2
  <2>2. Queued(b) = Queued(t) (+) S
    BY <1>2, QueuedTail
  <2> HIDE DEF t, h
  <2>3. Answering(r, t, p (+) S) = Answering(r, t, p) (+) S
    BY <2>1, OneMore
  <2>4. /\ IsABag(Answering(r, b, p)) /\ IsABag(Answering(r, t, p)) /\ IsABag(S)
        /\ IsABag(Queued(t)) /\ IsABag(Queued(r))
    BY <2>1, AnsweringCopies, SingleCopies
  <2> HIDE DEF S
  <2>5. \A x : Copies(Answering(r, b, p), x) = Copies(Answering(r, t, p), x) + Copies(S, x)
    <3> TAKE x
    <3>1. /\ Copies(Answering(r, b, p), x) =
               Copies(Queued(r), x) + Copies(Queued(b), x) + Copies(p, x)
          /\ Copies(Answering(r, t, p), x) =
               Copies(Queued(r), x) + Copies(Queued(t), x) + Copies(p, x)
      BY <2>1, AnsweringCopies
    <3>2. Copies(Queued(t) (+) S, x) = Copies(Queued(t), x) + Copies(S, x)
      BY <2>4, PlusCopies
    <3>3. /\ Copies(Queued(r), x) \in Nat /\ Copies(Queued(t), x) \in Nat
          /\ Copies(p, x) \in Nat /\ Copies(S, x) \in Nat
      BY <2>4, CopiesNat
    <3> QED BY <2>2, <3>1, <3>2, <3>3
  <2>6. Answering(r, b, p) = Answering(r, t, p) (+) S
    BY <2>4, <2>5, Regrouped
  <2> QED BY <2>3, <2>6 DEF t, h, S
<1> QED BY <1>1, <1>2
-----------------------------------------------------------------------------
(* Steps *)

\* What a file stands for.
LEMMA BookIs ==
  ASSUME NEW i \in Id
  PROVE  /\ disk[i].st = "whole" => BookOf(i) = disk[i]
         /\ disk[i].st # "whole" /\ i = id /\ pc = "truncated" => BookOf(i) = Whole(local_recipes)
         /\ disk[i].st # "whole" /\ ~ (i = id /\ pc = "truncated") =>
              BookOf(i) = IF disk[i] = Absent \/ (i = id /\ flushing) THEN NoBook ELSE LostBook
BY DEF BookOf, NoBook, LostBook

LEMMA Idle ==
  ASSUME UNCHANGED <<BookMap, Runs, pc = "truncated", responders, Answers>>
  PROVE  Refines
BY DEF Refines, Promise!bvars, BookMap, Runs, Answers, Answering

\* Nothing happens to the files and the messages, and nobody is half-way through a write.
LEMMA IdleStep ==
  ASSUME BookInv, pc # "truncated", pc' # "truncated", Runs' = Runs,
         UNCHANGED <<disk, responders, response_rcv, broadcast_rcv, published>>,
         flushing \/ flushing' => UNCHANGED <<id, flushing>>
  PROVE  Refines
<1>1. \A i \in Id : BookOf(i)' = BookOf(i)
  BY DEF BookOf
<1>2. BookMap' = BookMap
  BY <1>1 DEF BookMap
<1> QED BY <1>2, Idle DEF Answers

LEMMA StartRefines == BookInv /\ (StartAnonymous \/ StartKnown \/ StartNew) => Refines
<1> SUFFICES ASSUME BookInv, StartAnonymous \/ StartKnown \/ StartNew PROVE Refines
  OBVIOUS
<1>1. /\ UNCHANGED <<disk, flushing, responders, response_rcv, broadcast_rcv, published>>
      /\ pc \in Down /\ pc' \in {"defaults", "idle", "key_panic", "new_key"}
      /\ id' \in Id
  BY RecipeBoundAssumption
     DEF StartAnonymous, StartKnown, StartNew, Start, channels, BookInv, IndInv, TypeOK,
         Id, Anonymous
<1>2. ~ flushing /\ pc # "truncated" /\ pc' # "truncated" /\ pc \notin Main
  BY <1>1 DEF BookInv, IndInv, Files, Down, Main
<1>3. CASE pc' = "key_panic"
  BY <1>1, <1>2, <1>3, IdleStep DEF Runs, Main
<1>4. CASE pc' # "key_panic"
  <2>1. pc' \in Main
    BY <1>1, <1>4 DEF Main
  <2>2. BookMap' = BookMap
    BY <1>1, <1>2 DEF BookMap, BookOf
  <2>3. Promise!BStart(id')
    BY <1>1, <1>2, <2>1, <2>2 DEF Promise!BStart, BookMap
  <2> QED BY <1>1, <2>3 DEF Refines, Promise!BNext
<1> QED BY <1>3, <1>4

LEMMA QuietRefines ==
  BookInv /\ (SaveKey \/ Broadcasted \/ Exit \/ BroadcastRecipes) => Refines
<1> SUFFICES ASSUME BookInv, SaveKey \/ Broadcasted \/ Exit \/ BroadcastRecipes PROVE Refines
  OBVIOUS
<1>1. /\ UNCHANGED <<id, disk, flushing, responders, response_rcv, broadcast_rcv, published>>
      /\ pc \in {"new_key", "broadcast", "idle"} /\ pc' \in {"defaults", "idle", "exit", "broadcast"}
  BY DEF SaveKey, Broadcasted, Exit, BroadcastRecipes, file, channels
<1> QED BY <1>1, IdleStep DEF Runs, Main

LEMMA CommandRefines == ASSUME NEW R, BookInv, Command(R) PROVE Refines
<1>1. /\ UNCHANGED <<id, disk, flushing, responders, response_rcv, broadcast_rcv, published>>
      /\ pc = "idle" /\ pc' \in {"idle", "write"}
  BY DEF Command, Typed, file, channels
<1> QED BY <1>1, IdleStep DEF Runs, Main

LEMMA DefaultsRefine == BookInv /\ CreateDefaultRecipes => Refines
<1> SUFFICES ASSUME BookInv, CreateDefaultRecipes PROVE Refines
  OBVIOUS
<1>1. /\ pc = "defaults" /\ pc' = "idle" /\ disk[id] = Absent /\ ~ flushing /\ flushing'
      /\ disk' = [disk EXCEPT ![id] = Torn] /\ id \in Id /\ disk \in [Id -> File]
      /\ UNCHANGED <<id, responders, response_rcv, broadcast_rcv, published>>
  BY DEF CreateDefaultRecipes, channels, BookInv, IndInv, Files, TypeOK
<1>2. \A i \in Id : BookOf(i)' = BookOf(i)
  BY <1>1 DEF BookOf, Absent, Torn
<1>3. BookMap' = BookMap /\ Runs' = Runs
  BY <1>1, <1>2 DEF BookMap, Runs, Main
<1> QED BY <1>1, <1>3, Idle DEF Answers

LEMMA FlushRefines == BookInv /\ Flush => Refines
<1> SUFFICES ASSUME BookInv, Flush PROVE Refines
  OBVIOUS
<1>1. /\ flushing /\ ~ flushing' /\ id \in Id /\ disk \in [Id -> File]
      /\ pc \in {"idle", "broadcast", "exit"} /\ disk[id].st # "whole"
      /\ disk' = [disk EXCEPT ![id] = IF @ = Absent THEN @ ELSE Whole(Defaults)]
      /\ UNCHANGED <<pc, id, responders, response_rcv, broadcast_rcv, published>>
  BY DEF Flush, channels, BookInv, IndInv, Files, TypeOK
<1>2. \A i \in Id \ {id} : BookOf(i)' = BookOf(i)
  BY <1>1 DEF BookOf
<1>3. BookOf(id) = NoBook
  BY <1>1, BookIs
<1>4. CASE disk[id] = Absent
  <2>1. \A i \in Id : i = id => BookOf(i)' = BookOf(i)
    BY <1>1, <1>4 DEF BookOf, Absent
  <2>2. BookMap' = BookMap
    BY <1>2, <2>1 DEF BookMap
  <2> QED BY <1>1, <2>2, Idle DEF Runs, Answers
<1>5. CASE disk[id] # Absent
  <2>1. \A i \in Id : i = id => BookOf(i)' = Whole(Defaults)
    BY <1>1, <1>5 DEF BookOf, Whole
  <2>2. BookMap' = [BookMap EXCEPT ![id] = Whole(Defaults)]
    BY <1>2, <2>1 DEF BookMap
  <2>3. Promise!BNew(id)
    BY <1>1, <1>3, <2>2
       DEF Promise!BNew, Promise!NoBook, NoBook, Promise!Book, Whole, BookMap, Main
  <2> QED BY <1>1, <2>3 DEF Refines, Promise!BNext
<1> QED BY <1>4, <1>5


\* RecipeBook's bags are the store's.
LEMMA SameBags ==
  /\ \A B, C : Promise!\oplus(B, C) = B (+) C /\ Promise!\ominus(B, C) = B (-) C
  /\ \A S : Promise!SetToBag(S) = SetToBag(S)
  /\ \A x, B : Promise!BagIn(x, B) <=> BagIn(x, B)
<1>1. \A B, C : Promise!\oplus(B, C) = B (+) C
  BY DEF Promise!\oplus, \oplus
<1>2. \A B, C : Promise!\ominus(B, C) = B (-) C
  BY DEF Promise!\ominus, \ominus
<1> QED
  BY <1>1, <1>2 DEF Promise!SetToBag, SetToBag, Promise!BagIn, BagIn,
     Promise!BagToSet, BagToSet

\* The changes of the book are what the commands make of the recipes.
LEMMA SameChanges ==
  ASSUME NEW R
  PROVE  /\ Promise!new_id(R) = new_id(R)
         /\ \A nm : Promise!Created(R, nm) = create_new_recipe(R, nm)
         /\ \A i : Promise!Deleted(R, i) = delete_recipe(R, i)
         /\ \A i : Promise!Published(R, i) = publish_recipe(R, i)
<1>1. Promise!new_id(R) = new_id(R)
  BY DEF Promise!new_id, new_id, Promise!Max, Max
<1> QED
  BY <1>1 DEF Promise!Created, create_new_recipe, Promise!Deleted, delete_recipe,
     Promise!Published, publish_recipe

LEMMA TruncateRefines == BookInv /\ Truncate => Refines
<1> SUFFICES ASSUME BookInv, Truncate PROVE Refines
  OBVIOUS
<1>1. /\ pc = "write" /\ pc' = "truncated" /\ id \in Id /\ disk \in [Id -> File]
      /\ disk[id].st = "whole" /\ local_recipes \in Changes(disk[id].recipes)
      /\ disk' = [disk EXCEPT ![id] = Torn]
      /\ UNCHANGED <<id, flushing, local_recipes, responders, response_rcv, broadcast_rcv, published>>
  BY DEF Truncate, channels, BookInv, IndInv, OneWriter, Copied, TypeOK
<1>2. \A i \in Id : BookOf(i)' = IF i = id THEN Whole(local_recipes) ELSE BookOf(i)
  BY <1>1 DEF BookOf, Torn
<1>3. BookMap' = [BookMap EXCEPT ![id] = Whole(local_recipes)]
  BY <1>2 DEF BookMap
<1>4. BookOf(id) = disk[id]
  BY <1>1, BookIs
<1> DEFINE R == disk[id].recipes
<1>5. \/ \E nm \in Name : local_recipes = Promise!Created(R, nm)
      \/ \E k \in 0..Promise!new_id(R) :
           local_recipes = Promise!Deleted(R, k) \/ local_recipes = Promise!Published(R, k)
  BY <1>1, SameChanges DEF Changes
<1>6. /\ Runs = {id} /\ Runs' = {id} /\ Answers' = Answers
  BY <1>1 DEF Runs, Main, Answers
<1>7. Promise!BChange(id)
  BY <1>1, <1>3, <1>4, <1>5, <1>6
     DEF Promise!BChange, BookMap, Runs, Answers, Answering, Promise!Book, Whole
<1> QED BY <1>1, <1>7 DEF Refines, Promise!BNext

LEMMA WriteRefines == BookInv /\ Write => Refines
<1> SUFFICES ASSUME BookInv, Write PROVE Refines
  OBVIOUS
<1>1. /\ pc = "truncated" /\ pc' = "idle" /\ id \in Id /\ disk \in [Id -> File]
      /\ disk[id] = Torn
      /\ disk' = [disk EXCEPT ![id] = Whole(local_recipes)]
      /\ UNCHANGED <<id, flushing, responders, response_rcv, broadcast_rcv, published>>
  BY DEF Write, channels, BookInv, IndInv, OneWriter, TypeOK
<1>2. \A i \in Id : BookOf(i)' = BookOf(i)
  BY <1>1 DEF BookOf, Torn, Whole
<1>3. BookMap' = BookMap /\ Runs' = Runs /\ Answers' = Answers
  BY <1>1, <1>2 DEF BookMap, Runs, Main, Answers
<1>4. Promise!BChanged
  BY <1>1, <1>3 DEF Promise!BChanged, BookMap, Runs, Answers, Answering
<1> QED BY <1>4 DEF Refines, Promise!BNext

LEMMA RequestRefines == ASSUME NEW p \in Peer, NEW mode, BookInv, Request(p, mode) PROVE Refines
<1>1. /\ pc = "idle"
      /\ UNCHANGED <<pc, id, disk, flushing, local_recipes, response_rcv, broadcast_rcv, published>>
      /\ responders' = responders (+) SetToBag({p}) \/ UNCHANGED responders
  BY DEF Request, file
<1>2. BookMap' = BookMap /\ Runs' = Runs /\ Answers' = Answers /\ Runs # {}
  BY <1>1 DEF BookMap, BookOf, Runs, Main, Answers
<1>3. CASE UNCHANGED responders
  BY <1>1, <1>2, <1>3, Idle
<1>4. CASE responders' = responders (+) SetToBag({p})
  <2>1. Promise!BAsk(p)
    BY <1>1, <1>2, <1>4, SameBags DEF Promise!BAsk, BookMap, Runs, Answers, Answering
  <2> QED BY <2>1 DEF Refines, Promise!BNext
<1> QED BY <1>1, <1>3, <1>4

\* What the process has read is the answer the book gives.
LEMMA SameAnswer ==
  ASSUME BookInv, Readable, NEW p \in Peer \cup Local
  PROVE  /\ BookOf(id) = disk[id] /\ BookOf(id).st = "whole" /\ pc # "truncated"
         /\ Message(p, disk[id].recipes) \in Answer
         /\ Promise!AnswerOf(id, p) = Message(p, disk[id].recipes)
<1>1. id \in Id /\ disk[id] \in File /\ pc # "truncated"
  BY DEF BookInv, IndInv, OneWriter, TypeOK, Readable, Torn
<1>2. BookOf(id) = disk[id] /\ BookOf(id).st = "whole"
  BY <1>1, BookIs DEF Readable
<1>3. Message(p, disk[id].recipes) \in Answer
  BY <1>1 DEF Message, public, Answer, File
<1>4. Promise!AnswerOf(id, p) = Message(p, disk[id].recipes)
  BY <1>1, <1>2 DEF Promise!AnswerOf, Promise!public, Message, public
<1> QED BY <1>1, <1>2, <1>3, <1>4

LEMMA ChannelTypes ==
  BookInv => /\ response_rcv \in Seq(Answer) /\ broadcast_rcv \in Seq(Answer)
             /\ IsABag(published) /\ id \in Id
BY DEF BookInv, IndInv, TypeOK

LEMMA RespondRefines == ASSUME NEW p \in Peer, BookInv, respond(p) PROVE Refines
<1>1. /\ BagIn(p, responders) /\ responders' = responders (-) SetToBag({p})
      /\ UNCHANGED <<pc, id, disk, flushing, local_recipes, broadcast_rcv, published>>
  BY DEF respond, file
<1>2. pc \in Main
  <2>1. responders # EmptyBag
    BY <1>1 DEF BagIn, BagToSet, EmptyBag, SetToBag
  <2> QED BY <2>1 DEF BookInv, Ended, IndInv, TypeOK
<1>3. BookMap' = BookMap /\ Runs' = Runs /\ Runs = {id} /\ id \in Id
  BY <1>1, <1>2, ChannelTypes DEF BookMap, BookOf, Runs
<1>4. CASE Readable
  <2> DEFINE m == Message(p, disk[id].recipes)
  <2>1. response_rcv' = Append(response_rcv, m)
    BY <1>4 DEF respond
  <2>2. m \in Answer /\ m = Promise!AnswerOf(id, p) /\ BookOf(id).st = "whole" /\ pc # "truncated"
    BY <1>4, SameAnswer
  <2> HIDE DEF m
  <2>3. Answers' = Answers (+) SetToBag({m})
    BY <1>1, <2>1, <2>2, ChannelTypes, OneMore DEF Answers
  <2>4. Promise!BAnswer(id, p)
    BY <1>1, <1>3, <2>2, <2>3, SameBags
       DEF Promise!BAnswer, BookMap, Runs, Answers, Answering
  <2> QED BY <1>3, <2>4 DEF Refines, Promise!BNext
<1>5. CASE ~ Readable
  <2>1. Answers' = Answers
    BY <1>1, <1>5 DEF respond, Answers
  <2>2. pc = "truncated" \/ BookOf(id).st # "whole"
    BY <1>3, <1>5, BookIs DEF Readable, NoBook, LostBook
  <2>3. Promise!BRefuse(id, p)
    BY <1>1, <1>3, <2>1, <2>2, SameBags
       DEF Promise!BRefuse, BookMap, Runs, Answers, Answering
  <2> QED BY <1>3, <2>3 DEF Refines, Promise!BNext
<1> QED BY <1>4, <1>5

LEMMA BroadcastRefines == ASSUME NEW p \in Local, BookInv, broadcast_recipe(p) PROVE Refines
<1> DEFINE m == Message(p, disk[id].recipes)
<1>1. /\ Readable /\ broadcast_rcv' = Append(broadcast_rcv, m) /\ pc = "broadcast"
      /\ UNCHANGED <<pc, id, disk, flushing, local_recipes, responders, response_rcv, published>>
  BY DEF broadcast_recipe, file
<1>2. m \in Answer /\ m = Promise!AnswerOf(id, p) /\ BookOf(id).st = "whole" /\ pc # "truncated"
  BY <1>1, SameAnswer
<1> HIDE DEF m
<1>3. BookMap' = BookMap /\ Runs' = Runs /\ Runs = {id} /\ id \in Id
  BY <1>1, ChannelTypes DEF BookMap, BookOf, Runs, Main
<1>4. Answers' = Answers (+) SetToBag({m})
  BY <1>1, <1>2, ChannelTypes, OneMore DEF Answers
<1>5. Promise!BBroadcast(id, p)
  BY <1>1, <1>2, <1>3, <1>4, SameBags
     DEF Promise!BBroadcast, BookMap, Runs, Answers, Answering
<1> QED BY <1>3, <1>5 DEF Refines, Promise!BNext

LEMMA PublishRefines == BookInv /\ (PublishResponse \/ PublishBroadcast) => Refines
<1> SUFFICES ASSUME BookInv, PublishResponse \/ PublishBroadcast PROVE Refines
  OBVIOUS
<1>1. UNCHANGED <<pc, id, disk, flushing, local_recipes, responders>>
  BY DEF PublishResponse, PublishBroadcast, file
<1>2. BookMap' = BookMap /\ Runs' = Runs
  BY <1>1 DEF BookMap, BookOf, Runs
<1>3. CASE PublishResponse
  <2>1. Answers' = Answers
    BY <1>3, ChannelTypes, Moved DEF PublishResponse, Answers
  <2> QED BY <1>1, <1>2, <2>1, Idle
<1>4. CASE PublishBroadcast
  <2>1. Answers' = Answers
    BY <1>4, ChannelTypes, Moved DEF PublishBroadcast, Answers
  <2> QED BY <1>1, <1>2, <2>1, Idle
<1> QED BY <1>3, <1>4

LEMMA RemoveRefines == BookInv /\ RemoveData => Refines
<1> SUFFICES ASSUME BookInv, RemoveData PROVE Refines
  OBVIOUS
<1>1. /\ pc = "exit" /\ id # User /\ id \in Id /\ disk \in [Id -> File]
      /\ disk' = [disk EXCEPT ![id] = Absent]
      /\ UNCHANGED <<pc, id, flushing, responders, response_rcv, broadcast_rcv, published>>
  BY DEF RemoveData, channels, BookInv, IndInv, TypeOK
<1>2. \A i \in Id : BookOf(i)' = IF i = id THEN NoBook ELSE BookOf(i)
  BY <1>1 DEF BookOf, Absent, NoBook
<1>3. BookMap' = [BookMap EXCEPT ![id] = NoBook]
  BY <1>2 DEF BookMap
<1>4. Promise!BForget(id)
  BY <1>1, <1>3 DEF Promise!BForget, Promise!NoBook, NoBook, BookMap, Main
<1> QED BY <1>1, <1>4 DEF Refines, Promise!BNext

\* The end takes what has not left the process; the book stays, or is lost in the
\* middle of a change or before it was written.
LEMMA EndRefines == BookInv /\ (Exited \/ Crash \/ BroadcastPanic) => Refines
<1> SUFFICES ASSUME BookInv, Exited \/ Crash \/ BroadcastPanic PROVE Refines
  OBVIOUS
<1>1. /\ pc \in Main /\ pc' \in Down /\ ~ flushing' /\ id \in Id /\ disk \in [Id -> File]
      /\ responders' = EmptyBag /\ response_rcv' = <<>> /\ broadcast_rcv' = <<>>
      /\ UNCHANGED <<id, disk, published>>
  BY DEF Exited, Crash, BroadcastPanic, End, Main, Down, BookInv, IndInv, TypeOK
<1>2. pc' \notin Main /\ pc' # "truncated"
  BY <1>1 DEF Main, Down
<1>3. IsABag(Answers') /\ Answers' = published
  <2>1. /\ IsABag(Answering(<<>>, <<>>, published)) /\ IsABag(published)
        /\ \A x : Copies(Answering(<<>>, <<>>, published), x) =
             Copies(Queued(<<>>), x) + Copies(Queued(<<>>), x) + Copies(published, x)
    <3> DEFINE e == <<>>
    <3>1. e \in Seq(Answer) /\ IsABag(published)
      BY ChannelTypes
    <3> HIDE DEF e
    <3>2. /\ IsABag(Answering(e, e, published))
          /\ \A x : Copies(Answering(e, e, published), x) =
               Copies(Queued(e), x) + Copies(Queued(e), x) + Copies(published, x)
      BY <3>1, AnsweringCopies
    <3> QED BY <3>1, <3>2 DEF e
  <2>2. DOMAIN Queued(<<>>) = {}
    BY DEF Queued
  <2>3. \A x : Copies(Queued(<<>>), x) = 0
    BY <2>2 DEF Copies
  <2>4. \A x : Copies(published, x) \in Nat
    BY <2>1, CopiesNat
  <2>5. \A x : Copies(Answering(<<>>, <<>>, published), x) = Copies(published, x)
    BY <2>1, <2>3, <2>4
  <2>6. Answering(<<>>, <<>>, published) = published
    BY <2>1, <2>5, SameBag
  <2> QED BY <1>1, <2>1, <2>6 DEF Answers
<1>4. DOMAIN published \subseteq DOMAIN Answers
      /\ \A e \in DOMAIN published : published[e] <= Answers[e]
  <2>1. /\ IsABag(Queued(response_rcv)) /\ IsABag(Queued(broadcast_rcv)) /\ IsABag(Answers)
        /\ IsABag(published)
        /\ \A x : Copies(Answers, x) =
             Copies(Queued(response_rcv), x) + Copies(Queued(broadcast_rcv), x)
             + Copies(published, x)
    BY ChannelTypes, AnsweringCopies DEF Answers
  <2>2. \A x : /\ Copies(Queued(response_rcv), x) \in Nat
               /\ Copies(Queued(broadcast_rcv), x) \in Nat /\ Copies(published, x) \in Nat
    BY <2>1, CopiesNat
  <2>3. \A e \in DOMAIN published : Copies(published, e) = published[e] /\ published[e] > 0
    BY <2>1 DEF IsABag, Copies
  <2>4. \A e \in DOMAIN published : Copies(Answers, e) >= published[e] /\ Copies(Answers, e) > 0
    BY <2>1, <2>2, <2>3
  <2> QED BY <2>4 DEF Copies
<1>5. /\ \A i \in Id \ {id} : BookOf(i)' = BookOf(i)
      /\ \A i \in Id : i = id =>
           \/ BookOf(i)' = BookOf(i)
           \/ BookOf(i)' = LostBook /\ (pc = "truncated" \/ BookOf(i) = NoBook)
  <2>1. pc = "truncated" => disk[id] = Torn
    BY DEF BookInv, IndInv, OneWriter
  <2>2. \A i \in Id : i # id => BookOf(i)' = BookOf(i)
    BY <1>1 DEF BookOf
  <2>3. ASSUME NEW i \in Id, i = id
        PROVE  \/ BookOf(i)' = BookOf(i)
               \/ BookOf(i)' = LostBook /\ (pc = "truncated" \/ BookOf(i) = NoBook)
    <3>1. CASE disk[i].st = "whole" \/ disk[i] = Absent
      BY <1>1, <1>2, <2>1, <2>3, <3>1 DEF BookOf, Absent, Torn
    <3>2. CASE ~ (disk[i].st = "whole" \/ disk[i] = Absent)
      <4>1. BookOf(i)' = LostBook
        BY <1>1, <1>2, <2>3, <3>2 DEF BookOf, LostBook
      <4>2. pc = "truncated" \/ BookOf(i) = NoBook \/ BookOf(i) = LostBook
        BY <3>2, BookIs
      <4> QED BY <4>1, <4>2
    <3> QED BY <3>1, <3>2
  <2> QED BY <2>2, <2>3
<1>6. \/ BookMap' = [BookMap EXCEPT ![id] = @]
      \/ BookMap' = [BookMap EXCEPT ![id] = LostBook] /\ (pc = "truncated" \/ BookOf(id) = NoBook)
  BY <1>1, <1>5 DEF BookMap
<1>7. Promise!BStop(id) \/ Promise!BCrash(id)
  BY <1>1, <1>2, <1>3, <1>4, <1>6
     DEF Promise!BStop, Promise!BCrash, Promise!BEnd, Promise!LostBook, LostBook,
         Promise!NoBook, NoBook, BookMap, Answers, Answering, Promise!IsABag, IsABag,
         Promise!\sqsubseteq, \sqsubseteq, Promise!EmptyBag, EmptyBag,
         Promise!SetToBag, SetToBag
<1> QED BY <1>1, <1>7 DEF Refines, Promise!BNext

LEMMA StepRefines == BookInv /\ [Next]_vars => Refines
<1> SUFFICES ASSUME BookInv, [Next]_vars PROVE Refines
  OBVIOUS
<1>1. CASE MainTask
  BY <1>1, QuietRefines, DefaultsRefine, TruncateRefines, WriteRefines, BroadcastRefines,
     EndRefines, PublishRefines, RemoveRefines DEF MainTask
<1>2. CASE Operator
  BY <1>2, StartRefines, QuietRefines, CommandRefines
     DEF Operator, CreateRecipe, DeleteRecipe, PublishRecipe
<1>3. CASE Flush \/ Crash
  BY <1>3, FlushRefines, EndRefines
<1>4. CASE \E p \in Peer : \/ respond(p)
                           \/ \E mode \in {Id, {id}, Id \ {id}} : Request(p, mode)
  BY <1>4, RespondRefines, RequestRefines
<1>5. CASE UNCHANGED vars
  <2>1. UNCHANGED <<BookMap, Runs, pc = "truncated", responders, Answers>>
    BY <1>5 DEF vars, BookMap, BookOf, Runs, Answers
  <2> QED BY <2>1, Idle
<1> QED BY <1>1, <1>2, <1>3, <1>4, <1>5 DEF Next

LEMMA InitRefines == Init => Promise!BInit
<1> SUFFICES ASSUME Init PROVE Promise!BInit
  OBVIOUS
<1>1. \A i \in Id : BookOf(i) = NoBook
  BY DEF Init, BookOf, Absent, NoBook
<1>2. Queued(<<>>) = EmptyBag
  BY DEF Queued, EmptyBag, SetToBag
<1>3. EmptyBag (+) EmptyBag = EmptyBag
  BY DEF (+), EmptyBag, SetToBag
<1>4. Queued(response_rcv) (+) Queued(broadcast_rcv) (+) published = EmptyBag
  BY <1>2, <1>3 DEF Init
<1> QED
  BY <1>1, <1>4 DEF Init, Promise!BInit, Promise!NoBook, NoBook, Main,
     Promise!EmptyBag, EmptyBag, Promise!SetToBag, SetToBag

\* RecipeStore implements RecipeBook: whatever the order of commands, tasks, writes,
\* crashes and restarts, commands take effect at once and whole, an answer is the
\* public part of the book at one moment after its request, and a book is lost only
\* in the middle of a change or before it was first written.
THEOREM StoreRefinesBook == Spec => RefinesBook
<1>1. Spec => []BookInv
  BY InitBook, StepBook, PTL DEF Spec
<1>2. BookInv /\ [Next]_vars => [Promise!BNext]_Promise!bvars
  BY StepRefines DEF Refines
<1> QED
  BY <1>1, <1>2, InitRefines, PTL DEF Spec, RefinesBook, Promise!BSpec
=============================================================================
