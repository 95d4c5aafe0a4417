-------------------------- MODULE MCRecipeExchange --------------------------
(***************************************************************************)
(* RecipeExchange for TLC: n2 is on the networks of n1 and of n3, and n1   *)
(* has two addresses there; n4 runs without local discovery.               *)
(***************************************************************************)
EXTENDS RecipeExchange

CONSTANTS n1, n2, n3, n4

MCNode == {n1, n2, n3, n4}
MCLocal == {n1, n2, n3}
MCRecord ==
  {[at |-> n1, peer |-> n2, addr |-> "a"],
   [at |-> n2, peer |-> n1, addr |-> "a"], [at |-> n2, peer |-> n1, addr |-> "b"],
   [at |-> n2, peer |-> n3, addr |-> "a"], [at |-> n3, peer |-> n2, addr |-> "a"]}
=============================================================================
