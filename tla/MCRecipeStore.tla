--------------------------- MODULE MCRecipeStore ---------------------------
(***************************************************************************)
(* Instances of RecipeStore for TLC.                                       *)
(***************************************************************************)
EXTENDS RecipeStore

CONSTANTS p, q, plain, fancy

\* Two default recipes stand for the four of DEFAULT_RECIPES.
MCDefaultNames == <<plain, plain>>
=============================================================================
