--------------------------- MODULE MCOrchestrate ---------------------------
(* Instances of Orchestrate for TLC: the seed order of three hosts. *)
EXTENDS Orchestrate, TLC
CONSTANTS a, b, c

SeedOrder == (a :> 0) @@ (b :> 1) @@ (c :> 2)
SeedOrderOfTwo == (a :> 0) @@ (b :> 1)
=============================================================================
