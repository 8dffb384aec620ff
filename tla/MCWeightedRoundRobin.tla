------------------------ MODULE MCWeightedRoundRobin ------------------------
(* Values of the constants for the runs of the strategies.                 *)
EXTENDS Strategies, TLC

CONSTANTS a, b, c

MCOrder == (a :> 1) @@ (b :> 2) @@ (c :> 3)

\* One weight is left at its zero default by an update.
MCWeight == (a :> 5) @@ (b :> 2) @@ (c :> 0)

Changing  == (SUBSET {a, b, c}) \ {{}}

\* Failures after which the others are called, the lighter the sooner.
MCEnough == (a :> 15) @@ (b :> 12) @@ (c :> 8)

\* The slices of two models: one has all three backends, one the lighter two.
Two == {{a, b, c}, {b, c}}
=============================================================================
