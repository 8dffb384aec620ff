----------------------------- MODULE MCAdminApi -----------------------------
(* Values of the constants for the runs of AdminApi.                       *)
EXTENDS AdminApi, TLC

CONSTANTS b1, b2, a1, a2, m1, m2, e1, e2, k1, k2

\* A full payload, and one that moves the backend to another endpoint and model
\* and keeps its key.
P1 == [endpoint |-> e1, key |-> k1, models |-> {m1}, balance |-> 0]
P2 == [endpoint |-> e2, key |-> NoKey, models |-> {m2}, balance |-> 0]

TwoInputs  == {P1, P2}

Fresh  == {NoBackends}

Nobody == {}

\* Backends and requests are interchangeable when the file starts empty.
Alike == Permutations({b1, b2}) \union Permutations({a1, a2})
=============================================================================
