----------------------------- MODULE MCRegistry -----------------------------
(* Values of the constants for the runs of Registry.                       *)
EXTENDS Registry

CONSTANTS b1, b2, m1, m2, e1, k1

Payload(models, balance) ==
  [endpoint |-> e1, key |-> k1, models |-> models, balance |-> balance]

MCInputs == {Payload({m1}, 2), Payload({m2}, 0)}

MCHeaders == {[total |-> 1, remaining |-> 0]}

\* A first start without a state file, and a restart on one that holds b1
\* with some of its budget consumed.
MCLoads ==
  {NoBackends,
   [NoBackends EXCEPT ![b1] =
      [NewBackend(Payload({m1}, 2)) EXCEPT !.used = 1]]}
EmptyLoad == {NoBackends}
NoHeaders == {}
OneInput == {Payload({m1}, 0)}
=============================================================================
