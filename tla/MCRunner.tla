------------------------------- MODULE MCRunner -------------------------------
(* Constant values for Runner: environments that differ in what matters.     *)
EXTENDS Runner

CONSTANTS v1, v2, a1, a2

All(x) == [v \in Venues |-> x]

Env(keys, pinned, override) == [keys |-> keys, pinned |-> pinned, override |-> override]

\* For two venues: one account, where the other one is pinned for v2, which only an
\* expectation in its row can undo; and the other account, without credentials for v2
\* and with the deprecated override.
MCDeployments ==
    {Env(All(a1), [All(Unset) EXCEPT ![v2] = a2], {}),
     Env([All(a2) EXCEPT ![v2] = Unset], All(Unset), {v1})}

=============================================================================
