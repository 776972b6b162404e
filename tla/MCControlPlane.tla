--------------------------- MODULE MCControlPlane ---------------------------
\* ControlPlane on a small instance: one run, in a project of its own.
EXTENDS ControlPlane

CONSTANTS h1, h2, env, r1, cand1

MCProjectOf == [r \in Runs |-> "p1"]
MCCandidateOf == [r \in Runs |-> cand1]

MCStaticKey == [id |-> env, project |-> Everywhere, scopes |-> Scopes]

\* A case with a telling label among others, one without any, and one that passes.
MCOutcomes == {[status |-> "failed", labels |-> <<"noise", "latency">>],
               [status |-> "error", labels |-> <<>>],
               [status |-> "passed", labels |-> <<>>]}
MCActionable == <<"latency">>
Symmetry == Permutations(Handlers) \cup Permutations(Cases)
=============================================================================
