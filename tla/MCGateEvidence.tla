--------------------------- MODULE MCGateEvidence ---------------------------
\* Instances of GateEvidence for TLC.
EXTENDS GateEvidence

CONSTANTS unsafe, execution_error

MCErrorLabels == {execution_error}
MCLabels == {unsafe}

\* One slow case, and one fast one.
MCLatencies == {[c \in Cases |-> IF c = s THEN 9 ELSE 1] : s \in Cases \cup {0}}

\* A strict policy, one that tolerates failures, flakiness and slow cases but
\* not the labels, and one that the first is as strict as.
MCPolicies ==
    {[minPass |-> 100, maxFlaky |-> 0, maxP95 |-> 5, blockOn |-> {}],
     [minPass |-> 0, maxFlaky |-> 100, maxP95 |-> NoLimit,
      blockOn |-> {unsafe, execution_error}],
     [minPass |-> 50, maxFlaky |-> 50, maxP95 |-> 5, blockOn |-> {}]}

\* Everything a repeat may do.
MCAllOutcomes == Replays \cup {Raised}
=============================================================================
