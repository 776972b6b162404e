--------------------------- MODULE MCRunExecution ---------------------------
(* RunExecution on small instances; the bounds are in the .cfg files. *)
EXTENDS RunExecution, TLC

CONSTANTS w1, w2

MCWorkers == {w1, w2}
OneWorker == {w1}

\* Executors are interchangeable: sound for the safety runs.
MCSymmetry == Permutations(MCWorkers)
=============================================================================
