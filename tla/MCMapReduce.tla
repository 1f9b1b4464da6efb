---------------------------- MODULE MCMapReduce ----------------------------
EXTENDS MapReduce, TLC

(* the workers are interchangeable; used where no liveness is checked *)
Symmetry == Permutations(Worker)

(* bound: after an early end of a phase no worker dies or is slow, and none did before *)
EarlyThenQuiet == early => slow + crashes = 0
=============================================================================
