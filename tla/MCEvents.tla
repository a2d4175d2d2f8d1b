------------------------------ MODULE MCEvents ------------------------------
(* Instances of Events for TLC.                                            *)
EXTENDS Events, TLC

\* Not used where a liveness property is checked.
Symmetry ==
  Permutations(Process) \cup Permutations(Event) \cup Permutations(Topic)
    \cup Permutations(Run)

=============================================================================
