------------------------------- MODULE MCRuns -------------------------------
(* Instances of Runs for TLC.                                              *)
EXTENDS Runs, TLC

\* Ids, pids and message texts are compared for equality only.  Not used where
\* a liveness property is checked.
Symmetry ==
  Permutations(Process) \cup Permutations(Topic) \cup Permutations(Run)
    \cup Permutations(Message)

=============================================================================
