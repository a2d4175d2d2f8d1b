--------------------------- MODULE MCConversation ---------------------------
(* Instances of Conversation for TLC.                                      *)
EXTENDS Conversation

\* Ids of topics are compared for equality only.
Symmetry == Permutations(Topic)

\* A constraint: when all runs have been started, messages were injected or tools
\* called in them, but not both.
OneKindInAll ==
  (\A r \in Run : topic[r] # None) => spent.injections = 0 \/ spent.batches = 0

=============================================================================
