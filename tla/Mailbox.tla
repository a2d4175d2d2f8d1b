------------------------------ MODULE Mailbox ------------------------------
(***************************************************************************)
(* What message injection promises (docs/runs.md, "Message Injection"),    *)
(* without tables, loops or processes: a run is a box that accepts         *)
(* messages while it is open.  Its reader takes all that is in the box at  *)
(* once, in the order of acceptance.  A box is complete only when it has   *)
(* been closed and nothing in it is unread: no message slips in between    *)
(* the last look into the box and its closing.  A box may also be closed   *)
(* without being complete: cancelled, failed or deleted.                   *)
(***************************************************************************)
EXTENDS Sequences

CONSTANTS Run, Message

VARIABLES
  open,     \* boxes that accept messages
  sent,     \* sent[r]: what box r has accepted
  read,     \* read[r]: what its reader has taken
  complete  \* boxes whose work is finished and kept

mailbox == <<open, sent, read, complete>>

Init ==
  /\ open = {}
  /\ sent = [r \in Run |-> <<>>]
  /\ read = [r \in Run |-> <<>>]
  /\ complete = {}

Open(r) ==
  /\ r \notin open \cup complete
  /\ sent[r] = <<>>
  /\ open' = open \cup {r}
  /\ UNCHANGED <<sent, read, complete>>

Accept(r, m) ==
  /\ r \in open
  /\ sent' = [sent EXCEPT ![r] = Append(@, m)]
  /\ UNCHANGED <<open, read, complete>>

Read(r) ==
  /\ r \notin complete
  /\ read' = [read EXCEPT ![r] = sent[r]]
  /\ UNCHANGED <<open, sent, complete>>

\* Some boxes are closed; the work kept for those that are discarded is gone.
Close(closed, discarded) ==
  /\ open' = open \ (closed \cup discarded)
  /\ complete' = complete \ discarded
  /\ UNCHANGED <<sent, read>>

Complete(r) ==
  /\ r \notin open
  /\ read[r] = sent[r]
  /\ complete' = complete \cup {r}
  /\ UNCHANGED <<open, sent, read>>

Next ==
  \/ \E r \in Run : Open(r) \/ Read(r) \/ Complete(r)
  \/ \E r \in Run, m \in Message : Accept(r, m)
  \/ \E closed, discarded \in SUBSET Run : Close(closed, discarded)

Spec == Init /\ [][Next]_mailbox

=============================================================================
