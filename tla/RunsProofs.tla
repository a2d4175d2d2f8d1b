----------------------------- MODULE RunsProofs -----------------------------
(***************************************************************************)
(* Theorems about Runs, for any number of processes, topics, runs and      *)
(* messages and any iteration limit: types, the delivery of injected       *)
(* messages, the refinement of Mailbox, and the lifecycle of runs where    *)
(* processes follow one another.                                           *)
(***************************************************************************)
EXTENDS Runs, SequenceTheorems, TLAPS

USE DEF Terminal, Places, Sections, Synchronous

-----------------------------------------------------------------------------
(* Type correctness.                                                       *)

LEMMA TypeInit == Init => TypeOK
  BY RunsAssumption DEF Init, TypeOK, Idle

LEMMA TypeStep == TypeOK /\ [Next]_vars => TypeOK'
<1> SUFFICES ASSUME TypeOK, [Next]_vars PROVE TypeOK'
  OBVIOUS
<1> USE DEF TypeOK, database, processes, loops, history
<1>a. Idle \in Sections
  BY DEF Idle
<1>1. ASSUME NEW p \in Process, Start(p) PROVE TypeOK'
  BY <1>1 DEF Start
<1>2. ASSUME NEW p \in Process, Stop(p) PROVE TypeOK'
  BY <1>a, <1>2 DEF Stop, Die
<1>b. ASSUME NEW p \in Process, Interrupt(p) PROVE TypeOK'
  BY <1>b DEF Interrupt
<1>3. ASSUME NEW p \in Process, Signal(p) PROVE TypeOK'
  <2>1. CASE Die(p)
    BY <1>a, <2>1 DEF Die
  <2>2. CASE ~Die(p)
    BY <1>3, <2>2 DEF Signal
  <2>3. QED
    BY <2>1, <2>2
<1>4. ASSUME NEW p \in Process, NEW t \in Topic, CreateTopic(p, t) PROVE TypeOK'
  BY <1>4 DEF CreateTopic
<1>5. ASSUME NEW p \in Process, NEW t \in Topic, DeleteTopic(p, t) PROVE TypeOK'
  <2>1. <<>> \in Seq(Message)
    OBVIOUS
  <2>2. QED
    BY <1>5, <2>1 DEF DeleteTopic
<1>6. ASSUME NEW p \in Process, NEW t \in Topic, NEW op \in {"send", "get"},
             LookupActiveRun(p, t, op)
      PROVE  TypeOK'
  <2>1. PICK x \in Sections : section' = [section EXCEPT ![p] = x]
    <3>1. \A r \in RunningRows(t) : r \in Run
      BY DEF RunningRows
    <3>2. QED
      BY <1>6, <3>1 DEF LookupActiveRun
  <2>2. section' \in [Process -> Sections]
    BY <2>1
  <2>3. QED
    BY <1>6, <2>2 DEF LookupActiveRun
<1>7. ASSUME NEW p \in Process, NEW r \in Run, RequestCancel(p, r) PROVE TypeOK'
  BY <1>7 DEF RequestCancel
<1>8. ASSUME NEW p \in Process, NEW r \in Run, NEW m \in Message, Inject(p, r, m)
      PROVE  TypeOK'
  BY <1>8 DEF Inject
<1>9. ASSUME NEW p \in Process, FoundActiveRun(p) \/ WriteThrows(p) PROVE TypeOK'
  <2>1. CASE FoundActiveRun(p)
    BY <1>a, <2>1 DEF FoundActiveRun
  <2>2. CASE WriteThrows(p)
    BY <1>a, <2>2 DEF WriteThrows
  <2>3. QED
    BY <1>9, <2>1, <2>2
<1>10. ASSUME NEW p \in Process, ReapStaleRun(p) PROVE TypeOK'
  BY <1>a, <1>10 DEF ReapStaleRun, SetStatus
<1>11. ASSUME NEW p \in Process, CreateRun(p) PROVE TypeOK'
  <2>1. section[p].topic \in Topic \cup {None}
    OBVIOUS
  <2>2. PICK r \in Run :
          /\ status' = [status EXCEPT ![r] = "running"]
          /\ topicOf' = [topicOf EXCEPT ![r] = section[p].topic]
          /\ owner' = [owner EXCEPT ![r] = p]
          /\ pc' = [pc EXCEPT ![r] = "context"] \/ pc' = pc
    BY <1>11 DEF CreateRun
  <2>3. /\ status' \in [Run -> {"unused", "running", "deleted"} \cup Terminal]
        /\ topicOf' \in [Run -> Topic \cup {None}]
        /\ owner' \in [Run -> Process \cup {None}]
        /\ pc' \in [Run -> Places]
    BY <2>1, <2>2
  <2>4. QED
    BY <1>a, <1>11, <2>3 DEF CreateRun
<1>12. ASSUME NEW p \in Process, MarkCancelled(p) PROVE TypeOK'
  BY <1>a, <1>12 DEF MarkCancelled, SetStatus
<1>13. ASSUME NEW r \in Run, LoopStep(r) PROVE TypeOK'
  <2>a. Goto(r, "ready") \/ Goto(r, "calling") \/ Goto(r, "tools") \/ Goto(r, "answered")
          \/ Goto(r, "memory") \/ Goto(r, "failing") \/ Goto(r, "over") => pc' \in [Run -> Places]
    BY DEF Goto
  <2>b. TakeInbox(r) => heard' \in [Run -> Seq(Message)] /\ inbox' \in [Run -> Seq(Message)]
    <3>1. heard[r] \o inbox[r] \in Seq(Message)
      BY ConcatProperties
    <3>2. QED
      BY <3>1 DEF TakeInbox
  <2>c. ASSUME NEW s \in {"done", "cancelled", "error"}, SetStatus(r, s)
        PROVE  status' \in [Run -> {"unused", "running", "deleted"} \cup Terminal]
    BY <2>c DEF SetStatus
  <2>1. CASE ContextBuilt(r) \/ CallFails(r) \/ StopAtTop(r) \/ CallTools(r) \/ ToolReturns(r)
    BY <2>1, <2>a DEF ContextBuilt, CallFails, StopAtTop, CallTools, ToolReturns
  <2>2. CASE BeginIteration(r)
    <3>1. heard'[r] \in Seq(Message)
      BY <2>2, <2>b DEF BeginIteration
    <3>2. Len(heard'[r]) \in Nat
      BY <3>1, LenProperties
    <3>3. iterations' \in [Run -> 0 .. MaxIterations]
      BY <2>2, RunsAssumption DEF BeginIteration
    <3>4. QED
      BY <2>2, <2>a, <2>b, <3>2, <3>3 DEF BeginIteration
  <2>3. CASE Answer(r)
    BY <2>3, <2>a, <2>b, <2>c DEF Answer
  <2>4. CASE SaveMessages(r)
    BY <2>4, <2>a DEF SaveMessages
  <2>5. CASE StoreSummary(r)
    BY <2>5, <2>a DEF StoreSummary
  <2>6. CASE FinishFailed(r)
    BY <2>6, <2>a, <2>c DEF FinishFailed
  <2>7. QED
    BY <1>13, <2>1, <2>2, <2>3, <2>4, <2>5, <2>6 DEF LoopStep
<1>14. CASE UNCHANGED vars
  BY <1>14 DEF vars
<1>15. ASSUME NEW p \in Process, Command(p) PROVE TypeOK'
  BY ONLY <1>15, <1>4, <1>5, <1>6, <1>7, <1>8 DEF Command
<1>16. ASSUME NEW p \in Process, SectionStep(p) PROVE TypeOK'
  BY ONLY <1>16, <1>9, <1>10, <1>11, <1>12 DEF SectionStep
<1>17. QED
  BY ONLY [Next]_vars, <1>1, <1>2, <1>b, <1>3, <1>13, <1>14, <1>15, <1>16 DEF Next

\* The tables and the memory of the loops hold values of their types in every
\* reachable state.
THEOREM TypeCorrect == Spec => []TypeOK
  BY TypeInit, TypeStep, PTL DEF Spec

-----------------------------------------------------------------------------
(* Delivery of injected messages.  InjectedInOrder and SavedRunHeardAll are *)
(* not inductive: what a run has accepted is bound to what its loop heard   *)
(* only as long as no second drain follows the last answer, and the answer  *)
(* is given in a state that the invariant has to remember until the         *)
(* messages are saved.                                                      *)

\* From the atomic finish on, there is nothing to read and nothing can come.
Closed(r) ==
  /\ inbox[r] = <<>>
  /\ seen[r] = Len(heard[r])
  /\ status[r] # "running"

DeliveryOf(r) ==
  /\ Exists(r) => accepted[r] = heard[r] \o inbox[r]
  /\ ~Exists(r) => inbox[r] = <<>>
  /\ status[r] = "unused" => pc[r] = "none" /\ accepted[r] = <<>> /\ heard[r] = <<>>
  /\ pc[r] = "calling" => seen[r] = Len(heard[r])
  /\ pc[r] = "answered" \/ r \in saved => (Exists(r) => Closed(r))
  /\ r \in saved => pc[r] \in {"memory", "over", "lost"}

Delivery == \A r \in Run : DeliveryOf(r)

LEMMA DeliveryInit == Init => Delivery
  BY DEF Init, Delivery, DeliveryOf, Exists

LEMMA DeliveryImplies == TypeOK /\ Delivery => InjectedInOrder /\ SavedRunHeardAll
<1> SUFFICES ASSUME TypeOK, Delivery PROVE InjectedInOrder /\ SavedRunHeardAll
  OBVIOUS
<1>1. InjectedInOrder
  BY DEF Delivery, DeliveryOf, InjectedInOrder
<1>2. ASSUME NEW r \in saved, Exists(r)
      PROVE  heard[r] = accepted[r] /\ seen[r] = Len(accepted[r])
  <2>1. r \in Run /\ heard[r] \in Seq(Message)
    BY DEF TypeOK
  <2>2. accepted[r] = heard[r] \o inbox[r] /\ Closed(r)
    BY <1>2, <2>1 DEF Delivery, DeliveryOf
  <2>3. heard[r] \o <<>> = heard[r]
    BY <2>1, ConcatEmptySeq
  <2>4. QED
    BY <2>2, <2>3 DEF Closed
<1>3. QED
  BY <1>1, <1>2 DEF SavedRunHeardAll

\* Appending to what is still to be read appends to the whole.
LEMMA AppendConcat ==
  \A s, t \in Seq(Message), m \in Message : Append(s \o t, m) = s \o Append(t, m)
<1> TAKE s, t \in Seq(Message), m \in Message
<1>1. s \o t \in Seq(Message) /\ <<m>> \in Seq(Message)
  BY ConcatProperties
<1>2. Append(t, m) = t \o <<m>> /\ Append(s \o t, m) = (s \o t) \o <<m>>
  BY <1>1, AppendIsConcat
<1>3. QED
  BY <1>1, <1>2, ConcatAssociative

\* A step that leaves alone all that DeliveryOf reads, except that the loop of a
\* run may move to a place where the LLM is not being called, and that the status
\* of a row may become a terminal one.
LEMMA DeliveryKept ==
  ASSUME Delivery, NEW r \in Run,
         UNCHANGED <<inbox, accepted, heard, seen, saved>>,
         status'[r] = status[r] \/ (Exists(r) /\ status'[r] \in Terminal),
         \/ pc'[r] = pc[r]
         \/ /\ status[r] # "unused"
            /\ pc'[r] \notin {"calling", "answered"}
            /\ r \in saved => pc'[r] \in {"memory", "over", "lost"}
  PROVE  DeliveryOf(r)'
  BY DEF Delivery, DeliveryOf, Closed, Exists

LEMMA DeliveryStep == TypeOK /\ Delivery /\ [Next]_vars => Delivery'
<1> SUFFICES ASSUME TypeOK, Delivery, [Next]_vars, NEW r \in Run PROVE DeliveryOf(r)'
  BY DEF Delivery
<1> USE DEF database, processes, loops, history
<1>a. DeliveryOf(r)
  BY DEF Delivery
<1>1. ASSUME NEW p \in Process, Start(p) PROVE DeliveryOf(r)'
  BY <1>1, DeliveryKept DEF Start
<1>2. ASSUME NEW p \in Process, Die(p) PROVE DeliveryOf(r)'
  <2>1. pc'[r] = pc[r] \/ (pc[r] # "none" /\ pc'[r] = "lost")
    BY <1>2 DEF Die, Registered, TypeOK
  <2>2. QED
    BY <1>2, <1>a, <2>1, DeliveryKept DEF Die, DeliveryOf
<1>b. ASSUME NEW p \in Process, Interrupt(p) PROVE DeliveryOf(r)'
  BY <1>b, DeliveryKept DEF Interrupt
<1>3. ASSUME NEW p \in Process, Signal(p) PROVE DeliveryOf(r)'
  <2>1. CASE ~Die(p)
    BY <1>3, <2>1, DeliveryKept DEF Signal
  <2>2. QED
    BY <1>2, <2>1
<1>4. ASSUME NEW p \in Process, NEW t \in Topic, CreateTopic(p, t) PROVE DeliveryOf(r)'
  BY <1>4, DeliveryKept DEF CreateTopic
<1>5. ASSUME NEW p \in Process, NEW t \in Topic, DeleteTopic(p, t) PROVE DeliveryOf(r)'
  <2>1. CASE topicOf[r] # t
    <3>1. status'[r] = status[r] /\ inbox'[r] = inbox[r] /\ (r \in saved' <=> r \in saved)
      BY <1>5, <2>1 DEF DeleteTopic, TypeOK
    <3>2. QED
      BY <1>5, <1>a, <3>1 DEF DeleteTopic, DeliveryOf, Exists, Closed
  <2>2. CASE topicOf[r] = t
    <3>1. status'[r] = "deleted" /\ inbox'[r] = <<>> /\ r \notin saved'
      BY <1>5, <2>2 DEF DeleteTopic
    <3>2. QED
      BY <1>5, <1>a, <3>1 DEF DeleteTopic, DeliveryOf, Exists
  <2>3. QED
    BY <2>1, <2>2
<1>6. ASSUME NEW p \in Process, NEW t \in Topic, NEW op \in {"send", "get"},
             LookupActiveRun(p, t, op)
      PROVE  DeliveryOf(r)'
  BY <1>6, DeliveryKept DEF LookupActiveRun
<1>7. ASSUME NEW p \in Process, NEW s \in Run, RequestCancel(p, s) PROVE DeliveryOf(r)'
  BY <1>7, DeliveryKept DEF RequestCancel
<1>8. ASSUME NEW p \in Process, NEW s \in Run, NEW m \in Message, Inject(p, s, m)
      PROVE  DeliveryOf(r)'
  <2>1. CASE r # s
    BY <1>8, <1>a, <2>1 DEF Inject, DeliveryOf, Exists, Closed, TypeOK
  <2>2. CASE r = s
    <3>1. /\ accepted[r] = heard[r] \o inbox[r]
          /\ r \notin saved /\ pc[r] # "answered"
      BY <1>8, <1>a, <2>2 DEF Inject, DeliveryOf, Exists, Closed
    <3>2. /\ accepted'[r] = Append(accepted[r], m)
          /\ inbox'[r] = Append(inbox[r], m)
      BY <1>8, <2>2 DEF Inject, TypeOK
    <3>3. Append(heard[r] \o inbox[r], m) = heard[r] \o Append(inbox[r], m)
      <4>1. heard[r] \in Seq(Message) /\ inbox[r] \in Seq(Message)
        BY DEF TypeOK
      <4>2. QED
        BY <4>1, AppendConcat
    <3>4. QED
      BY <1>8, <1>a, <2>2, <3>1, <3>2, <3>3 DEF Inject, DeliveryOf, Exists
  <2>3. QED
    BY <2>1, <2>2
<1>9. ASSUME NEW p \in Process, FoundActiveRun(p) \/ WriteThrows(p) PROVE DeliveryOf(r)'
  BY <1>9, DeliveryKept DEF FoundActiveRun, WriteThrows
<1>10. ASSUME NEW p \in Process, NEW s, NEW w \in Terminal, SetStatus(s, w),
              UNCHANGED <<inbox, accepted, heard, seen, saved, pc>>
       PROVE  DeliveryOf(r)'
  <2>1. status'[r] = status[r] \/ (Exists(r) /\ status'[r] \in Terminal)
    BY <1>10 DEF SetStatus, TypeOK
  <2>2. QED
    BY <1>10, <2>1, DeliveryKept
<1>11. ASSUME NEW p \in Process, ReapStaleRun(p) \/ MarkCancelled(p) PROVE DeliveryOf(r)'
  BY <1>10, <1>11 DEF ReapStaleRun, MarkCancelled
<1>12. ASSUME NEW p \in Process, CreateRun(p) PROVE DeliveryOf(r)'
  <2>1. PICK s \in Run :
          /\ status[s] = "unused"
          /\ status' = [status EXCEPT ![s] = "running"]
          /\ pc' = [pc EXCEPT ![s] = "context"] \/ pc' = pc
    BY <1>12 DEF CreateRun
  <2>2. CASE r # s
    BY <1>12, <2>1, <2>2, DeliveryKept DEF CreateRun, TypeOK
  <2>3. CASE r = s
    <3>1. status'[r] = "running" /\ pc'[r] \in {"none", "context"}
      BY <1>a, <2>1, <2>3 DEF DeliveryOf, TypeOK
    <3>2. inbox[r] = <<>> /\ heard[r] = <<>> /\ accepted[r] = <<>> /\ r \notin saved
      BY <1>a, <2>1, <2>3 DEF DeliveryOf, Exists
    <3>3. QED
      BY <1>12, <3>1, <3>2 DEF CreateRun, DeliveryOf, Exists
  <2>4. QED
    BY <2>2, <2>3
<1>13. ASSUME NEW s \in Run, LoopStep(s) PROVE DeliveryOf(r)'
  <2>1. CASE ContextBuilt(s) \/ CallFails(s) \/ StopAtTop(s) \/ CallTools(s) \/ ToolReturns(s)
    <3>1. pc[s] \notin {"none", "answered", "memory", "over", "lost"}
      BY <2>1 DEF ContextBuilt, CallFails, StopAtTop, CallTools, ToolReturns, Resumes
    <3>2. pc'[r] = pc[r] \/ (r = s /\ pc'[r] \notin {"calling", "answered"})
      BY <2>1 DEF ContextBuilt, CallFails, StopAtTop, CallTools, ToolReturns, Goto, TypeOK
    <3>3. pc'[r] = pc[r] \/ (status[r] # "unused" /\ r \notin saved)
      BY <1>a, <3>1, <3>2 DEF DeliveryOf
    <3>4. UNCHANGED <<inbox, accepted, heard, seen, saved, status>>
      BY <2>1 DEF ContextBuilt, CallFails, StopAtTop, CallTools, ToolReturns
    <3>5. QED
      BY <3>2, <3>3, <3>4, DeliveryKept
  <2>2. ASSUME TakeInbox(s), s \notin saved, status[s] # "unused",
               UNCHANGED <<accepted, saved, status>>,
               \/ Goto(s, "ready") /\ UNCHANGED seen
               \/ Goto(s, "calling") /\ seen' = [seen EXCEPT ![s] = Len(heard'[s])]
        PROVE  DeliveryOf(r)'
    <3>1. CASE r # s
      <4>1. UNCHANGED <<inbox[r], heard[r], seen[r], pc[r]>>
        BY <2>2, <3>1 DEF TakeInbox, Goto, TypeOK
      <4>2. QED
        BY <1>a, <2>2, <4>1 DEF DeliveryOf, Exists, Closed
    <3>2. CASE r = s
      <4>1. heard'[r] = heard[r] \o inbox[r] /\ inbox'[r] = <<>>
        BY <2>2, <3>2 DEF TakeInbox, TypeOK
      <4>2. heard[r] \o inbox[r] \in Seq(Message)
        BY ConcatProperties DEF TypeOK
      <4>3. heard'[r] \o inbox'[r] = heard[r] \o inbox[r]
        BY <4>1, <4>2, ConcatEmptySeq
      <4>4. pc'[r] = "ready" \/ (pc'[r] = "calling" /\ seen'[r] = Len(heard'[r]))
        BY <2>2, <3>2 DEF Goto, TypeOK
      <4>5. QED
        BY <1>a, <2>2, <3>2, <4>1, <4>3, <4>4 DEF DeliveryOf, Exists
    <3>3. QED
      BY <3>1, <3>2
  <2>3. CASE BeginIteration(s)
    <3>1. s \notin saved /\ status[s] # "unused"
      BY <2>3 DEF BeginIteration, Delivery, DeliveryOf
    <3>2. QED
      BY <2>2, <2>3, <3>1 DEF BeginIteration
  <2>4. CASE Answer(s)
    <3>1. s \notin saved /\ status[s] # "unused" /\ seen[s] = Len(heard[s])
      BY <2>4 DEF Answer, Resumes, Delivery, DeliveryOf
    <3>2. CASE TakeInbox(s) /\ Goto(s, "ready") /\ UNCHANGED status
      BY <2>2, <2>4, <3>1, <3>2 DEF Answer
    <3>3. CASE /\ inbox[s] = <<>> /\ SetStatus(s, "done") /\ Goto(s, "answered")
               /\ UNCHANGED <<inbox, heard>>
      <4>1. CASE r # s
        <5>1. status'[r] = status[r] /\ pc'[r] = pc[r]
          BY <3>3, <4>1 DEF SetStatus, Goto, TypeOK
        <5>2. QED
          BY <2>4, <3>3, <5>1, DeliveryKept DEF Answer
      <4>2. CASE r = s
        <5>1. pc'[r] = "answered"
          BY <3>3, <4>2 DEF Goto, TypeOK
        <5>2. /\ Exists(r) => status'[r] = "done"
              /\ ~Exists(r) => status'[r] = status[r]
          BY <3>3, <4>2 DEF SetStatus, TypeOK
        <5>3. QED
          BY <1>a, <2>4, <3>1, <3>3, <4>2, <5>1, <5>2
             DEF Answer, DeliveryOf, Exists, Closed
      <4>3. QED
        BY <4>1, <4>2
    <3>4. CASE Goto(s, "failing") /\ UNCHANGED <<status, inbox, heard>>
      <4>1. pc'[r] = pc[r] \/ (r = s /\ pc'[r] = "failing")
        BY <3>4 DEF Goto, TypeOK
      <4>2. QED
        BY <2>4, <3>1, <3>4, <4>1, DeliveryKept DEF Answer
    <3>5. QED
      BY <2>4, <3>2, <3>3, <3>4 DEF Answer
  <2>5. CASE SaveMessages(s)
    <3>1. s \notin saved /\ status[s] # "unused"
      BY <2>5 DEF SaveMessages, Delivery, DeliveryOf
    <3>2. UNCHANGED <<inbox, accepted, heard, seen, status>>
      BY <2>5 DEF SaveMessages
    <3>3. CASE r = s /\ saved' = saved \cup {s} /\ Goto(s, "memory")
      <4>1. pc'[r] = "memory" /\ pc[r] = "answered"
        BY <2>5, <3>3 DEF SaveMessages, Goto, TypeOK
      <4>2. QED
        BY <1>a, <3>1, <3>2, <3>3, <4>1 DEF DeliveryOf, Exists, Closed
    <3>4. CASE r # s /\ saved' = saved \cup {s} /\ Goto(s, "memory")
      <4>1. pc'[r] = pc[r] /\ (r \in saved' <=> r \in saved)
        BY <3>4 DEF Goto, TypeOK
      <4>2. QED
        BY <1>a, <3>2, <4>1 DEF DeliveryOf, Exists, Closed
    <3>5. CASE Goto(s, "failing") /\ UNCHANGED saved
      <4>1. pc'[r] = pc[r] \/ (r = s /\ pc'[r] = "failing")
        BY <3>5 DEF Goto, TypeOK
      <4>2. QED
        BY <3>1, <3>2, <3>5, <4>1, DeliveryKept
    <3>6. QED
      BY <2>5, <3>3, <3>4, <3>5 DEF SaveMessages
  <2>6. CASE StoreSummary(s) \/ FinishFailed(s)
    <3>1. pc'[r] = pc[r] \/ (r = s /\ pc'[r] = "over")
      BY <2>6 DEF StoreSummary, FinishFailed, Goto, TypeOK
    <3>2. status[s] # "unused"
      BY <2>6 DEF StoreSummary, FinishFailed, Resumes, Delivery, DeliveryOf
    <3>3. status'[r] = status[r] \/ (Exists(r) /\ status'[r] \in Terminal)
      BY <2>6 DEF StoreSummary, FinishFailed, SetStatus, TypeOK
    <3>4. UNCHANGED <<inbox, accepted, heard, seen, saved>>
      BY <2>6 DEF StoreSummary, FinishFailed
    <3>5. QED
      BY <3>1, <3>2, <3>3, <3>4, DeliveryKept
  <2>7. QED
    BY ONLY <1>13, <2>1, <2>3, <2>4, <2>5, <2>6 DEF LoopStep
<1>14. CASE UNCHANGED vars
  BY <1>14, DeliveryKept DEF vars
<1>15. ASSUME NEW p \in Process, Command(p) PROVE DeliveryOf(r)'
  BY ONLY <1>15, <1>4, <1>5, <1>6, <1>7, <1>8 DEF Command
<1>16. ASSUME NEW p \in Process, SectionStep(p) PROVE DeliveryOf(r)'
  BY ONLY <1>16, <1>9, <1>11, <1>12 DEF SectionStep
<1>17. QED
  BY ONLY [Next]_vars, <1>1, <1>2, <1>b, <1>3, <1>13, <1>14, <1>15, <1>16 DEF Next, Stop

\* As long as a run has a row, the messages that inject accepted for it are those
\* its loop took followed by those still in its inbox, in the order of acceptance,
\* whatever the interleaving of injections, drains, commands and crashes.
THEOREM DeliveryInOrder == Spec => []InjectedInOrder
<1>1. TypeOK /\ Delivery /\ [Next]_vars => (TypeOK /\ Delivery)'
  BY TypeStep, DeliveryStep
<1>2. Init => TypeOK /\ Delivery
  BY TypeInit, DeliveryInit
<1>3. TypeOK /\ Delivery => InjectedInOrder
  BY DeliveryImplies
<1>4. QED
  BY <1>1, <1>2, <1>3, PTL DEF Spec

\* The atomic finish loses nothing: a run whose messages have been saved has
\* given every accepted message to the LLM before its last answer.
THEOREM DeliveryComplete == Spec => []SavedRunHeardAll
<1>1. TypeOK /\ Delivery /\ [Next]_vars => (TypeOK /\ Delivery)'
  BY TypeStep, DeliveryStep
<1>2. Init => TypeOK /\ Delivery
  BY TypeInit, DeliveryInit
<1>3. TypeOK /\ Delivery => SavedRunHeardAll
  BY DeliveryImplies
<1>4. QED
  BY <1>1, <1>2, <1>3, PTL DEF Spec

-----------------------------------------------------------------------------
(* Refinement: every step of Runs is a step of its box, or leaves it alone. *)

LEMMA BoxInit == Init => Box!Init
  BY DEF Init, Box!Init, Exists

\* Steps that touch neither the rows of runs nor the messages.
LEMMA BoxKept ==
  ASSUME UNCHANGED <<status, accepted, heard, saved>>
  PROVE  UNCHANGED Box!mailbox
  BY DEF Box!mailbox, Exists

\* A terminal status closes a box, a deletion discards it.
LEMMA BoxClosed ==
  ASSUME TypeOK, NEW s \in Run, NEW w \in Terminal, SetStatus(s, w),
         UNCHANGED <<accepted, heard, saved>>
  PROVE  Box!Next
<1>1. \A r \in Run : (status[r] = "running" /\ r # s) => status'[r] = "running"
  BY DEF SetStatus, TypeOK
<1>2. \A r \in Run : status'[r] = "running" => status[r] = "running" /\ r # s
  BY DEF SetStatus, TypeOK, Exists
<1>3. {r \in Run : status'[r] = "running"} = {r \in Run : status[r] = "running"} \ ({s} \cup {})
  BY <1>1, <1>2
<1>4. {r \in saved : Exists(r)}' = {r \in saved : Exists(r)} \ {}
  BY DEF SetStatus, TypeOK, Exists
<1>5. Box!Close({s}, {})
  BY <1>3, <1>4 DEF Box!Close
<1>6. {s} \in SUBSET Run /\ {} \in SUBSET Run
  OBVIOUS
<1>7. QED
  BY <1>5, <1>6 DEF Box!Next

LEMMA BoxStep == TypeOK /\ Delivery /\ [Next]_vars => [Box!Next]_(Box!mailbox)
<1> SUFFICES ASSUME TypeOK, Delivery, [Next]_vars PROVE [Box!Next]_(Box!mailbox)
  OBVIOUS
<1> USE DEF database, processes, loops, history
<1>1. ASSUME NEW p \in Process, Start(p) \/ Stop(p) \/ Interrupt(p) \/ Signal(p)
      PROVE  [Box!Next]_(Box!mailbox)
  BY <1>1, BoxKept DEF Start, Stop, Interrupt, Signal, Die
<1>2. ASSUME NEW p \in Process, NEW t \in Topic, DeleteTopic(p, t)
      PROVE  [Box!Next]_(Box!mailbox)
  <2>1. PICK gone \in SUBSET Run : gone = {r \in Run : topicOf[r] = t}
    OBVIOUS
  <2>2. {r \in Run : status'[r] = "running"} = {r \in Run : status[r] = "running"} \ ({} \cup gone)
    BY <1>2, <2>1 DEF DeleteTopic, TypeOK
  <2>3. {r \in saved : Exists(r)}' = {r \in saved : Exists(r)} \ gone
    BY <1>2, <2>1 DEF DeleteTopic, TypeOK, Exists
  <2>4. Box!Close({}, gone)
    BY <1>2, <2>2, <2>3 DEF DeleteTopic, Box!Close
  <2>5. QED
    BY <2>4, {} \in SUBSET Run DEF Box!Next
<1>3. ASSUME NEW p \in Process, NEW s \in Run, NEW m \in Message, Inject(p, s, m)
      PROVE  [Box!Next]_(Box!mailbox)
  <2>1. {r \in saved : Exists(r)}' = {r \in saved : Exists(r)}
    BY <1>3 DEF Inject, Exists
  <2>2. Box!Accept(s, m)
    BY <1>3, <2>1 DEF Inject, Box!Accept
  <2>3. QED
    BY <2>2 DEF Box!Next
<1>4. ASSUME NEW p \in Process, Command(p) PROVE [Box!Next]_(Box!mailbox)
  <2>1. CASE \E t \in Topic : CreateTopic(p, t)
    BY <2>1, BoxKept DEF CreateTopic
  <2>2. CASE \E t \in Topic, op \in {"send", "get"} : LookupActiveRun(p, t, op)
    BY <2>2, BoxKept DEF LookupActiveRun
  <2>3. CASE \E r \in Run : RequestCancel(p, r)
    BY <2>3, BoxKept DEF RequestCancel
  <2>4. QED
    BY ONLY <1>2, <1>3, <1>4, <2>1, <2>2, <2>3 DEF Command
<1>5. ASSUME NEW p \in Process, SectionStep(p) PROVE [Box!Next]_(Box!mailbox)
  <2>1. CASE FoundActiveRun(p) \/ WriteThrows(p)
    BY <2>1, BoxKept DEF FoundActiveRun, WriteThrows
  <2>2. CASE ReapStaleRun(p) \/ MarkCancelled(p)
    <3>1. PICK w \in Terminal : SetStatus(section[p].run, w)
      BY <2>2 DEF ReapStaleRun, MarkCancelled
    <3>2. UNCHANGED <<accepted, heard, saved>>
      BY <2>2 DEF ReapStaleRun, MarkCancelled
    <3>3. CASE section[p].run \in Run
      BY <3>1, <3>2, <3>3, BoxClosed
    <3>4. CASE section[p].run \notin Run
      <4>1. status' = status
        BY <3>1, <3>4 DEF SetStatus, TypeOK
      <4>2. QED
        BY <3>2, <4>1, BoxKept
    <3>5. QED
      BY <3>3, <3>4
  <2>3. CASE CreateRun(p)
    <3>1. PICK s \in Run : /\ status[s] = "unused"
                           /\ status' = [status EXCEPT ![s] = "running"]
      BY <2>3 DEF CreateRun
    <3>2. accepted[s] = <<>> /\ s \notin saved
      BY <3>1 DEF Delivery, DeliveryOf
    <3>3. {r \in Run : status'[r] = "running"} = {r \in Run : status[r] = "running"} \cup {s}
      BY <3>1 DEF TypeOK
    <3>4. {r \in saved : Exists(r)}' = {r \in saved : Exists(r)}
      <4>1. \A r \in saved : status'[r] = status[r]
        BY <3>1, <3>2 DEF TypeOK
      <4>2. saved' = saved
        BY <2>3 DEF CreateRun
      <4>3. QED
        BY <4>1, <4>2 DEF Exists
    <3>5. Box!Open(s)
      BY <2>3, <3>1, <3>2, <3>3, <3>4 DEF CreateRun, Box!Open
    <3>6. QED
      BY <3>5 DEF Box!Next
  <2>4. QED
    BY <1>5, <2>1, <2>2, <2>3 DEF SectionStep
<1>6. ASSUME NEW s \in Run, TakeInbox(s), s \notin saved, UNCHANGED <<accepted, saved, status>>
      PROVE  [Box!Next]_(Box!mailbox)
  <2>1. CASE Exists(s)
    <3>1. heard' = [heard EXCEPT ![s] = accepted[s]]
      BY <1>6, <2>1 DEF TakeInbox, Delivery, DeliveryOf
    <3>2. {r \in saved : Exists(r)}' = {r \in saved : Exists(r)}
      BY <1>6 DEF Exists
    <3>3. Box!Read(s)
      BY <1>6, <3>1, <3>2 DEF Box!Read
    <3>4. QED
      BY <3>3 DEF Box!Next
  <2>2. CASE ~Exists(s)
    <3>1. heard[s] \in Seq(Message) /\ heard[s] \o inbox[s] = heard[s]
      BY <2>2, ConcatEmptySeq DEF Delivery, DeliveryOf, TypeOK
    <3>2. heard' = heard
      BY <1>6, <3>1 DEF TakeInbox, TypeOK
    <3>3. QED
      BY <1>6, <3>2, BoxKept
  <2>3. QED
    BY <2>1, <2>2
<1>7. ASSUME NEW s \in Run, LoopStep(s) PROVE [Box!Next]_(Box!mailbox)
  <2>1. CASE ContextBuilt(s) \/ CallFails(s) \/ StopAtTop(s) \/ CallTools(s)
             \/ ToolReturns(s) \/ StoreSummary(s)
    BY <2>1, BoxKept
       DEF ContextBuilt, CallFails, StopAtTop, CallTools, ToolReturns, StoreSummary
  <2>2. CASE BeginIteration(s)
    <3>1. s \notin saved
      BY <2>2 DEF BeginIteration, Delivery, DeliveryOf
    <3>2. QED
      BY <1>6, <2>2, <3>1 DEF BeginIteration
  <2>3. CASE Answer(s)
    <3>1. s \notin saved
      BY <2>3 DEF Answer, Resumes, Delivery, DeliveryOf
    <3>2. CASE TakeInbox(s) /\ UNCHANGED status
      BY <1>6, <2>3, <3>1, <3>2 DEF Answer
    <3>3. CASE SetStatus(s, "done") /\ UNCHANGED heard
      BY <2>3, <3>3, BoxClosed DEF Answer
    <3>4. CASE UNCHANGED <<status, heard>>
      BY <2>3, <3>4, BoxKept DEF Answer
    <3>5. QED
      BY <2>3, <3>2, <3>3, <3>4 DEF Answer
  <2>4. CASE SaveMessages(s)
    <3>1. CASE saved' = saved
      BY <2>4, <3>1, BoxKept DEF SaveMessages
    <3>2. CASE saved' = saved \cup {s} /\ ~Exists(s)
      <4>1. {r \in saved : Exists(r)}' = {r \in saved : Exists(r)}
        BY <2>4, <3>2 DEF SaveMessages, Exists
      <4>2. QED
        BY <2>4, <4>1 DEF SaveMessages, Box!mailbox
    <3>3. CASE saved' = saved \cup {s} /\ Exists(s)
      <4>1. {r \in saved : Exists(r)}' = {r \in saved : Exists(r)} \cup {s}
        BY <2>4, <3>3 DEF SaveMessages, Exists
      <4>2. status[s] # "running" /\ accepted[s] = heard[s] \o <<>>
        BY <2>4, <3>3 DEF SaveMessages, Delivery, DeliveryOf, Closed
      <4>3. heard[s] \in Seq(Message) /\ heard[s] \o <<>> = heard[s]
        BY ConcatEmptySeq DEF TypeOK
      <4>4. Box!Complete(s)
        BY <2>4, <4>1, <4>2, <4>3 DEF SaveMessages, Box!Complete
      <4>5. QED
        BY <4>4 DEF Box!Next
    <3>4. QED
      BY <2>4, <3>1, <3>2, <3>3 DEF SaveMessages
  <2>5. CASE FinishFailed(s)
    <3>1. CASE UNCHANGED status
      BY <2>5, <3>1, BoxKept DEF FinishFailed
    <3>2. CASE SetStatus(s, IF s \in aborted THEN "cancelled" ELSE "error")
      BY <2>5, <3>2, BoxClosed DEF FinishFailed
    <3>3. QED
      BY <2>5, <3>1, <3>2 DEF FinishFailed
  <2>6. QED
    BY ONLY <1>7, <2>1, <2>2, <2>3, <2>4, <2>5 DEF LoopStep
<1>8. CASE UNCHANGED vars
  BY <1>8, BoxKept DEF vars
<1>9. QED
  BY ONLY [Next]_vars, <1>1, <1>4, <1>5, <1>7, <1>8 DEF Next

\* The inbox table, the drains of the loop and the atomic finish implement the
\* mailbox that docs/runs.md promises: any number of processes, any interleaving.
THEOREM Refinement == Spec => ImplementsMailbox
<1>1. TypeOK /\ Delivery /\ [Next]_vars => (TypeOK /\ Delivery)'
  BY TypeStep, DeliveryStep
<1>2. Init => TypeOK /\ Delivery /\ Box!Init
  BY TypeInit, DeliveryInit, BoxInit
<1>3. TypeOK /\ Delivery /\ [Next]_vars => [Box!Next]_(Box!mailbox)
  BY BoxStep
<1>4. QED
  BY <1>1, <1>2, <1>3, PTL DEF Spec, ImplementsMailbox, Box!Spec

-----------------------------------------------------------------------------
(* Cancellations have a cause.  The status is written from what the process *)
(* remembers (a section, an aborted controller), so that the memory has to  *)
(* have its cause as well.                                                  *)

Stopped ==
  /\ aborted \subseteq requested \cup signalled
  /\ \A p \in Process : section[p].op = "cancel" => section[p].run \in requested
  /\ CancelledWhenStopped

LEMMA StoppedInit == Init => Stopped
  BY DEF Init, Stopped, CancelledWhenStopped, Idle

\* A step that cancels no row, aborts nothing and enters no cancellation.
LEMMA StoppedKept ==
  ASSUME Stopped, UNCHANGED <<aborted, requested, signalled>>,
         \A p \in Process : section'[p].op = "cancel" => section'[p] = section[p],
         \A r \in Run : status'[r] = "cancelled" => status[r] = "cancelled"
  PROVE  Stopped'
  BY DEF Stopped, CancelledWhenStopped

LEMMA StoppedStep ==
  ASSUME TypeOK, Stopped, [Next]_vars
  PROVE  Stopped'
<1> USE DEF database, processes, loops, history
<1>a. Idle.op # "cancel"
  BY DEF Idle
<1>1. ASSUME NEW p \in Process, Start(p) \/ Interrupt(p) PROVE Stopped'
  BY <1>1, StoppedKept DEF Start, Interrupt
<1>2. ASSUME NEW p \in Process, Die(p) PROVE Stopped'
  <2>1. \A q \in Process : section'[q] = section[q] \/ section'[q] = Idle
    BY <1>2 DEF Die, TypeOK
  <2>2. QED
    BY <1>2, <1>a, <2>1, StoppedKept DEF Die
<1>3. ASSUME NEW p \in Process, Signal(p) PROVE Stopped'
  <2>1. CASE ~Die(p)
    BY <1>3, <2>1 DEF Signal, Stopped, CancelledWhenStopped
  <2>2. QED
    BY <1>2, <2>1
<1>4. ASSUME NEW p \in Process, Command(p) PROVE Stopped'
  <2>1. CASE (\E t \in Topic : CreateTopic(p, t)) \/ (\E r \in Run, m \in Message : Inject(p, r, m))
    BY <2>1, StoppedKept DEF CreateTopic, Inject
  <2>2. ASSUME NEW t \in Topic, DeleteTopic(p, t) PROVE Stopped'
    BY <2>2, StoppedKept DEF DeleteTopic
  <2>3. ASSUME NEW t \in Topic, NEW op \in {"send", "get"}, LookupActiveRun(p, t, op)
        PROVE  Stopped'
    <3>1. \A q \in Process : section'[q] = section[q] \/ section'[q].op \in {"send", "get", "create"}
      BY <2>3 DEF LookupActiveRun, TypeOK
    <3>2. QED
      BY <2>3, <3>1, StoppedKept DEF LookupActiveRun
  <2>4. ASSUME NEW r \in Run, RequestCancel(p, r) PROVE Stopped'
    <3>1. /\ requested' = requested \cup {r} /\ UNCHANGED <<status, signalled>>
          /\ aborted' \subseteq aborted \cup {r}
      BY <2>4 DEF RequestCancel
    <3>2. \A q \in Process : section'[q] = section[q] \/ section'[q].run = r
      BY <2>4 DEF RequestCancel, TypeOK
    <3>3. QED
      BY <3>1, <3>2 DEF Stopped, CancelledWhenStopped
  <2>5. QED
    BY ONLY <1>4, <2>1, <2>2, <2>3, <2>4 DEF Command
<1>5. ASSUME NEW p \in Process, SectionStep(p) PROVE Stopped'
  <2>1. \A q \in Process : section'[q] = section[q] \/ section'[q].op \in {"idle", "create"}
    BY <1>5 DEF SectionStep, FoundActiveRun, ReapStaleRun, CreateRun, MarkCancelled, WriteThrows,
                TypeOK, Idle
  <2>2. UNCHANGED <<aborted, requested, signalled>>
    BY <1>5 DEF SectionStep, FoundActiveRun, ReapStaleRun, CreateRun, MarkCancelled, WriteThrows
  <2>3. CASE ~MarkCancelled(p)
    <3>1. \A r \in Run : status'[r] = "cancelled" => status[r] = "cancelled"
      BY <1>5, <2>3 DEF SectionStep, FoundActiveRun, ReapStaleRun, CreateRun, WriteThrows,
                        SetStatus, TypeOK
    <3>2. QED
      BY <2>1, <2>2, <3>1, StoppedKept
  <2>4. CASE MarkCancelled(p)
    <3>1. section[p].run \in requested
      BY <2>4 DEF MarkCancelled, Stopped
    <3>2. \A r \in Run : status'[r] = "cancelled" => status[r] = "cancelled" \/ r \in requested
      BY <2>4, <3>1 DEF MarkCancelled, SetStatus, TypeOK
    <3>3. QED
      BY <2>1, <2>2, <3>2 DEF Stopped, CancelledWhenStopped
  <2>5. QED
    BY <2>3, <2>4
<1>6. ASSUME NEW s \in Run, LoopStep(s) PROVE Stopped'
  <2>1. UNCHANGED <<aborted, requested, signalled, section>>
    BY <1>6 DEF LoopStep, ContextBuilt, CallFails, StopAtTop, BeginIteration, CallTools,
                ToolReturns, Answer, SaveMessages, StoreSummary, FinishFailed
  <2>2. \A r \in Run : status'[r] = "cancelled" => status[r] = "cancelled" \/ r \in aborted
    BY <1>6 DEF LoopStep, ContextBuilt, CallFails, StopAtTop, BeginIteration, CallTools,
                ToolReturns, Answer, SaveMessages, StoreSummary, FinishFailed, SetStatus, TypeOK
  <2>3. QED
    BY <2>1, <2>2 DEF Stopped, CancelledWhenStopped
<1>7. CASE UNCHANGED vars
  BY <1>7, StoppedKept DEF vars
<1>8. QED
  BY ONLY [Next]_vars, <1>1, <1>2, <1>3, <1>4, <1>5, <1>6, <1>7 DEF Next, Stop

\* A run is cancelled only when a user asked to cancel it or its process handled a
\* signal while its loop was at work: for any number of processes that overlap, under
\* contention and with configurations that cannot be read.
THEOREM CancelledWhenStoppedHolds == Spec => []CancelledWhenStopped
<1>1. TypeOK /\ Stopped /\ [Next]_vars => (TypeOK /\ Stopped)'
  BY TypeStep, StoppedStep
<1>2. Init => TypeOK /\ Stopped
  BY TypeInit, StoppedInit
<1>3. Stopped => CancelledWhenStopped
  BY DEF Stopped
<1>4. QED
  BY <1>1, <1>2, <1>3, PTL DEF Spec

-----------------------------------------------------------------------------
(* The deployment that docs/runs.md describes: processes follow one        *)
(* another, they do not overlap (one server, or one command line client at *)
(* a time).  Then a command is never interrupted between its SQL           *)
(* statements, and what two live processes can break holds.                *)

\* At most one process is alive, and only that one is in a section.
OneProcess ==
  /\ \A p, q \in alive : p = q
  /\ \A p \in Process : p \notin alive => section[p] = Idle

\* A topic has at most one row that says running, alive or stale; a process that
\* is going to insert a row knows that there is none, one that is looking at a
\* row for a send knows that it is the only one.
OneRow ==
  /\ \A r, s \in Run :
       status[r] = "running" /\ status[s] = "running" /\ topicOf[r] = topicOf[s] => r = s
  /\ \A p \in Process, r \in Run :
       status[r] = "running" /\ topicOf[r] = section[p].topic =>
         /\ section[p].op # "create"
         /\ section[p].op = "send" => section[p].run = r

\* No loop is between two statements while a process is in a section, and a
\* section holds a row that still says running and whose loop, if it is being
\* cancelled, has been aborted.
Exclusive ==
  \A p \in Process :
    /\ section[p] # Idle => \A r \in Run : pc[r] \notin Synchronous
    /\ section[p].op \in {"send", "get", "cancel"} =>
         /\ section[p].run \in Run
         /\ status[section[p].run] = "running"
    /\ section[p].op = "cancel" /\ Registered(section[p].run) => section[p].run \in aborted

\* Until the answer, the row of a loop says running, unless the loop has been
\* aborted and the row says so; from the answer on it says done.
StatusOf(r) ==
  /\ Registered(r) => owner[r] \in alive
  /\ pc[r] \in {"context", "ready", "calling", "tools", "failing"} =>
       \/ status[r] \in {"running", "deleted"}
       \/ status[r] = "cancelled" /\ r \in aborted
  /\ pc[r] = "answered" \/ r \in saved => status[r] \in {"done", "deleted"}

Single == OneProcess /\ OneRow /\ Exclusive /\ \A r \in Run : StatusOf(r)

LEMMA SingleInit == Init => Single
  BY DEF Init, Single, OneProcess, OneRow, Exclusive, StatusOf, Idle, Registered

\* What a process that can start a callback, or that executes a loop, relies on.
LEMMA Alone ==
  ASSUME TypeOK, Single, NEW p \in alive, section[p] = Idle
  PROVE  /\ alive = {p}
         /\ ~Contended(p)
         /\ \A q \in Process : section[q] = Idle
  BY DEF Single, OneProcess, TypeOK, Contended

LEMMA LoopAlone ==
  ASSUME TypeOK, Single, NEW r \in Run, LoopStep(r)
  PROVE  /\ owner[r] \in alive
         /\ ~Contended(owner[r])
         /\ \A q \in Process : section[q] = Idle
<1>1. Registered(r)
  BY DEF LoopStep, ContextBuilt, CallFails, StopAtTop, BeginIteration, CallTools, ToolReturns,
         Answer, SaveMessages, StoreSummary, FinishFailed, Resumes, Registered
<1>2. owner[r] \in alive
  BY <1>1 DEF Single, StatusOf
<1>3. Free(owner[r]) \/ pc[r] \in Synchronous
  BY DEF LoopStep, ContextBuilt, CallFails, StopAtTop, BeginIteration, CallTools, ToolReturns,
         Answer, SaveMessages, StoreSummary, FinishFailed, Resumes
<1>4. owner[r] \in Process
  BY <1>2 DEF TypeOK
<1>5. section[owner[r]] = Idle
  BY <1>3, <1>4 DEF Free, Single, Exclusive
<1>6. QED
  BY <1>2, <1>5, Alone

-----------------------------------------------------------------------------
(* The conjuncts of the invariant, action by action.                       *)

LEMMA SingleStart ==
  ASSUME ~Overlap, TypeOK, Single, NEW p \in Process, Start(p)
  PROVE  Single'
<1>1. alive = {} /\ alive' = {p}
  BY DEF Start
<1>2. section' = section /\ \A q \in Process : section[q] = Idle
  BY <1>1 DEF Start, Single, OneProcess
<1>3. UNCHANGED <<status, topicOf, owner, saved, pc, aborted>>
  BY DEF Start, database, loops, history
<1>4. OneProcess' /\ OneRow' /\ Exclusive'
  BY <1>1, <1>2, <1>3
     DEF Single, OneProcess, OneRow, Exclusive, Idle, RunningRows
<1>5. \A r \in Run : StatusOf(r)'
  BY <1>1, <1>3 DEF Single, StatusOf, Registered
<1>6. QED
  BY <1>4, <1>5 DEF Single

LEMMA SingleDie ==
  ASSUME TypeOK, Single, NEW p \in alive, Die(p)
  PROVE  Single'
<1>1. alive = {p} /\ alive' = {}
  BY DEF Die, Single, OneProcess
<1>2. \A q \in Process : section'[q] = Idle
  BY <1>1 DEF Die, Single, OneProcess, TypeOK
<1>3. \A r \in Run : pc'[r] = IF Registered(r) THEN "lost" ELSE pc[r]
  BY <1>1 DEF Die, Single, StatusOf
<1>4. UNCHANGED <<status, topicOf, owner, saved, aborted>>
  BY DEF Die, database, loops, history
<1>5. OneProcess' /\ OneRow' /\ Exclusive'
  BY <1>1, <1>2, <1>4 DEF Single, OneProcess, OneRow, Exclusive, Idle
<1>6. \A r \in Run : StatusOf(r)'
  BY <1>3, <1>4 DEF Single, StatusOf, Registered
<1>7. QED
  BY <1>5, <1>6 DEF Single

\* A step after which no process is in a section.
LEMMA SingleIdle ==
  ASSUME Single,
         UNCHANGED <<alive, topicOf>>,
         \A q \in Process : section'[q] = Idle,
         \A r \in Run : status'[r] = "running" => status[r] = "running"
  PROVE  OneProcess' /\ OneRow' /\ Exclusive'
  BY DEF Single, OneProcess, OneRow, Exclusive, Idle

LEMMA SingleCommand ==
  ASSUME TypeOK, Single, NEW p \in Process, Command(p)
  PROVE  Single'
<1> USE DEF database, processes, loops, history
<1>1. Free(p)
  BY DEF Command, CreateTopic, DeleteTopic, LookupActiveRun, RequestCancel, Inject
<1>2. /\ p \in alive /\ section[p] = Idle
      /\ alive = {p}
      /\ \A q \in Process : section[q] = Idle
  BY <1>1, Alone DEF Free
<1>3. \A r \in Run : Registered(r) => owner[r] = p
  BY <1>2 DEF Single, StatusOf
<1>4. \A r \in Run : pc[r] \notin Synchronous
  BY <1>1, <1>3 DEF Free, Registered
<1>5. CASE (\E t \in Topic : CreateTopic(p, t)) \/ (\E r \in Run, m \in Message : Inject(p, r, m))
  <2>1. UNCHANGED <<status, topicOf, owner, saved, pc, aborted, alive, section>>
    BY <1>5 DEF CreateTopic, Inject
  <2>2. QED
    BY <2>1 DEF Single, OneProcess, OneRow, Exclusive, StatusOf, Registered
<1>6. ASSUME NEW t \in Topic, DeleteTopic(p, t) PROVE Single'
  <2>1. /\ UNCHANGED <<topicOf, owner, pc, aborted, alive, section>>
        /\ saved' \subseteq saved
        /\ \A r \in Run : status'[r] \in {status[r], "deleted"}
    BY <1>6 DEF DeleteTopic
  <2>2. OneProcess' /\ OneRow' /\ Exclusive'
    BY <1>2, <2>1, SingleIdle
  <2>3. QED
    BY <2>1, <2>2 DEF Single, StatusOf, Registered
<1>7. ASSUME NEW t \in Topic, NEW op \in {"send", "get"}, LookupActiveRun(p, t, op)
      PROVE  Single'
  <2>1. UNCHANGED <<status, topicOf, owner, saved, pc, aborted, alive>>
    BY <1>7 DEF LookupActiveRun
  <2>2. \A q \in Process : q # p => section'[q] = Idle
    BY <1>2, <1>7 DEF LookupActiveRun, TypeOK
  <2>3. \/ RunningRows(t) = {} /\ section'[p] = [op |-> "create", topic |-> t, run |-> None]
        \/ \E r \in RunningRows(t) : section'[p] = [op |-> op, topic |-> t, run |-> r]
    BY <1>7 DEF LookupActiveRun, TypeOK
  <2>4. OneProcess'
    BY <1>2, <2>1, <2>2 DEF OneProcess
  <2>5. OneRow' /\ Exclusive'
    <3>1. CASE RunningRows(t) = {} /\ section'[p] = [op |-> "create", topic |-> t, run |-> None]
      <4>1. \A r \in Run : status[r] = "running" => topicOf[r] # t
        BY <3>1 DEF RunningRows
      <4>2. section'[p].op = "create" /\ section'[p].topic = t
        BY <3>1
      <4>3. OneRow'
        BY <2>1, <2>2, <4>1, <4>2 DEF Single, OneRow, Idle
      <4>4. Exclusive'
        BY <1>4, <2>1, <2>2, <4>2 DEF Exclusive, Idle
      <4>5. QED
        BY <4>3, <4>4
    <3>2. ASSUME NEW r \in RunningRows(t), section'[p] = [op |-> op, topic |-> t, run |-> r]
          PROVE  OneRow' /\ Exclusive'
      <4>1. r \in Run /\ status[r] = "running" /\ topicOf[r] = t
        BY DEF RunningRows
      <4>2. /\ section'[p].op \in {"send", "get"}
            /\ section'[p].topic = t
            /\ section'[p].run = r
        BY <3>2
      <4>3. OneRow'
        BY <2>1, <2>2, <4>1, <4>2 DEF Single, OneRow, Idle
      <4>4. Exclusive'
        BY <1>4, <2>1, <2>2, <4>1, <4>2 DEF Exclusive, Idle
      <4>5. QED
        BY <4>3, <4>4
    <3>3. QED
      BY <2>3, <3>1, <3>2
  <2>6. QED
    BY <2>1, <2>4, <2>5 DEF Single, StatusOf, Registered
<1>8. ASSUME NEW r \in Run, RequestCancel(p, r) PROVE Single'
  <2>1. UNCHANGED <<status, topicOf, owner, saved, pc, alive>>
    BY <1>8 DEF RequestCancel
  <2>2. /\ \A q \in Process : q # p => section'[q] = Idle
        /\ section'[p] = [op |-> "cancel", topic |-> None, run |-> r]
    BY <1>2, <1>8 DEF RequestCancel, TypeOK
  <2>4. /\ aborted \subseteq aborted'
        /\ aborted' \subseteq aborted \cup {r}
        /\ Registered(r) => r \in aborted'
    BY <1>3, <1>8 DEF RequestCancel
  <2>5. status[r] = "running"
    BY <1>8 DEF RequestCancel
  <2>6. OneProcess'
    BY <1>2, <2>1, <2>2 DEF OneProcess
  <2>7. OneRow'
    BY <2>1, <2>2 DEF Single, OneRow, Idle
  <2>8. Exclusive'
    BY <1>4, <2>1, <2>2, <2>4, <2>5 DEF Exclusive, Registered, Idle
  <2>9. \A s \in Run : StatusOf(s)'
    BY <2>1, <2>4 DEF Single, StatusOf, Registered
  <2>10. QED
    BY <2>6, <2>7, <2>8, <2>9 DEF Single
<1>9. QED
  BY <1>5, <1>6, <1>7, <1>8 DEF Command

LEMMA SingleSection ==
  ASSUME TypeOK, Delivery, Single, NEW p \in Process, SectionStep(p)
  PROVE  Single'
<1> USE DEF database, processes, loops, history
<1>1. p \in alive /\ section[p] # Idle /\ section' = [section EXCEPT ![p] = section'[p]]
  BY DEF SectionStep, FoundActiveRun, ReapStaleRun, CreateRun, MarkCancelled, WriteThrows, Idle,
         TypeOK
<1>2. \A q \in Process : q # p => section[q] = Idle /\ section'[q] = Idle
  BY <1>1 DEF Single, OneProcess, TypeOK
<1>3. \A r \in Run : pc[r] \notin Synchronous
  BY <1>1 DEF Single, Exclusive
<1>4. CASE FoundActiveRun(p) \/ WriteThrows(p)
  <2>1. /\ UNCHANGED <<status, topicOf, owner, saved, pc, aborted, alive>>
        /\ \A q \in Process : section'[q] = Idle
    BY <1>2, <1>4 DEF FoundActiveRun, WriteThrows, TypeOK
  <2>2. OneProcess' /\ OneRow' /\ Exclusive'
    BY <2>1, SingleIdle
  <2>3. QED
    BY <2>1, <2>2 DEF Single, StatusOf, Registered
<1>5. CASE ReapStaleRun(p)
  <2> DEFINE s == section[p].run
  <2>1. s \in Run /\ status[s] = "running" /\ owner[s] \notin alive
    BY <1>5 DEF ReapStaleRun, Single, Exclusive
  <2>2. ~Registered(s) /\ s \notin saved
    BY <2>1 DEF Single, StatusOf
  <2>3. /\ UNCHANGED <<topicOf, owner, saved, pc, aborted, alive>>
        /\ status' = [status EXCEPT ![s] = "error"]
    BY <1>5, <2>1 DEF ReapStaleRun, SetStatus, Exists
  <2>4. /\ status'[s] = "error"
        /\ \A r \in Run : r # s => status'[r] = status[r]
    BY <2>1, <2>3 DEF TypeOK
  <2>5. \A r \in Run : StatusOf(r)'
    BY <2>1, <2>2, <2>3, <2>4 DEF Single, StatusOf, Registered
  <2>6. CASE section[p].op = "get"
    <3>1. \A q \in Process : section'[q] = Idle
      BY <1>2, <1>5, <2>6 DEF ReapStaleRun, TypeOK
    <3>2. OneProcess' /\ OneRow' /\ Exclusive'
      BY <2>3, <2>4, <3>1, SingleIdle
    <3>3. QED
      BY <2>5, <3>2 DEF Single
  <2>7. CASE section[p].op = "send"
    <3>1. section'[p] = [op |-> "create", topic |-> section[p].topic, run |-> None]
      BY <1>5, <2>7 DEF ReapStaleRun, TypeOK
    <3>2. section'[p].op = "create" /\ section'[p].topic = section[p].topic
      BY <3>1
    <3>3. \A r \in Run : status'[r] = "running" => topicOf[r] # section[p].topic
      BY <2>4, <2>7 DEF Single, OneRow
    <3>4. OneRow'
      BY <1>2, <2>3, <2>4, <3>2, <3>3 DEF Single, OneRow, Idle
    <3>5. Exclusive'
      BY <1>2, <1>3, <2>3, <3>2 DEF Exclusive, Idle
    <3>6. OneProcess'
      BY <1>1, <1>2, <2>3 DEF Single, OneProcess
    <3>7. QED
      BY <2>5, <3>4, <3>5, <3>6 DEF Single
  <2>8. QED
    BY <1>5, <2>6, <2>7 DEF ReapStaleRun
<1>6. CASE CreateRun(p)
  <2>1. PICK s \in Run :
          /\ status[s] = "unused"
          /\ status' = [status EXCEPT ![s] = "running"]
          /\ topicOf' = [topicOf EXCEPT ![s] = section[p].topic]
          /\ owner' = [owner EXCEPT ![s] = p]
          /\ pc' = [pc EXCEPT ![s] = "context"] \/ pc' = pc
    BY <1>6 DEF CreateRun
  <2>2. /\ status'[s] = "running" /\ topicOf'[s] = section[p].topic /\ owner'[s] = p
        /\ pc'[s] \in {pc[s], "context"}
        /\ \A r \in Run : r # s => UNCHANGED <<status[r], topicOf[r], owner[r], pc[r]>>
    BY <2>1 DEF TypeOK
  <2>3. /\ UNCHANGED <<saved, aborted, alive>>
        /\ \A q \in Process : section'[q] = Idle
    BY <1>2, <1>6 DEF CreateRun, TypeOK
  <2>4. pc[s] = "none" /\ s \notin saved
    BY <2>1 DEF Delivery, DeliveryOf
  <2>5. section[p].op = "create"
    BY <1>6 DEF CreateRun
  <2>6. OneProcess' /\ Exclusive'
    BY <2>3 DEF Single, OneProcess, Exclusive, Idle
  <2>7. OneRow'
    BY <2>2, <2>3, <2>5 DEF Single, OneRow, Idle
  <2>9. \A r \in Run : StatusOf(r)'
    BY <1>1, <2>2, <2>3, <2>4 DEF Single, StatusOf, Registered
  <2>10. QED
    BY <2>6, <2>7, <2>9 DEF Single
<1>7. CASE MarkCancelled(p)
  <2> DEFINE s == section[p].run
  <2>1. /\ s \in Run /\ status[s] = "running"
        /\ Registered(s) => s \in aborted
    BY <1>7 DEF MarkCancelled, Single, Exclusive
  <2>2. /\ UNCHANGED <<topicOf, owner, saved, pc, aborted, alive>>
        /\ status' = [status EXCEPT ![s] = "cancelled"]
    BY <1>7, <2>1 DEF MarkCancelled, SetStatus, Exists
  <2>3. /\ status'[s] = "cancelled"
        /\ \A r \in Run : r # s => status'[r] = status[r]
    BY <2>1, <2>2 DEF TypeOK
  <2>4. \A q \in Process : section'[q] = Idle
    BY <1>2, <1>7 DEF MarkCancelled, TypeOK
  <2>5. OneProcess' /\ OneRow' /\ Exclusive'
    BY <2>2, <2>3, <2>4, SingleIdle
  <2>6. \A r \in Run : StatusOf(r)'
    BY <2>1, <2>2, <2>3 DEF Single, StatusOf, Registered
  <2>7. QED
    BY <2>5, <2>6 DEF Single
<1>8. QED
  BY <1>4, <1>5, <1>6, <1>7 DEF SectionStep

LEMMA SingleLoop ==
  ASSUME TypeOK, Delivery, Single, NEW s \in Run, LoopStep(s)
  PROVE  Single'
<1> USE DEF database, processes, loops, history
<1>1. /\ owner[s] \in alive
      /\ ~Contended(owner[s])
      /\ \A q \in Process : section[q] = Idle
  BY LoopAlone
<1>2. UNCHANGED <<topicOf, owner, aborted, alive, section>>
  BY DEF LoopStep, ContextBuilt, CallFails, StopAtTop, BeginIteration, CallTools, ToolReturns,
         Answer, SaveMessages, StoreSummary, FinishFailed
<1>3. \A r \in Run : r # s => UNCHANGED <<status[r], pc[r]>> /\ (r \in saved' <=> r \in saved)
  BY DEF LoopStep, ContextBuilt, CallFails, StopAtTop, BeginIteration, CallTools, ToolReturns,
         Answer, SaveMessages, StoreSummary, FinishFailed, Goto, SetStatus, TypeOK
<1>4. SUFFICES StatusOf(s)' /\ (status'[s] = "running" => status[s] = "running")
  <2>1. \A r \in Run : status'[r] = "running" => status[r] = "running"
    BY <1>3, <1>4
  <2>2. OneProcess' /\ OneRow' /\ Exclusive'
    BY <1>1, <1>2, <2>1, SingleIdle
  <2>3. ASSUME NEW r \in Run PROVE StatusOf(r)'
    BY <1>2, <1>3, <1>4, <2>3 DEF Single, StatusOf, Registered
  <2>4. QED
    BY <1>2, <2>2, <2>3 DEF Single
<1>5. ASSUME pc[s] \in {"context", "ready", "calling", "tools"},
             Goto(s, "ready") \/ Goto(s, "calling") \/ Goto(s, "tools") \/ Goto(s, "failing")
               \/ pc' = pc,
             UNCHANGED <<status, saved>>
      PROVE  StatusOf(s)' /\ (status'[s] = "running" => status[s] = "running")
  <2>1. pc'[s] \in {"context", "ready", "calling", "tools", "failing"}
    BY <1>5 DEF Goto, TypeOK
  <2>2. QED
    BY <1>1, <1>2, <1>5, <2>1 DEF Single, StatusOf, Registered
<1>6. CASE ContextBuilt(s) \/ CallFails(s) \/ StopAtTop(s) \/ BeginIteration(s)
           \/ CallTools(s) \/ ToolReturns(s)
  BY <1>5, <1>6
     DEF ContextBuilt, CallFails, StopAtTop, BeginIteration, CallTools, ToolReturns, Resumes
<1>7. CASE Answer(s)
  <2>1. pc[s] = "calling" /\ s \notin aborted /\ saved' = saved
    BY <1>7 DEF Answer, Resumes
  <2>2. CASE Goto(s, "ready") /\ UNCHANGED status
    BY <1>5, <2>1, <2>2
  <2>3. CASE SetStatus(s, "done") /\ Goto(s, "answered")
    <3>1. status[s] \in {"running", "deleted"}
      BY <2>1 DEF Single, StatusOf
    <3>2. status'[s] \in {"done", "deleted"} /\ pc'[s] = "answered"
      BY <2>3, <3>1 DEF SetStatus, Exists, Goto, TypeOK
    <3>3. QED
      BY <1>1, <1>2, <2>1, <3>2 DEF StatusOf, Registered
  <2>4. QED
    BY <1>1, <1>7, <2>2, <2>3 DEF Answer
<1>8. CASE SaveMessages(s)
  <2>1. pc[s] = "answered" /\ status' = status /\ Goto(s, "memory")
    BY <1>1, <1>8 DEF SaveMessages
  <2>2. status[s] \in {"done", "deleted"} /\ pc'[s] = "memory"
    BY <2>1 DEF Single, StatusOf, Goto, TypeOK
  <2>3. QED
    BY <1>1, <1>2, <2>1, <2>2 DEF StatusOf, Registered
<1>9. CASE StoreSummary(s)
  <2>1. pc'[s] = "over" /\ status' = status /\ saved' = saved
    BY <1>9 DEF StoreSummary, Goto, TypeOK
  <2>2. QED
    BY <1>1, <1>2, <2>1 DEF Single, StatusOf, Registered
<1>10. CASE FinishFailed(s)
  <2>1. pc[s] = "failing" /\ pc'[s] = "over" /\ saved' = saved
    BY <1>10 DEF FinishFailed, Goto, TypeOK
  <2>2. s \notin saved
    BY <2>1 DEF Delivery, DeliveryOf
  <2>3. SetStatus(s, IF s \in aborted THEN "cancelled" ELSE "error")
    BY <1>1, <1>10 DEF FinishFailed
  <2>5. status'[s] = "running" => status[s] = "running"
    BY <2>3 DEF SetStatus, TypeOK
  <2>6. QED
    BY <1>2, <2>1, <2>2, <2>5 DEF Single, StatusOf, Registered
<1>11. QED
  BY ONLY LoopStep(s), <1>6, <1>7, <1>8, <1>9, <1>10 DEF LoopStep

-----------------------------------------------------------------------------
(* The theorems.                                                           *)

\* Signals are sent and handled: a handler aborts the loops of its process, which
\* all go on; without one the process ends.
LEMMA SingleSignal ==
  ASSUME TypeOK, Single, NEW p \in Process, Interrupt(p) \/ Signal(p)
  PROVE  Single'
<1> USE DEF database, processes, loops, history
<1>1. CASE Interrupt(p)
  BY <1>1 DEF Interrupt, Single, OneProcess, OneRow, Exclusive, StatusOf, Registered
<1>2. CASE Signal(p) /\ Die(p)
  <2>1. p \in alive
    BY <1>2 DEF Signal, Free
  <2>2. QED
    BY <1>2, <2>1, SingleDie
<1>3. CASE Signal(p) /\ ~Die(p)
  <2>1. /\ UNCHANGED <<status, topicOf, owner, saved, pc, alive, section>>
        /\ aborted \subseteq aborted'
    BY <1>3 DEF Signal
  <2>2. OneProcess' /\ OneRow'
    BY <2>1 DEF Single, OneProcess, OneRow
  <2>3. Exclusive' /\ \A r \in Run : StatusOf(r)'
    BY <2>1 DEF Single, Exclusive, StatusOf, Registered
  <2>4. QED
    BY <2>2, <2>3 DEF Single
<1>4. QED
  BY <1>1, <1>2, <1>3

LEMMA SingleStep ==
  ASSUME ~Overlap, TypeOK, Delivery, Single, [Next]_vars
  PROVE  Single'
<1>1. CASE UNCHANGED vars
  BY <1>1 DEF vars, database, processes, loops, history, Single, OneProcess, OneRow,
              Exclusive, StatusOf, Registered
<1>2. QED
  BY <1>1, SingleStart, SingleDie, SingleSignal, SingleCommand, SingleSection, SingleLoop
     DEF Next, Stop

Final == \A r \in Run : status[r] \in Terminal => status'[r] \in {status[r], "deleted"}

LEMMA FinalStep ==
  ASSUME TypeOK, Delivery, Single, [Next]_vars
  PROVE  Final
<1> USE DEF database, processes, loops, history
<1>1. CASE UNCHANGED status
  BY <1>1 DEF Final
<1>2. ASSUME NEW p \in Process, Start(p) \/ Stop(p) \/ Interrupt(p) \/ Signal(p) PROVE Final
  BY <1>1, <1>2 DEF Start, Stop, Interrupt, Signal, Die
<1>3. ASSUME NEW p \in Process, Command(p) PROVE Final
  <2>1. CASE \E t \in Topic : DeleteTopic(p, t)
    BY <2>1 DEF DeleteTopic, Final
  <2>2. CASE ~\E t \in Topic : DeleteTopic(p, t)
    BY <1>1, <1>3, <2>2 DEF Command, CreateTopic, LookupActiveRun, RequestCancel, Inject
  <2>3. QED
    BY <2>1, <2>2
<1>4. ASSUME NEW p \in Process, SectionStep(p) PROVE Final
  <2>1. CASE FoundActiveRun(p) \/ WriteThrows(p)
    BY <1>1, <2>1 DEF FoundActiveRun, WriteThrows
  <2>2. CASE ReapStaleRun(p) \/ MarkCancelled(p)
    <3>1. status[section[p].run] = "running"
      BY <2>2 DEF ReapStaleRun, MarkCancelled, Single, Exclusive
    <3>2. \A r \in Run : status[r] \in Terminal => status'[r] = status[r]
      BY <2>2, <3>1 DEF ReapStaleRun, MarkCancelled, SetStatus, TypeOK
    <3>3. QED
      BY <3>2 DEF Final
  <2>3. CASE CreateRun(p)
    BY <2>3 DEF CreateRun, Final, TypeOK
  <2>4. QED
    BY <1>4, <2>1, <2>2, <2>3 DEF SectionStep
<1>5. ASSUME NEW s \in Run, LoopStep(s) PROVE Final
  <2>1. CASE Answer(s)
    <3>1. status[s] \in {"running", "deleted"}
      BY <2>1 DEF Answer, Resumes, Single, StatusOf
    <3>2. QED
      BY <2>1, <3>1 DEF Answer, SetStatus, Final, TypeOK
  <2>2. CASE FinishFailed(s)
    <3>1. status[s] \in {"running", "deleted"} \/ (status[s] = "cancelled" /\ s \in aborted)
      BY <2>2 DEF FinishFailed, Single, StatusOf
    <3>2. QED
      BY <2>2, <3>1 DEF FinishFailed, SetStatus, Final, TypeOK
  <2>3. CASE ~Answer(s) /\ ~FinishFailed(s)
    BY <1>1, <1>5, <2>3
       DEF LoopStep, ContextBuilt, CallFails, StopAtTop, BeginIteration, CallTools, ToolReturns,
           SaveMessages, StoreSummary
  <2>4. QED
    BY <2>1, <2>2, <2>3
<1>6. QED
  BY ONLY [Next]_vars, <1>1, <1>2, <1>3, <1>4, <1>5 DEF Next, vars

\* What the step lemmas amount to.
LEMMA SingleInvariant ==
  ASSUME ~Overlap
  PROVE  Spec => [](TypeOK /\ Delivery /\ Single)
<1>1. TypeOK /\ Delivery /\ Single /\ [Next]_vars => (TypeOK /\ Delivery /\ Single)'
  BY TypeStep, DeliveryStep, SingleStep
<1>2. Init => TypeOK /\ Delivery /\ Single
  BY TypeInit, DeliveryInit, SingleInit
<1>3. QED
  BY <1>1, <1>2, PTL DEF Spec

\* Where processes do not overlap, a topic never has two active runs, however
\* sends, lookups, cancellations, crashes and restarts follow one another.
THEOREM OneActiveRunHolds ==
  ASSUME ~Overlap
  PROVE  Spec => []OneActiveRun
<1>1. Single => OneActiveRun
  BY DEF Single, OneRow, OneActiveRun
<1>2. QED
  BY <1>1, SingleInvariant, PTL

\* Where processes do not overlap, the messages of a cancelled run are never saved,
\* wherever its loop was when the cancellation came.
THEOREM CancelledNeverSavedHolds ==
  ASSUME ~Overlap
  PROVE  Spec => []CancelledNeverSaved
<1>1. TypeOK /\ Single => CancelledNeverSaved
  BY DEF TypeOK, Single, StatusOf, CancelledNeverSaved
<1>2. QED
  BY <1>1, SingleInvariant, PTL

\* Where processes do not overlap, done, error and cancelled are final.
THEOREM TerminalIsFinalHolds ==
  ASSUME ~Overlap
  PROVE  Spec => TerminalIsFinal
<1>1. TypeOK /\ Delivery /\ Single /\ [Next]_vars => [Final]_vars
  BY FinalStep
<1>2. [Final]_vars =>
        [\A r \in Run : status[r] \in Terminal => status'[r] \in {status[r], "deleted"}]_vars
  BY DEF Final
<1>3. QED
  BY <1>1, <1>2, SingleInvariant, PTL DEF Spec, TerminalIsFinal

Quiet == \A r \in Run : status[r] = "cancelled" => iterations'[r] = iterations[r]

LEMMA QuietStep ==
  ASSUME TypeOK, Single, [Next]_vars
  PROVE  Quiet
<1> USE DEF database, processes, loops, history
<1>1. CASE UNCHANGED iterations
  BY <1>1 DEF Quiet
<1>2. ASSUME NEW p \in Process, Start(p) \/ Stop(p) \/ Interrupt(p) \/ Signal(p) PROVE Quiet
  BY <1>1, <1>2 DEF Start, Stop, Interrupt, Signal, Die
<1>3. ASSUME NEW p \in Process, Command(p) PROVE Quiet
  BY <1>1, <1>3 DEF Command, CreateTopic, DeleteTopic, LookupActiveRun, RequestCancel, Inject
<1>4. ASSUME NEW p \in Process, SectionStep(p) PROVE Quiet
  BY <1>1, <1>4 DEF SectionStep, FoundActiveRun, ReapStaleRun, MarkCancelled, CreateRun,
                     WriteThrows
<1>5. ASSUME NEW s \in Run, LoopStep(s) PROVE Quiet
  <2>1. CASE BeginIteration(s)
    <3>1. status[s] # "cancelled"
      BY <2>1 DEF BeginIteration, Single, StatusOf
    <3>2. QED
      BY <2>1, <3>1 DEF BeginIteration, Quiet, TypeOK
  <2>2. CASE ~BeginIteration(s)
    BY <1>1, <1>5, <2>2
       DEF LoopStep, ContextBuilt, CallFails, StopAtTop, CallTools, ToolReturns, Answer,
           SaveMessages, StoreSummary, FinishFailed
  <2>3. QED
    BY <2>1, <2>2
<1>6. QED
  BY ONLY [Next]_vars, <1>1, <1>2, <1>3, <1>4, <1>5 DEF Next, vars

\* Where processes do not overlap, the loop of a cancelled run calls the LLM no more.
THEOREM NoCallAfterCancelHolds ==
  ASSUME ~Overlap
  PROVE  Spec => NoCallAfterCancel
<1>1. TypeOK /\ Delivery /\ Single /\ [Next]_vars => [Quiet]_vars
  BY QuietStep
<1>2. [Quiet]_vars =>
        [\A r \in Run : status[r] = "cancelled" => iterations'[r] = iterations[r]]_vars
  BY DEF Quiet
<1>3. QED
  BY <1>1, <1>2, SingleInvariant, PTL DEF Spec, NoCallAfterCancel

=============================================================================
