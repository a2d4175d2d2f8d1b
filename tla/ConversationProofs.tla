------------------------- MODULE ConversationProofs -------------------------
(***************************************************************************)
(* Theorems about Conversation: its types, that the two lists of the loop   *)
(* never part, that every request has the form its protocol demands, and    *)
(* that a run is told the conversation before it, whatever the numbers of   *)
(* runs, calls, injections and iterations.                                  *)
(***************************************************************************)
EXTENDS Conversation, SequenceTheorems, FiniteSetTheorems, WellFoundedInduction, TLAPS

-----------------------------------------------------------------------------
(* Sequences of messages.                                                  *)

IdSet == Run \X (0..maxIterations) \X (0..MaxCalls)

MessageSet == [role : {"user", "assistant", "tool"}, run : {0} \cup Run, ids : Seq(IdSet), image : BOOLEAN]

\* The results that follow a message are those of its calls, in order.
Answered(s) ==
  \A n \in 1..Len(s) : s[n].role = "assistant" =>
    \A i \in 1..Len(s[n].ids) : n + i <= Len(s) => s[n + i].role = "tool" /\ s[n + i].ids = <<s[n].ids[i]>>

\* Every result is one of a call.
Asked(s) ==
  \A n \in 1..Len(s) : s[n].role = "tool" =>
    \E asked \in 1..n - 1 : s[asked].role = "assistant" /\ n - asked <= Len(s[asked].ids)

\* The user begins, and goes on after an answer.
Turns(s) ==
  /\ Len(s) > 0 => s[1].role = "user"
  /\ \A n \in 1..Len(s) - 1 : s[n].role = "assistant" /\ Len(s[n].ids) = 0 => s[n + 1].role = "user"

WellFormed(s) == s \in Seq(MessageSet) /\ Answered(s) /\ Asked(s) /\ Turns(s)

\* No call waits for its result.
Settled(s) == \A n \in 1..Len(s) : s[n].role = "assistant" => n + Len(s[n].ids) <= Len(s)

\* The LLM can be asked.
Open(s) == Len(s) > 0 /\ s[Len(s)].role # "assistant" /\ Settled(s)

\* The last calls are those of the batch, and the first j of them have results.
Owes(s, batch, j) ==
  /\ batch \in Seq(IdSet) /\ j \in Nat /\ j < Len(batch) /\ j < Len(s)
  /\ s[Len(s) - j].role = "assistant" /\ s[Len(s) - j].ids = batch
  /\ \A n \in 1..Len(s) : n # Len(s) - j /\ s[n].role = "assistant" => n + Len(s[n].ids) <= Len(s)

LEMMA MessageTypes ==
  ASSUME NEW s \in Seq(MessageSet), NEW n \in 1..Len(s)
  PROVE  /\ Len(s) \in Nat /\ s[n] \in MessageSet
         /\ s[n].role \in {"user", "assistant", "tool"} /\ s[n].run \in {0} \cup Run
         /\ s[n].ids \in Seq(IdSet) /\ Len(s[n].ids) \in Nat /\ s[n].image \in BOOLEAN
<1>1. s[n] \in MessageSet /\ Len(s) \in Nat
  OBVIOUS
<1> QED
  BY <1>1 DEF MessageSet

\* What follows a settled conversation.
LEMMA Concat ==
  ASSUME NEW s, WellFormed(s), Settled(s), NEW t, WellFormed(t)
  PROVE  /\ WellFormed(s \o t)
         /\ Settled(t) => Settled(s \o t)
         /\ Len(s \o t) = Len(s) + Len(t)
<1> DEFINE u == s \o t
<1>1. /\ s \in Seq(MessageSet) /\ t \in Seq(MessageSet) /\ u \in Seq(MessageSet)
      /\ Len(s) \in Nat /\ Len(t) \in Nat /\ Len(u) = Len(s) + Len(t)
  BY DEF WellFormed
<1>2. \A n \in 1..Len(s) : u[n] = s[n]
  BY <1>1
<1>3. \A n \in 1..Len(t) : u[Len(s) + n] = t[n]
  BY <1>1
<1>4. \A n \in 1..Len(u) : n \in 1..Len(s) \/ (n - Len(s) \in 1..Len(t) /\ n = Len(s) + (n - Len(s)))
  BY <1>1
<1>5. \A n \in 1..Len(s) : Len(s[n].ids) \in Nat
  BY <1>1, MessageTypes
<1>6. \A n \in 1..Len(t) : Len(t[n].ids) \in Nat
  BY <1>1, MessageTypes
<1> HIDE DEF u
<1>7. Answered(u)
  <2> SUFFICES ASSUME NEW n \in 1..Len(u), u[n].role = "assistant", NEW i \in 1..Len(u[n].ids), n + i <= Len(u)
               PROVE  u[n + i].role = "tool" /\ u[n + i].ids = <<u[n].ids[i]>>
    BY DEF Answered
  <2>1. CASE n \in 1..Len(s)
    <3>1. u[n] = s[n] /\ Len(s[n].ids) \in Nat
      BY <1>2, <1>5, <2>1
    <3>2. n + Len(s[n].ids) <= Len(s)
      BY <2>1, <3>1 DEF Settled
    <3>3. i \in 1..Len(s[n].ids) /\ s[n].role = "assistant"
      BY <3>1
    <3>4. n + i <= Len(s) /\ n + i \in 1..Len(s)
      BY <1>1, <2>1, <3>1, <3>2, <3>3
    <3>5. s[n + i].role = "tool" /\ s[n + i].ids = <<s[n].ids[i]>>
      BY <2>1, <3>3, <3>4 DEF WellFormed, Answered
    <3>6. u[n + i] = s[n + i]
      BY <1>2, <3>4
    <3> QED
      BY <3>1, <3>5, <3>6
  <2>2. CASE n \notin 1..Len(s)
    <3> DEFINE m == n - Len(s)
    <3>1. m \in 1..Len(t) /\ n = Len(s) + m
      BY <1>4, <2>2
    <3>2. u[n] = t[m]
      BY <1>3, <3>1
    <3>3. m + i \in 1..Len(t) /\ n + i = Len(s) + (m + i)
      BY <1>1, <1>6, <3>1, <3>2
    <3> HIDE DEF m
    <3>4. u[n + i] = t[m + i]
      BY <1>3, <3>3
    <3> QED
      BY <1>1, <3>1, <3>2, <3>3, <3>4 DEF WellFormed, Answered
  <2> QED
    BY <2>1, <2>2
<1>8. Asked(u)
  <2> SUFFICES ASSUME NEW n \in 1..Len(u), u[n].role = "tool"
               PROVE  \E asked \in 1..n - 1 : u[asked].role = "assistant" /\ n - asked <= Len(u[asked].ids)
    BY DEF Asked
  <2>1. CASE n \in 1..Len(s)
    <3>1. PICK asked \in 1..n - 1 : s[asked].role = "assistant" /\ n - asked <= Len(s[asked].ids)
      BY <1>2, <2>1 DEF WellFormed, Asked
    <3>2. asked \in 1..Len(s)
      BY <1>1, <2>1
    <3> QED
      BY <1>2, <3>1, <3>2
  <2>2. CASE n \notin 1..Len(s)
    <3> DEFINE m == n - Len(s)
    <3>1. m \in 1..Len(t) /\ n = Len(s) + m
      BY <1>4, <2>2
    <3>2. u[n] = t[m]
      BY <1>3, <3>1
    <3> HIDE DEF m
    <3>3. PICK k \in 1..m - 1 : t[k].role = "assistant" /\ m - k <= Len(t[k].ids)
      BY <3>1, <3>2 DEF WellFormed, Asked
    <3>4. /\ k \in 1..Len(t) /\ Len(s) + k \in 1..n - 1 /\ n - (Len(s) + k) = m - k
      BY <1>1, <3>1
    <3>5. u[Len(s) + k] = t[k]
      BY <1>3, <3>4
    <3> QED
      BY <3>3, <3>4, <3>5
  <2> QED
    BY <2>1, <2>2
<1>9. Turns(u)
  <2>1. Len(u) > 0 => u[1].role = "user"
    <3>1. CASE Len(s) > 0
      BY <1>1, <1>2, <3>1 DEF WellFormed, Turns
    <3>2. CASE Len(s) = 0
      <4>1. Len(u) > 0 => Len(t) > 0 /\ u[1] = t[1]
        BY <1>1, <1>3, <3>2
      <4> QED
        BY <4>1 DEF WellFormed, Turns
    <3> QED
      BY <1>1, <3>1, <3>2
  <2>2. ASSUME NEW n \in 1..Len(u) - 1, u[n].role = "assistant", Len(u[n].ids) = 0 PROVE u[n + 1].role = "user"
    <3>1. CASE n \in 1..Len(s) - 1
      <4>1. n \in 1..Len(s) /\ n + 1 \in 1..Len(s)
        BY <1>1, <3>1
      <4> QED
        BY <1>1, <1>2, <2>2, <3>1, <4>1 DEF WellFormed, Turns
    <3>2. CASE n = Len(s)
      <4>1. 1 \in 1..Len(t) /\ Len(t) > 0 /\ n + 1 = Len(s) + 1
        BY <1>1, <3>2
      <4>2. u[n + 1] = t[1]
        BY <1>3, <4>1
      <4> QED
        BY <4>1, <4>2 DEF WellFormed, Turns
    <3>3. CASE n > Len(s)
      <4> DEFINE m == n - Len(s)
      <4>1. m \in 1..Len(t) - 1 /\ m \in 1..Len(t) /\ m + 1 \in 1..Len(t) /\ n = Len(s) + m /\ n + 1 = Len(s) + (m + 1)
        BY <1>1, <3>3
      <4> HIDE DEF m
      <4>2. u[n] = t[m] /\ u[n + 1] = t[m + 1]
        BY <1>3, <4>1
      <4> QED
        BY <2>2, <4>1, <4>2 DEF WellFormed, Turns
    <3> QED
      BY <1>1, <3>1, <3>2, <3>3
  <2> QED
    BY <2>1, <2>2 DEF Turns
<1>10. Settled(t) => Settled(u)
  <2> SUFFICES ASSUME Settled(t), NEW n \in 1..Len(u), u[n].role = "assistant"
               PROVE  n + Len(u[n].ids) <= Len(u)
    BY DEF Settled
  <2>1. CASE n \in 1..Len(s)
    <3>1. u[n] = s[n] /\ Len(s[n].ids) \in Nat
      BY <1>2, <1>5, <2>1
    <3>2. n + Len(s[n].ids) <= Len(s)
      BY <2>1, <3>1 DEF Settled
    <3> QED
      BY <1>1, <2>1, <3>1, <3>2
  <2>2. CASE n \notin 1..Len(s)
    <3> DEFINE m == n - Len(s)
    <3>1. m \in 1..Len(t) /\ n = Len(s) + m
      BY <1>4, <2>2
    <3>2. u[n] = t[m]
      BY <1>3, <3>1
    <3> HIDE DEF m
    <3>3. m + Len(t[m].ids) <= Len(t)
      BY <3>1, <3>2 DEF Settled
    <3>4. Len(u[n].ids) = Len(t[m].ids) /\ Len(t[m].ids) \in Nat
      BY <1>6, <3>1, <3>2
    <3>5. \A calls \in Nat : m + calls <= Len(t) => n + calls <= Len(u)
      BY <1>1, <3>1
    <3> QED
      BY <3>3, <3>4, <3>5
  <2> QED
    BY <2>1, <2>2
<1> QED
  BY <1>1, <1>7, <1>8, <1>9, <1>10 DEF WellFormed, u

\* A message that is added.
LEMMA AddOne ==
  ASSUME NEW s \in Seq(MessageSet), NEW m \in MessageSet
  PROVE  /\ s \o <<m>> \in Seq(MessageSet) /\ Len(s \o <<m>>) = Len(s) + 1 /\ Len(s) \in Nat
         /\ \A n \in 1..Len(s) : (s \o <<m>>)[n] = s[n]
         /\ (s \o <<m>>)[Len(s) + 1] = m
OBVIOUS

\* What users say.
LEMMA UsersSay ==
  ASSUME NEW t \in Seq(MessageSet), \A n \in 1..Len(t) : t[n].role = "user"
  PROVE  WellFormed(t) /\ Settled(t)
BY DEF WellFormed, Answered, Asked, Turns, Settled

\* What the LLM says: an answer, or calls.
LEMMA AssistantSays ==
  ASSUME NEW s, WellFormed(s), Open(s), NEW m \in MessageSet, m.role = "assistant"
  PROVE  /\ WellFormed(s \o <<m>>)
         /\ Len(m.ids) = 0 => Settled(s \o <<m>>)
         /\ Len(m.ids) > 0 => Owes(s \o <<m>>, m.ids, 0)
<1> DEFINE u == s \o <<m>>
<1>1. /\ u \in Seq(MessageSet) /\ Len(u) = Len(s) + 1 /\ Len(s) \in Nat
      /\ \A n \in 1..Len(s) : u[n] = s[n]
      /\ u[Len(s) + 1] = m
  BY AddOne DEF WellFormed
<1>2. \A n \in 1..Len(s) : Len(s[n].ids) \in Nat /\ s[n].role \in {"user", "assistant", "tool"}
  BY MessageTypes DEF WellFormed
<1>3. Len(m.ids) \in Nat /\ m.ids \in Seq(IdSet)
  BY DEF MessageSet
<1>4. \A n \in 1..Len(u) : n \in 1..Len(s) \/ n = Len(s) + 1
  BY <1>1
<1> HIDE DEF u
<1>5. \A n \in 1..Len(s) : s[n].role = "assistant" => n + Len(s[n].ids) <= Len(s)
  BY DEF Open, Settled
<1>6. Answered(u)
  <2> SUFFICES ASSUME NEW n \in 1..Len(u), u[n].role = "assistant", NEW i \in 1..Len(u[n].ids), n + i <= Len(u)
               PROVE  u[n + i].role = "tool" /\ u[n + i].ids = <<u[n].ids[i]>>
    BY DEF Answered
  <2>1. n \in 1..Len(s)
    BY <1>1, <1>3, <1>4
  <2>2. u[n] = s[n] /\ n + Len(s[n].ids) <= Len(s) /\ Len(s[n].ids) \in Nat
    BY <1>1, <1>2, <1>5, <2>1
  <2>3. n + i <= Len(s) /\ n + i \in 1..Len(s)
    BY <1>1, <2>1, <2>2
  <2> QED
    BY <1>1, <2>1, <2>2, <2>3 DEF WellFormed, Answered
<1>7. Asked(u)
  <2> SUFFICES ASSUME NEW n \in 1..Len(u), u[n].role = "tool"
               PROVE  \E asked \in 1..n - 1 : u[asked].role = "assistant" /\ n - asked <= Len(u[asked].ids)
    BY DEF Asked
  <2>1. n \in 1..Len(s)
    BY <1>1, <1>4
  <2>2. PICK asked \in 1..n - 1 : s[asked].role = "assistant" /\ n - asked <= Len(s[asked].ids)
    BY <1>1, <2>1 DEF WellFormed, Asked
  <2>3. asked \in 1..Len(s)
    BY <1>1, <2>1
  <2> QED
    BY <1>1, <2>2, <2>3
<1>8. Turns(u)
  <2>1. u[1].role = "user"
    BY <1>1 DEF WellFormed, Turns, Open
  <2>2. ASSUME NEW n \in 1..Len(u) - 1, u[n].role = "assistant", Len(u[n].ids) = 0 PROVE u[n + 1].role = "user"
    <3>1. n \in 1..Len(s) /\ n # Len(s)
      BY <1>1, <2>2 DEF Open
    <3>2. n \in 1..Len(s) - 1 /\ n + 1 \in 1..Len(s)
      BY <1>1, <3>1
    <3> QED
      BY <1>1, <2>2, <3>1, <3>2 DEF WellFormed, Turns
  <2> QED
    BY <2>1, <2>2 DEF Turns
<1>9. \A n \in 1..Len(u) : n # Len(u) /\ u[n].role = "assistant" => n + Len(u[n].ids) <= Len(u)
  <2> SUFFICES ASSUME NEW n \in 1..Len(u), n # Len(u), u[n].role = "assistant" PROVE n + Len(u[n].ids) <= Len(u)
    OBVIOUS
  <2>1. n \in 1..Len(s)
    BY <1>1, <1>4
  <2> QED
    BY <1>1, <1>2, <1>5, <2>1
<1>10. Len(m.ids) = 0 => Settled(u)
  BY <1>1, <1>3, <1>9 DEF Settled
<1>11. Len(m.ids) > 0 => Owes(u, m.ids, 0)
  <2>1. Len(u) - 0 = Len(u) /\ 0 < Len(u)
    BY <1>1
  <2> QED
    BY <1>1, <1>3, <1>9, <2>1 DEF Owes
<1> QED
  BY <1>1, <1>6, <1>7, <1>8, <1>10, <1>11 DEF WellFormed, u

\* A tool returns.
LEMMA ToolSays ==
  ASSUME NEW s, WellFormed(s), NEW batch, NEW j, Owes(s, batch, j),
         NEW m \in MessageSet, m.role = "tool", m.ids = <<batch[j + 1]>>
  PROVE  /\ WellFormed(s \o <<m>>)
         /\ j + 1 < Len(batch) => Owes(s \o <<m>>, batch, j + 1)
         /\ j + 1 = Len(batch) => Open(s \o <<m>>)
<1> DEFINE u == s \o <<m>>
           k == Len(s) - j
<1>1. /\ u \in Seq(MessageSet) /\ Len(u) = Len(s) + 1 /\ Len(s) \in Nat
      /\ \A n \in 1..Len(s) : u[n] = s[n]
      /\ u[Len(s) + 1] = m
  BY AddOne DEF WellFormed
<1>2. \A n \in 1..Len(s) : Len(s[n].ids) \in Nat /\ s[n].role \in {"user", "assistant", "tool"}
  BY MessageTypes DEF WellFormed
<1>3. \A n \in 1..Len(u) : n \in 1..Len(s) \/ n = Len(s) + 1
  BY <1>1
<1>4. /\ batch \in Seq(IdSet) /\ j \in Nat /\ j < Len(batch) /\ Len(batch) \in Nat
      /\ k \in 1..Len(s) /\ k + j = Len(s) /\ s[k].role = "assistant" /\ s[k].ids = batch
  BY <1>1 DEF Owes
<1>5. \A n \in 1..Len(s) : n # k /\ s[n].role = "assistant" => n + Len(s[n].ids) <= Len(s)
  BY DEF Owes
<1> HIDE DEF u, k
<1>6. Answered(u)
  <2> SUFFICES ASSUME NEW n \in 1..Len(u), u[n].role = "assistant", NEW i \in 1..Len(u[n].ids), n + i <= Len(u)
               PROVE  u[n + i].role = "tool" /\ u[n + i].ids = <<u[n].ids[i]>>
    BY DEF Answered
  <2>1. n \in 1..Len(s) /\ u[n] = s[n] /\ Len(s[n].ids) \in Nat
    BY <1>1, <1>2, <1>3
  <2>2. CASE n + i <= Len(s)
    <3>1. n + i \in 1..Len(s)
      BY <1>1, <2>1, <2>2
    <3> QED
      BY <1>1, <2>1, <2>2, <3>1 DEF WellFormed, Answered
  <2>3. CASE n + i > Len(s)
    <3>1. n = k
      BY <1>1, <1>5, <2>1, <2>3
    <3>2. n + i = Len(s) + 1 /\ i = j + 1
      <4>1. i \in Nat /\ n + i <= Len(s) + 1 /\ n + i > Len(s)
        BY <1>1, <2>1, <2>3
      <4>2. n \in Nat /\ j \in Nat /\ Len(s) \in Nat /\ n + j = Len(s)
        BY <1>1, <1>4, <3>1
      <4> QED
        BY <4>1, <4>2
    <3> QED
      BY <1>1, <1>4, <2>1, <3>1, <3>2
  <2> QED
    BY <1>1, <2>1, <2>2, <2>3
<1>7. Asked(u)
  <2> SUFFICES ASSUME NEW n \in 1..Len(u), u[n].role = "tool"
               PROVE  \E asked \in 1..n - 1 : u[asked].role = "assistant" /\ n - asked <= Len(u[asked].ids)
    BY DEF Asked
  <2>1. CASE n \in 1..Len(s)
    <3>1. PICK asked \in 1..n - 1 : s[asked].role = "assistant" /\ n - asked <= Len(s[asked].ids)
      BY <1>1, <2>1 DEF WellFormed, Asked
    <3>2. asked \in 1..Len(s)
      BY <1>1, <2>1
    <3> QED
      BY <1>1, <3>1, <3>2
  <2>2. CASE n = Len(s) + 1
    <3>1. k \in 1..n - 1 /\ n - k = j + 1 /\ u[k] = s[k]
      BY <1>1, <1>4, <2>2
    <3> QED
      BY <1>4, <3>1
  <2> QED
    BY <1>3, <2>1, <2>2
<1>8. Turns(u)
  <2>1. u[1].role = "user"
    BY <1>1, <1>4 DEF WellFormed, Turns
  <2>2. ASSUME NEW n \in 1..Len(u) - 1, u[n].role = "assistant", Len(u[n].ids) = 0 PROVE u[n + 1].role = "user"
    <3>1. n \in 1..Len(s) /\ u[n] = s[n]
      BY <1>1
    <3>2. n # k
      BY <1>4, <2>2, <3>1
    <3>3. n # Len(s)
      <4>1. CASE j = 0
        BY <1>1, <1>4, <3>2, <4>1
      <4>2. CASE j # 0
        <5>1. j \in 1..Len(s[k].ids) /\ k + j <= Len(s)
          BY <1>4, <4>2
        <5>2. s[k + j].role = "tool"
          BY <1>4, <5>1 DEF WellFormed, Answered
        <5> QED
          BY <1>4, <2>2, <3>1, <5>2
      <4> QED
        BY <4>1, <4>2
    <3>4. n \in 1..Len(s) - 1 /\ n + 1 \in 1..Len(s)
      BY <1>1, <3>1, <3>3
    <3> QED
      BY <1>1, <2>2, <3>1, <3>4 DEF WellFormed, Turns
  <2> QED
    BY <2>1, <2>2 DEF Turns
<1>9. \A n \in 1..Len(u) : n # k /\ u[n].role = "assistant" => n + Len(u[n].ids) <= Len(u)
  <2> SUFFICES ASSUME NEW n \in 1..Len(u), n # k, u[n].role = "assistant" PROVE n + Len(u[n].ids) <= Len(u)
    OBVIOUS
  <2>1. n \in 1..Len(s)
    BY <1>1, <1>3
  <2> QED
    BY <1>1, <1>2, <1>5, <2>1
<1>10. u[k] = s[k] /\ Len(u) - (j + 1) = k
  BY <1>1, <1>4
<1>11. j + 1 < Len(batch) => Owes(u, batch, j + 1)
  <2>1. j + 1 \in Nat /\ j + 1 < Len(u)
    BY <1>1, <1>4
  <2>2. u[Len(u) - (j + 1)].role = "assistant" /\ u[Len(u) - (j + 1)].ids = batch
    BY <1>4, <1>10
  <2>3. \A n \in 1..Len(u) : n # Len(u) - (j + 1) /\ u[n].role = "assistant" => n + Len(u[n].ids) <= Len(u)
    BY <1>9, <1>10
  <2> QED
    BY <1>4, <2>1, <2>2, <2>3 DEF Owes
<1>12. j + 1 = Len(batch) => Open(u)
  <2> SUFFICES ASSUME j + 1 = Len(batch) PROVE Open(u)
    OBVIOUS
  <2>1. Len(u) > 0 /\ u[Len(u)].role # "assistant"
    BY <1>1
  <2>2. k + Len(u[k].ids) <= Len(u)
    <3>1. u[k].ids = batch
      BY <1>4, <1>10
    <3>2. k \in Nat
      BY <1>4
    <3>3. k + Len(batch) <= Len(u)
      BY <1>1, <1>4, <3>2
    <3>4. Len(u[k].ids) = Len(batch)
      BY <3>1
    <3> QED
      BY <3>3, <3>4, Zenon
  <2> QED
    BY <1>9, <2>1, <2>2 DEF Open, Settled
<1> QED
  BY <1>1, <1>6, <1>7, <1>8, <1>11, <1>12 DEF WellFormed, u

\* The calls that no tool message answers are those of the batch after the first j.
Calls(s, role) == UNION {ToSet(m.ids) : m \in {m \in ToSet(s) : m.role = role}}

Batch(r, turn, size) == [i \in 1..size |-> <<r, turn, i>>]

\* The other calls were made in earlier iterations.
Earlier(s, j, turn) ==
  \A n \in 1..Len(s) : n # Len(s) - j /\ s[n].role = "assistant" =>
    \A i \in 1..Len(s[n].ids) : s[n].ids[i][2] < turn

LEMMA InCalls ==
  ASSUME NEW s \in Seq(MessageSet), NEW role, NEW x
  PROVE  x \in Calls(s, role) <=>
           \E n \in 1..Len(s) : s[n].role = role /\ \E i \in 1..Len(s[n].ids) : x = s[n].ids[i]
<1>1. DOMAIN s = 1..Len(s)
  OBVIOUS
<1>2. \A n \in 1..Len(s) : DOMAIN s[n].ids = 1..Len(s[n].ids)
  <2>1. \A n \in 1..Len(s) : s[n].ids \in Seq(IdSet)
    BY MessageTypes
  <2> QED
    BY <2>1
<1>3. Calls(s, role) = UNION {ToSet(m.ids) : m \in {m \in {s[n] : n \in 1..Len(s)} : m.role = role}}
  BY <1>1 DEF Calls, ToSet
<1>4. \A n \in 1..Len(s) : ToSet(s[n].ids) = {s[n].ids[i] : i \in 1..Len(s[n].ids)}
  BY <1>2 DEF ToSet
<1>5. ASSUME x \in Calls(s, role)
      PROVE  \E n \in 1..Len(s) : s[n].role = role /\ \E i \in 1..Len(s[n].ids) : x = s[n].ids[i]
  <2>1. PICK m \in {s[n] : n \in 1..Len(s)} : m.role = role /\ x \in ToSet(m.ids)
    BY <1>3, <1>5
  <2>2. PICK n \in 1..Len(s) : m = s[n]
    BY <2>1
  <2> QED
    BY <1>4, <2>1, <2>2
<1>6. ASSUME NEW n \in 1..Len(s), s[n].role = role, NEW i \in 1..Len(s[n].ids), x = s[n].ids[i]
      PROVE  x \in Calls(s, role)
  <2>1. x \in ToSet(s[n].ids)
    BY <1>4, <1>6
  <2> QED
    BY <1>3, <1>6, <2>1
<1> QED
  BY <1>5, <1>6

LEMMA Waiting ==
  ASSUME NEW s, WellFormed(s), NEW batch, NEW j, Owes(s, batch, j),
         NEW r, NEW turn \in Nat, batch = Batch(r, turn, Len(batch)), Earlier(s, j, turn)
  PROVE  Calls(s, "assistant") \ Calls(s, "tool") = {batch[i] : i \in j + 1..Len(batch)}
<1> DEFINE k == Len(s) - j
<1>1. /\ s \in Seq(MessageSet) /\ Len(s) \in Nat /\ j \in Nat /\ Len(batch) \in Nat /\ j < Len(batch)
      /\ k \in 1..Len(s) /\ k + j = Len(s) /\ s[k].role = "assistant" /\ s[k].ids = batch
  BY DEF WellFormed, Owes
<1>2. \A n \in 1..Len(s) : n # k /\ s[n].role = "assistant" => n + Len(s[n].ids) <= Len(s)
  BY DEF Owes
<1>3. \A n \in 1..Len(s) : n # k /\ s[n].role = "assistant" =>
        \A i \in 1..Len(s[n].ids) : s[n].ids[i][2] < turn
  BY DEF Earlier
<1>4. \A i \in 1..Len(batch) : batch[i] = <<r, turn, i>>
  BY <1>1 DEF Batch
<1>5. \A n \in 1..Len(s) : Len(s[n].ids) \in Nat
  BY <1>1, MessageTypes
<1> HIDE DEF k
<1>6. ASSUME NEW i \in j + 1..Len(batch)
      PROVE  batch[i] \in Calls(s, "assistant") \ Calls(s, "tool")
  <2>1. i \in 1..Len(batch)
    BY <1>1
  <2>2. batch[i] \in Calls(s, "assistant")
    BY <1>1, <2>1, InCalls
  <2>3. ASSUME batch[i] \in Calls(s, "tool") PROVE FALSE
    <3>1. PICK p \in 1..Len(s) : s[p].role = "tool" /\ \E l \in 1..Len(s[p].ids) : batch[i] = s[p].ids[l]
      BY <1>1, <2>3, InCalls
    <3>2. PICK q \in 1..p - 1 : s[q].role = "assistant" /\ p - q <= Len(s[q].ids)
      BY <3>1 DEF WellFormed, Asked
    <3>3. q \in 1..Len(s) /\ p - q \in 1..Len(s[q].ids) /\ q + (p - q) = p /\ p <= Len(s)
      BY <1>1, <1>5, <3>2
    <3>4. s[p].ids = <<s[q].ids[p - q]>>
      BY <3>2, <3>3 DEF WellFormed, Answered
    <3>5. batch[i] = s[q].ids[p - q]
      BY <3>1, <3>4
    <3>6. batch[i] = <<r, turn, i>>
      BY <1>4, <2>1
    <3>7. CASE q = k
      <4>1. p - q \in 1..Len(batch) /\ batch[p - q] = <<r, turn, p - q>>
        BY <1>1, <1>4, <3>3, <3>7
      <4>2. s[q].ids = batch
        BY <1>1, <3>7
      <4>4. <<r, turn, i>> = <<r, turn, p - q>>
        BY <3>5, <3>6, <4>1, <4>2
      <4>5. i = p - q
        BY <4>4
      <4>3. p > Len(s)
        BY <1>1, <3>7, <4>5
      <4> QED
        BY <1>1, <3>3, <4>3
    <3>8. CASE q # k
      <4>1. s[q].ids[p - q][2] < turn
        BY <1>3, <3>2, <3>3, <3>8
      <4>2. s[q].ids[p - q][2] = turn
        BY <3>5, <3>6
      <4> QED
        BY <4>1, <4>2
    <3> QED
      BY <3>7, <3>8
  <2> QED
    BY <2>2, <2>3
<1>7. ASSUME NEW x \in Calls(s, "assistant"), x \notin Calls(s, "tool")
      PROVE  \E i \in j + 1..Len(batch) : x = batch[i]
  <2>1. PICK n \in 1..Len(s) : s[n].role = "assistant" /\ \E i \in 1..Len(s[n].ids) : x = s[n].ids[i]
    BY <1>1, <1>7, InCalls
  <2>2. PICK i \in 1..Len(s[n].ids) : x = s[n].ids[i]
    BY <2>1
  <2>3. n + i > Len(s)
    <3> SUFFICES ASSUME n + i <= Len(s) PROVE FALSE
      BY <1>1
    <3>1. n + i \in 1..Len(s) /\ s[n + i].role = "tool" /\ s[n + i].ids = <<x>>
      <4>1. Len(s[n].ids) \in Nat /\ i \in Nat
        BY <1>5, <2>2
      <4>2. n + i \in 1..Len(s)
        BY <1>1, <4>1
      <4>3. s[n + i].role = "tool" /\ s[n + i].ids = <<s[n].ids[i]>>
        BY <2>1 DEF WellFormed, Answered
      <4> QED
        BY <2>2, <4>2, <4>3
    <3>2. Len(s[n + i].ids) = 1 /\ s[n + i].ids[1] = x
      BY <3>1
    <3>3. x \in Calls(s, "tool")
      <4> DEFINE p == n + i
      <4>1. p \in 1..Len(s) /\ s[p].role = "tool" /\ 1 \in 1..Len(s[p].ids) /\ x = s[p].ids[1]
        BY <3>1, <3>2
      <4> HIDE DEF p
      <4> QED
        BY <1>1, <4>1, InCalls
    <3> QED
      BY <1>7, <3>3
  <2>4. n = k
    BY <1>1, <1>2, <1>5, <2>1, <2>2, <2>3
  <2>5. i \in j + 1..Len(batch)
    BY <1>1, <2>2, <2>3, <2>4
  <2> QED
    BY <1>1, <2>2, <2>4, <2>5
<1> QED
  BY <1>6, <1>7

\* The first of them is next, and it is the last when there is one.
FirstCall(waiting) == CHOOSE i \in waiting : \A other \in waiting : i[3] <= other[3]

\* The calls of a batch after the first j.
Rest(r, turn, size, j) == {Batch(r, turn, size)[i] : i \in j + 1..size}

LEMMA NextCall ==
  ASSUME NEW r, NEW turn, NEW size \in Nat, NEW j \in Nat, j < size
  PROVE  /\ FirstCall(Rest(r, turn, size, j)) = Batch(r, turn, size)[j + 1]
         /\ Cardinality(Rest(r, turn, size, j)) = 1 <=> j + 1 = size
<1> DEFINE at(i) == <<r, turn, i>>
           waiting == Rest(r, turn, size, j)
<1>1. /\ j + 1 \in j + 1..size /\ size \in j + 1..size
      /\ \A i \in j + 1..size : Batch(r, turn, size)[i] = at(i) /\ i \in Nat
  BY DEF Batch
<1>2. \A x : x \in waiting <=> \E i \in j + 1..size : x = at(i)
  BY <1>1 DEF Rest
<1> HIDE DEF waiting
<1>3. at(j + 1) \in waiting /\ at(size) \in waiting
  BY <1>1, <1>2
<1>4. \A x \in waiting : at(j + 1)[3] <= x[3]
  BY <1>1, <1>2
<1>5. \A x \in waiting : (\A other \in waiting : x[3] <= other[3]) => x = at(j + 1)
  <2> SUFFICES ASSUME NEW x \in waiting, \A other \in waiting : x[3] <= other[3] PROVE x = at(j + 1)
    OBVIOUS
  <2>1. PICK i \in j + 1..size : x = at(i)
    BY <1>2
  <2>2. x[3] <= at(j + 1)[3]
    BY <1>3
  <2>3. i <= j + 1
    BY <2>1, <2>2
  <2>4. i = j + 1
    BY <2>1, <2>3
  <2> QED
    BY <2>1, <2>4
<1>6. FirstCall(waiting) = at(j + 1)
  <2> HIDE DEF at
  <2> QED
    BY <1>3, <1>4, <1>5 DEF FirstCall
<1>7. ASSUME Cardinality(waiting) = 1 PROVE j + 1 = size
  <2>1. IsFiniteSet(waiting)
    <3> DEFINE f == [i \in j + 1..size |-> at(i)]
    <3>1. IsFiniteSet(j + 1..size)
      <4>1. j + 1 \in Int /\ size \in Int
        OBVIOUS
      <4> QED
        BY <4>1, FS_Interval
    <3>2. f \in Surjection(j + 1..size, waiting)
      <4>1. f \in [j + 1..size -> waiting]
        BY <1>2
      <4>2. \A x \in waiting : \E i \in j + 1..size : f[i] = x
        BY <1>2
      <4> HIDE DEF f
      <4> QED
        BY <4>1, <4>2 DEF Surjection
    <3> QED
      BY <3>1, <3>2, FS_Surjection
  <2>2. PICK x : waiting = {x}
    BY <1>7, <2>1, FS_Singleton
  <2>3. at(j + 1) = at(size)
    BY <1>3, <2>2
  <2> QED
    BY <2>3
<1>8. ASSUME j + 1 = size PROVE Cardinality(waiting) = 1
  <2>1. waiting = {at(size)}
    BY <1>1, <1>2, <1>8
  <2> QED
    BY <2>1, FS_Singleton
<1>9. FirstCall(waiting) = Batch(r, turn, size)[j + 1]
  BY <1>1, <1>6
<1> QED
  BY <1>7, <1>8, <1>9 DEF waiting

-----------------------------------------------------------------------------
(* Recursive functions of numbers.                                         *)

\* A set of numbers that is not empty has a first one.
LEMMA FirstOf ==
  ASSUME NEW S \in SUBSET Nat, S # {}
  PROVE  \E n \in S : n = 0 \/ (n - 1 \in Nat /\ n - 1 \notin S)
<1>1. PICK n \in S : \A m \in S : <<m, n>> \notin OpToRel(<, Nat)
  BY NatLessThanWellFounded, WFMin
<1>2. \A m \in S : ~(m < n)
  BY <1>1 DEF OpToRel
<1>3. n \in Nat
  OBVIOUS
<1> QED
  BY <1>2, <1>3

\* There is a function that begins with a value and goes on by a step.
Closed(N, D, base, step) == N \in Nat /\ base \in D /\ \A x \in D, n \in 1..N : step[<<x, n>>] \in D

Recursive(f, N, D, base, step) ==
  f \in [0..N -> D] /\ f[0] = base /\ \A n \in 1..N : f[n] = step[<<f[n - 1], n>>]

LEMMA Recursion ==
  ASSUME NEW N, NEW D, NEW base, NEW step, Closed(N, D, base, step)
  PROVE  \E f : Recursive(f, N, D, base, step)
<1> USE DEF Closed, Recursive
<1> DEFINE Goes(f, m) == f[0] = base /\ \A n \in 1..m : f[n] = step[<<f[n - 1], n>>]
           Bad == {m \in 0..N : \A f \in [0..m -> D] : ~Goes(f, m)}
<1>1. Bad = {}
  <2> SUFFICES ASSUME Bad # {} PROVE FALSE
    OBVIOUS
  <2>1. PICK m \in Bad : m = 0 \/ (m - 1 \in Nat /\ m - 1 \notin Bad)
    <3>1. Bad \in SUBSET Nat
      OBVIOUS
    <3> HIDE DEF Bad
    <3> QED
      BY <3>1, FirstOf
  <2>2. CASE m = 0
    <3> DEFINE g == [n \in 0..0 |-> base]
    <3>1. g \in [0..0 -> D] /\ Goes(g, 0)
      OBVIOUS
    <3> QED
      BY <2>1, <2>2, <3>1
  <2>3. CASE m # 0
    <3>1. m \in 1..N /\ m - 1 \in 0..N /\ m \notin 0..m - 1
      BY <2>1, <2>3
    <3>2. PICK f \in [0..m - 1 -> D] : Goes(f, m - 1)
      BY <2>1, <2>3, <3>1
    <3> DEFINE g == [n \in 0..m |-> IF n = m THEN step[<<f[m - 1], m>>] ELSE f[n]]
    <3>3. f[m - 1] \in D /\ step[<<f[m - 1], m>>] \in D
      BY <3>1, <3>2
    <3>4. \A n \in 0..m - 1 : g[n] = f[n] /\ f[n] \in D
      BY <3>1, <3>2
    <3>5. g[m] = step[<<f[m - 1], m>>]
      BY <3>1
    <3>6. g \in [0..m -> D]
      BY <3>1, <3>3, <3>4
    <3> HIDE DEF g
    <3>7. ASSUME NEW n \in 1..m PROVE g[n] = step[<<g[n - 1], n>>]
      <4>1. CASE n = m
        <5>1. g[m - 1] = f[m - 1]
          BY <3>1, <3>4
        <5> QED
          BY <3>5, <4>1, <5>1
      <4>2. CASE n # m
        <5>1. n \in 1..m - 1 /\ n \in 0..m - 1 /\ n - 1 \in 0..m - 1
          BY <3>1, <4>2
        <5> QED
          BY <3>2, <3>4, <5>1
      <4> QED
        BY <4>1, <4>2
    <3>8. Goes(g, m)
      BY <3>1, <3>2, <3>4, <3>7
    <3> QED
      BY <2>1, <3>6, <3>8
  <2> QED
    BY <2>2, <2>3
<1> QED
  BY <1>1

-----------------------------------------------------------------------------
(* The context of a run.                                                   *)

\* What the recursion of InOrder does at each number.
OrderStep(runs, x, n) == IF n \in runs THEN Append(x, n) ELSE x

Orders(g, runs) ==
  g[0] = <<>> /\ (\A n \in 1..MaxRuns : g[n] = OrderStep(runs, g[n - 1], n)) /\ InOrder(runs) = g[MaxRuns]

LEMMA InOrderSteps ==
  ASSUME NEW runs
  PROVE  \E g : Orders(g, runs)
<1> DEFINE step == [p \in Seq(Run) \X (1..MaxRuns) |-> OrderStep(runs, p[1], p[2])]
           Is(f) == f = [n \in 0..MaxRuns |-> IF n = 0 THEN <<>> ELSE OrderStep(runs, f[n - 1], n)]
           g == CHOOSE f : Is(f)
<1>1. MaxRuns \in Nat /\ <<>> \in Seq(Run)
  BY ConversationAssumption
<1>2. \A x \in Seq(Run), n \in 1..MaxRuns :
        step[<<x, n>>] = OrderStep(runs, x, n) /\ OrderStep(runs, x, n) \in Seq(Run)
  <2> SUFFICES ASSUME NEW x \in Seq(Run), NEW n \in 1..MaxRuns
               PROVE  step[<<x, n>>] = OrderStep(runs, x, n) /\ OrderStep(runs, x, n) \in Seq(Run)
    OBVIOUS
  <2>1. n \in Run
    BY DEF Run
  <2>2. OrderStep(runs, x, n) \in Seq(Run)
    BY <2>1 DEF OrderStep
  <2> QED
    BY <2>2
<1>3. PICK f \in [0..MaxRuns -> Seq(Run)] : f[0] = <<>> /\ \A n \in 1..MaxRuns : f[n] = step[<<f[n - 1], n>>]
  <2>1. \A x \in Seq(Run), n \in 1..MaxRuns : step[<<x, n>>] \in Seq(Run)
    BY <1>2
  <2> HIDE DEF step
  <2>2. Closed(MaxRuns, Seq(Run), <<>>, step)
    BY <1>1, <2>1 DEF Closed
  <2>3. PICK f : Recursive(f, MaxRuns, Seq(Run), <<>>, step)
    BY <2>2, Recursion
  <2> QED
    BY <2>3 DEF Recursive
<1> HIDE DEF step
<1>4. Is(f)
  <2>1. \A n \in 1..MaxRuns : n - 1 \in 0..MaxRuns
    BY <1>1
  <2>2. \A n \in 1..MaxRuns : f[n] = OrderStep(runs, f[n - 1], n)
    BY <1>2, <1>3, <2>1
  <2>3. \A n \in 0..MaxRuns : f[n] = IF n = 0 THEN <<>> ELSE OrderStep(runs, f[n - 1], n)
    BY <1>1, <1>3, <2>2
  <2> QED
    BY <1>3, <2>3
<1>5. Is(g)
  BY <1>4
<1>6. InOrder(runs) = g[MaxRuns]
  BY DEF InOrder, g, Is, OrderStep
<1> HIDE DEF g
<1>7. g[0] = <<>> /\ \A n \in 1..MaxRuns : g[n] = OrderStep(runs, g[n - 1], n)
  BY <1>1, <1>5
<1> QED
  BY <1>6, <1>7 DEF Orders

Increasing(s) == \A m, n \in 1..Len(s) : m < n => s[m] < s[n]

\* The runs of a set up to a number, in order.
OrderedUpTo(s, runs, n) ==
  /\ s \in Seq(Run) /\ Increasing(s)
  /\ \A i \in 1..Len(s) : s[i] \in runs /\ s[i] <= n
  /\ \A q \in runs \cap Run : q <= n => \E i \in 1..Len(s) : s[i] = q

LEMMA InOrderIs ==
  ASSUME NEW runs
  PROVE  OrderedUpTo(InOrder(runs), runs, MaxRuns)
<1>1. PICK g : Orders(g, runs)
  BY InOrderSteps
<1>2. MaxRuns \in Nat
  BY ConversationAssumption
<1> DEFINE Bad == {n \in 0..MaxRuns : ~OrderedUpTo(g[n], runs, n)}
<1>3. Bad = {}
  <2> SUFFICES ASSUME Bad # {} PROVE FALSE
    OBVIOUS
  <2>1. PICK n \in Bad : n = 0 \/ (n - 1 \in Nat /\ n - 1 \notin Bad)
    <3>1. Bad \in SUBSET Nat
      OBVIOUS
    <3> HIDE DEF Bad
    <3> QED
      BY <3>1, FirstOf
  <2>2. n # 0
    <3> SUFFICES ASSUME n = 0 PROVE FALSE
      OBVIOUS
    <3>1. g[0] = <<>> /\ <<>> \in Seq(Run) /\ Len(<<>>) = 0
      BY <1>1 DEF Orders
    <3>2. \A q \in Run : ~(q <= 0)
      BY <1>2 DEF Run
    <3>3. OrderedUpTo(g[0], runs, 0)
      BY <3>1, <3>2 DEF OrderedUpTo, Increasing
    <3> QED
      BY <2>1, <3>3
  <2>3. /\ n \in 1..MaxRuns /\ n - 1 \in 0..MaxRuns /\ n \in Run /\ n \in Nat
        /\ OrderedUpTo(g[n - 1], runs, n - 1) /\ ~OrderedUpTo(g[n], runs, n)
    BY <1>2, <2>1, <2>2 DEF Run
  <2> DEFINE s == g[n - 1]
             w == g[n]
  <2>4. w = OrderStep(runs, s, n)
    BY <1>1, <2>3 DEF Orders
  <2> HIDE DEF s, w
  <2>5. /\ s \in Seq(Run) /\ Increasing(s) /\ Len(s) \in Nat
        /\ \A i \in 1..Len(s) : s[i] \in runs /\ s[i] <= n - 1 /\ s[i] \in Nat
        /\ \A q \in runs \cap Run : q <= n - 1 => \E i \in 1..Len(s) : s[i] = q
    BY <1>2, <2>3 DEF OrderedUpTo, s, Run
  <2>6. \A q \in Run : q <= n => q <= n - 1 \/ q = n
    BY <1>2, <2>3 DEF Run
  <2>7. CASE n \in runs
    <3>1. /\ w \in Seq(Run) /\ Len(w) = Len(s) + 1 /\ w[Len(s) + 1] = n
          /\ \A i \in 1..Len(s) : w[i] = s[i] /\ i \in 1..Len(w)
      BY <2>3, <2>4, <2>5, <2>7 DEF OrderStep
    <3>2. \A i \in 1..Len(w) : i \in 1..Len(s) \/ i = Len(s) + 1
      BY <2>5, <3>1
    <3>3. Len(s) + 1 \in 1..Len(w)
      BY <2>5, <3>1
    <3>4. Increasing(w)
      <4> SUFFICES ASSUME NEW i \in 1..Len(w), NEW j \in 1..Len(w), i < j PROVE w[i] < w[j]
        BY DEF Increasing
      <4>1. i \in 1..Len(s)
        BY <2>5, <3>1, <3>2
      <4>2. CASE j \in 1..Len(s)
        BY <2>5, <3>1, <4>1, <4>2 DEF Increasing
      <4>3. CASE j = Len(s) + 1
        BY <2>3, <2>5, <3>1, <4>1, <4>3
      <4> QED
        BY <3>2, <4>2, <4>3
    <3>5. \A i \in 1..Len(w) : w[i] \in runs /\ w[i] <= n
      BY <2>3, <2>5, <2>7, <3>1, <3>2
    <3>6. \A q \in runs \cap Run : q <= n => \E i \in 1..Len(w) : w[i] = q
      BY <2>5, <2>6, <3>1, <3>3
    <3> QED
      BY <2>3, <3>1, <3>4, <3>5, <3>6 DEF OrderedUpTo, w
  <2>8. CASE n \notin runs
    <3>1. w = s
      BY <2>4, <2>8 DEF OrderStep
    <3>2. \A i \in 1..Len(s) : s[i] \in runs /\ s[i] <= n
      BY <2>3, <2>5
    <3>3. \A q \in runs \cap Run : q <= n => \E i \in 1..Len(s) : s[i] = q
      BY <2>5, <2>6, <2>8
    <3> QED
      BY <2>3, <2>5, <3>1, <3>2, <3>3 DEF OrderedUpTo, w
  <2> QED
    BY <2>7, <2>8
<1>4. MaxRuns \in 0..MaxRuns /\ InOrder(runs) = g[MaxRuns]
  BY <1>1, <1>2 DEF Orders
<1> QED
  BY <1>3, <1>4

LEMMA InOrderType ==
  ASSUME NEW runs
  PROVE  InOrder(runs) \in Seq(Run)
BY InOrderIs DEF OrderedUpTo

\* What the recursion of FlattenSeq does at each place.
Flattens(g, seqs) ==
  /\ g[1] = seqs[1] /\ \A n \in 1..Len(seqs) : n # 1 => g[n] = g[n - 1] \o seqs[n]
  /\ FlattenSeq(seqs) = g[Len(seqs)]

LEMMA FlattenSteps ==
  ASSUME NEW seqs, Len(seqs) \in Nat \ {0}, \A n \in 1..Len(seqs) : seqs[n] \in Seq(MessageSet)
  PROVE  \E g : Flattens(g, seqs)
<1> DEFINE N == Len(seqs)
           D == Seq(MessageSet)
           step == [p \in D \X (1..N) |-> p[1] \o seqs[p[2] + 1]]
           Is(f) == f = [n \in 1..N |-> IF n = 1 THEN seqs[n] ELSE f[n - 1] \o seqs[n]]
           g == CHOOSE f : Is(f)
<1>1. N \in Nat /\ N - 1 \in Nat /\ 1 \in 1..N /\ \A n \in 1..N - 1 : n + 1 \in 1..N /\ n \in 1..N
  OBVIOUS
<1>2. \A n \in 1..N : seqs[n] \in D
  OBVIOUS
<1>3. \A x, y \in D : x \o y \in D
  OBVIOUS
<1> HIDE DEF D
<1>4. \A x \in D, n \in 1..N - 1 : step[<<x, n>>] = x \o seqs[n + 1] /\ step[<<x, n>>] \in D
  BY <1>1, <1>2, <1>3
<1>5. PICK f \in [0..N - 1 -> D] : f[0] = seqs[1] /\ \A n \in 1..N - 1 : f[n] = step[<<f[n - 1], n>>]
  <2> HIDE DEF step, N
  <2>1. Closed(N - 1, D, seqs[1], step)
    BY <1>1, <1>2, <1>4 DEF Closed
  <2>2. PICK f : Recursive(f, N - 1, D, seqs[1], step)
    BY <2>1, Recursion
  <2> QED
    BY <2>2 DEF Recursive
<1> DEFINE h == [n \in 1..N |-> f[n - 1]]
<1> HIDE DEF step, N
<1>6. Is(h)
  <2>1. \A n \in 1..N : h[n] = IF n = 1 THEN seqs[n] ELSE h[n - 1] \o seqs[n]
    <3> SUFFICES ASSUME NEW n \in 1..N PROVE h[n] = IF n = 1 THEN seqs[n] ELSE h[n - 1] \o seqs[n]
      OBVIOUS
    <3>1. CASE n = 1
      BY <1>1, <1>5, <3>1
    <3>2. CASE n # 1
      <4>1. n - 1 \in 1..N - 1 /\ n - 1 \in 1..N /\ n - 1 - 1 \in 0..N - 1 /\ (n - 1) + 1 = n
        BY <1>1, <3>2
      <4>2. f[n - 1] = step[<<f[n - 1 - 1], n - 1>>]
        BY <1>5, <4>1
      <4>3. f[n - 1 - 1] \in D
        BY <1>5, <4>1
      <4>4. step[<<f[n - 1 - 1], n - 1>>] = f[n - 1 - 1] \o seqs[(n - 1) + 1]
        BY <1>4, <4>1, <4>3
      <4> QED
        BY <3>2, <4>1, <4>2, <4>4
    <3> QED
      BY <3>1, <3>2
  <2> QED
    BY <2>1
<1>7. Is(g)
  BY <1>6
<1>8. FlattenSeq(seqs) = g[N]
  <2>1. seqs # <<>>
    BY <1>1 DEF N
  <2> QED
    BY <2>1 DEF FlattenSeq, N
<1> HIDE DEF g
<1>9. g[1] = seqs[1] /\ \A n \in 1..N : n # 1 => g[n] = g[n - 1] \o seqs[n]
  BY <1>1, <1>7
<1> QED
  BY <1>8, <1>9 DEF Flattens, N

\* Conversations that are settled, one after another.
LEMMA FlattenSettled ==
  ASSUME NEW seqs, Len(seqs) \in Nat, Len(seqs) = 0 => seqs = <<>>,
         \A n \in 1..Len(seqs) : WellFormed(seqs[n]) /\ Settled(seqs[n])
  PROVE  WellFormed(FlattenSeq(seqs)) /\ Settled(FlattenSeq(seqs))
<1> DEFINE N == Len(seqs)
           D == {s \in Seq(MessageSet) : WellFormed(s) /\ Settled(s)}
<1>1. CASE N = 0
  <2>1. FlattenSeq(seqs) = <<>>
    BY <1>1 DEF FlattenSeq
  <2> QED
    BY <2>1 DEF WellFormed, Answered, Asked, Turns, Settled
<1>2. CASE N # 0
  <2>1. N \in Nat /\ N - 1 \in Nat /\ 1 \in 1..N
    BY <1>2
  <2>2. \A n \in 1..N : seqs[n] \in D
    BY DEF WellFormed
  <2>3. \A x, y \in D : x \o y \in D
    BY Concat DEF WellFormed
  <2>4. PICK g : Flattens(g, seqs)
    BY <1>2, FlattenSteps DEF WellFormed
  <2>5. g[1] = seqs[1] /\ (\A n \in 1..N : n # 1 => g[n] = g[n - 1] \o seqs[n]) /\ FlattenSeq(seqs) = g[N]
    BY <2>4 DEF Flattens
  <2> HIDE DEF D, N
  <2> DEFINE Bad == {n \in 0..N - 1 : g[n + 1] \notin D}
  <2>6. Bad = {}
    <3> SUFFICES ASSUME Bad # {} PROVE FALSE
      OBVIOUS
    <3>1. PICK n \in Bad : n = 0 \/ (n - 1 \in Nat /\ n - 1 \notin Bad)
      <4>1. Bad \in SUBSET Nat
        BY <2>1
      <4> HIDE DEF Bad
      <4> QED
        BY <4>1, FirstOf
    <3>2. n # 0
      BY <2>1, <2>2, <2>5, <3>1
    <3>3. /\ n + 1 \in 1..N /\ n + 1 # 1 /\ (n + 1) - 1 = n /\ n - 1 \in 0..N - 1 /\ (n - 1) + 1 = n
          /\ g[n] \in D /\ g[n + 1] \notin D
      BY <2>1, <3>1, <3>2
    <3>4. g[n + 1] = g[n] \o seqs[n + 1]
      BY <2>5, <3>3
    <3> QED
      BY <2>2, <2>3, <3>3, <3>4
  <2>7. N - 1 \in 0..N - 1 /\ (N - 1) + 1 = N
    BY <2>1
  <2> QED
    BY <2>5, <2>6, <2>7 DEF D
<1> QED
  BY <1>1, <1>2

LEMMA FullRunsType ==
  ASSUME NEW done \in Seq(Run)
  PROVE  FullRuns(done) \in Seq(Run)
<1>1. Len(done) \in Nat /\ runWindowMin \in Nat \ {0} /\ runWindowMax \in Nat /\ runWindowMin <= runWindowMax
  BY ConversationAssumption
<1>2. CASE Len(done) <= runWindowMax
  BY <1>2 DEF FullRuns
<1>3. CASE ~(Len(done) <= runWindowMax)
  <2> DEFINE first == Len(done) - runWindowMin + 1
  <2>1. first \in 1..Len(done) /\ FullRuns(done) = SubSeq(done, first, Len(done))
    BY <1>1, <1>3 DEF FullRuns
  <2> HIDE DEF first
  <2>2. \A i \in first..Len(done) : done[i] \in Run
    BY <1>1, <2>1
  <2>3. first \in Int /\ Len(done) \in Int
    BY <1>1, <2>1
  <2> QED
    BY <1>1, <2>1, <2>2, <2>3, SubSeqProperties
<1> QED
  BY <1>2, <1>3

\* The list of summaries is a user's message with an answer, or is not there.
LEMMA HistorySettled ==
  ASSUME summaries \subseteq Run, NEW old, NEW history \in TopicHistory(old)
  PROVE  WellFormed(history) /\ Settled(history)
<1>1. CASE history = <<>>
  BY <1>1 DEF WellFormed, Answered, Asked, Turns, Settled
<1>2. CASE history # <<>>
  <2> DEFINE told == InOrder({r \in ToSet(old) : SummariesFor(r) # {}})
  <2>1. PICK lines \in [DOMAIN told -> {Line(s) : s \in summaries}] :
          history = <<Message("user", 0, lines, FALSE), Message("assistant", 0, <<>>, FALSE)>>
    BY <1>2 DEF TopicHistory
  <2>2. told \in Seq(Run)
    BY InOrderType
  <2>3. \A r \in Run : Line(r) \in IdSet
    <3>1. 0 \in 0..maxIterations /\ 0 \in 0..MaxCalls
      BY ConversationAssumption
    <3> QED
      BY <3>1 DEF Line, IdSet
  <2> HIDE DEF told
  <2>4. lines \in Seq(IdSet)
    <3>1. DOMAIN told = 1..Len(told) /\ Len(told) \in Nat
      BY <2>2
    <3>2. lines \in [1..Len(told) -> IdSet]
      BY <2>1, <2>3, <3>1
    <3> QED
      BY <3>1, <3>2
  <2> DEFINE u == Message("user", 0, lines, FALSE)
             a == Message("assistant", 0, <<>>, FALSE)
  <2>5. u \in MessageSet /\ u.role = "user" /\ a \in MessageSet /\ a.role = "assistant" /\ a.ids = <<>>
    <3>1. <<>> \in Seq(IdSet) /\ 0 \in {0} \cup Run
      OBVIOUS
    <3> QED
      BY <2>4, <3>1 DEF Message, MessageSet
  <2> HIDE DEF u, a
  <2>6. /\ <<u, a>> \in Seq(MessageSet) /\ Len(<<u, a>>) = 2 /\ <<u, a>>[1] = u /\ <<u, a>>[2] = a
        /\ \A n \in 1..2 : n = 1 \/ n = 2
    BY <2>5
  <2>7. WellFormed(<<u, a>>) /\ Settled(<<u, a>>)
    BY <2>5, <2>6 DEF WellFormed, Answered, Asked, Turns, Settled
  <2> QED
    BY <2>1, <2>7 DEF u, a
<1> QED
  BY <1>1, <1>2

\* What users say after it opens a conversation that is settled.
LEMMA UsersOpen ==
  ASSUME NEW s, WellFormed(s), Settled(s), NEW t \in Seq(MessageSet), Len(t) > 0 \/ Open(s),
         \A n \in 1..Len(t) : t[n].role = "user"
  PROVE  WellFormed(s \o t) /\ Open(s \o t)
<1>1. WellFormed(t) /\ Settled(t)
  BY UsersSay
<1>2. WellFormed(s \o t) /\ Settled(s \o t) /\ Len(s \o t) = Len(s) + Len(t)
  BY <1>1, Concat
<1>3. Len(s) \in Nat /\ Len(t) \in Nat /\ s \in Seq(MessageSet)
  BY DEF WellFormed
<1>4. CASE Len(t) > 0
  <2>1. (s \o t)[Len(s \o t)] = t[Len(t)]
    BY <1>2, <1>3, <1>4
  <2>2. Len(t) \in 1..Len(t) /\ Len(s \o t) > 0
    BY <1>2, <1>3, <1>4
  <2> QED
    BY <1>2, <2>1, <2>2 DEF Open
<1>5. CASE Len(t) = 0
  <2>1. s \o t = s
    BY <1>3, <1>5, EmptySeq, ConcatEmptySeq
  <2> QED
    BY <1>2, <1>5, <2>1
<1> QED
  BY <1>3, <1>4, <1>5

LEMMA ContextOpen ==
  ASSUME summaries \subseteq Run, \A q \in Run : WellFormed(rows[q]) /\ Settled(rows[q]),
         NEW r \in Run, NEW t, NEW c \in buildContext(r, t)
  PROVE  /\ WellFormed(c) /\ Open(c) /\ Len(c) > 0 /\ c[Len(c)] = Message("user", r, <<>>, FALSE)
<1> DEFINE done == getCompletedRuns(t)
           full == FullRuns(done)
           u    == Message("user", r, <<>>, FALSE)
<1>1. PICK history \in TopicHistory(SummaryRuns(done)) : c = history \o Messages(full) \o <<u>>
  BY DEF buildContext
<1>2. WellFormed(history) /\ Settled(history)
  BY HistorySettled
<1>3. full \in Seq(Run)
  BY InOrderType, FullRunsType DEF getCompletedRuns
<1>4. WellFormed(Messages(full)) /\ Settled(Messages(full))
  <2> DEFINE seqs == [n \in DOMAIN full |-> rows[full[n]]]
  <2> HIDE DEF full
  <2>1. DOMAIN full = 1..Len(full) /\ Len(full) \in Nat /\ \A n \in 1..Len(full) : full[n] \in Run
    BY <1>3
  <2>2. Len(seqs) = Len(full) /\ \A n \in 1..Len(full) : seqs[n] = rows[full[n]]
    BY <2>1
  <2>3. Len(seqs) = 0 => seqs = <<>>
    BY <2>1, <2>2
  <2>4. \A n \in 1..Len(seqs) : WellFormed(seqs[n]) /\ Settled(seqs[n])
    BY <2>1, <2>2
  <2>5. Len(seqs) \in Nat
    BY <2>1, <2>2
  <2> HIDE DEF seqs
  <2>6. WellFormed(FlattenSeq(seqs)) /\ Settled(FlattenSeq(seqs))
    BY <2>3, <2>4, <2>5, FlattenSettled
  <2> QED
    BY <2>6 DEF Messages, seqs
<1> HIDE DEF full, done
<1>5. u \in MessageSet /\ u.role = "user"
  <2>1. <<>> \in Seq(IdSet) /\ r \in {0} \cup Run
    OBVIOUS
  <2> QED
    BY <2>1 DEF Message, MessageSet
<1> HIDE DEF u
<1>6. /\ <<u>> \in Seq(MessageSet) /\ Len(<<u>>) > 0 /\ \A n \in 1..Len(<<u>>) : <<u>>[n].role = "user"
  BY <1>5
<1>7. WellFormed(history \o Messages(full)) /\ Settled(history \o Messages(full))
  BY <1>2, <1>4, Concat
<1>8. WellFormed(c) /\ Open(c)
  <2> DEFINE s == history \o Messages(full)
  <2> HIDE DEF s
  <2>1. WellFormed(s \o <<u>>) /\ Open(s \o <<u>>)
    BY <1>6, <1>7, UsersOpen DEF s
  <2> QED
    BY <1>1, <2>1 DEF s
<1>9. Len(c) > 0 /\ c[Len(c)] = u
  <2> DEFINE s == history \o Messages(full)
  <2>1. s \in Seq(MessageSet)
    BY <1>7 DEF WellFormed
  <2> HIDE DEF s
  <2>2. Len(s \o <<u>>) = Len(s) + 1 /\ (s \o <<u>>)[Len(s) + 1] = u /\ Len(s) \in Nat
    BY <1>5, <2>1, AddOne
  <2> QED
    BY <1>1, <2>2 DEF s
<1> QED
  BY <1>8, <1>9 DEF u

-----------------------------------------------------------------------------
(* The inductive invariant.                                                *)

Alive == {"top", "calling", "tools", "answered", "saved"}

\* The list for the database is the end of the list for the LLM.
Agree(r, c, n) ==
  LET earlier == Len(c) - Len(n)
  IN  /\ earlier >= 0 /\ Len(n) > 0 /\ n[1] = Message("user", r, <<>>, FALSE)
      /\ \A i \in 1..Len(n) : n[i] = c[earlier + i] /\ n[i].run = r

\* All calls were made before this iteration.
Before(n, turn) ==
  \A i \in 1..Len(n) : n[i].role = "assistant" => \A k \in 1..Len(n[i].ids) : n[i].ids[k][2] < turn

Stored(n) == [i \in DOMAIN n |-> [n[i] EXCEPT !.image = FALSE]]

\* A run at a place of an iteration, with its two lists and its rows.
RunOK(r, at, turn, c, n, stored) ==
  /\ WellFormed(stored) /\ Settled(stored)
  /\ at \in Alive => WellFormed(c) /\ WellFormed(n) /\ Agree(r, c, n)
  /\ at \in {"top", "calling"} => Open(c) /\ Open(n) /\ Before(n, turn)
  /\ at = "tools" =>
       \E size \in 1..MaxCalls : \E j \in 0..size - 1 :
         Owes(c, Batch(r, turn, size), j) /\ Owes(n, Batch(r, turn, size), j) /\ Earlier(n, j, turn)
  /\ at = "answered" => Settled(n)
  /\ at = "saved" => stored = Stored(n)

Typed ==
  /\ topic \in [Run -> Topic \cup {None}]
  /\ status \in [Run -> {"none", "running", "done", "stopped"}]
  /\ place \in [Run -> {"none", "top", "calling", "tools", "answered", "saved", "over"}]
  /\ iteration \in [Run -> 0..maxIterations + 1]
  /\ context \in [Run -> Seq(MessageSet)] /\ new \in [Run -> Seq(MessageSet)] /\ rows \in [Run -> Seq(MessageSet)]
  /\ inbox \in [Run -> 0..MaxInjections]
  /\ spent \in [injections : 0..MaxInjections, batches : 0..MaxBatches]
  /\ summaries \subseteq Run

\* What waits was injected, and the loop goes on no longer than it may.
Bounded ==
  \A r \in Run : /\ inbox[r] <= spent.injections
                 /\ place[r] \in {"calling", "tools"} => iteration[r] <= maxIterations

ConversationInv ==
  /\ Typed /\ Bounded
  /\ \A r \in Run : RunOK(r, place[r], iteration[r], context[r], new[r], rows[r])

-----------------------------------------------------------------------------
(* What the two lists are after a step.                                    *)

LEMMA Positions ==
  ASSUME NEW s \in Seq(MessageSet), NEW t \in Seq(MessageSet)
  PROVE  /\ s \o t \in Seq(MessageSet) /\ Len(s \o t) = Len(s) + Len(t) /\ Len(s) \in Nat /\ Len(t) \in Nat
         /\ \A i \in 1..Len(s) : i \in 1..Len(s \o t) /\ (s \o t)[i] = s[i]
         /\ \A i \in 1..Len(t) : Len(s) + i \in 1..Len(s \o t) /\ (s \o t)[Len(s) + i] = t[i]
         /\ \A i \in 1..Len(s \o t) : i \in 1..Len(s) \/ (i - Len(s) \in 1..Len(t) /\ Len(s) + (i - Len(s)) = i)
OBVIOUS

LEMMA AgreeGoesOn ==
  ASSUME NEW r, NEW c \in Seq(MessageSet), NEW n \in Seq(MessageSet), NEW t \in Seq(MessageSet),
         Agree(r, c, n), \A i \in 1..Len(t) : t[i].run = r
  PROVE  Agree(r, c \o t, n \o t)
<1> DEFINE cc == c \o t
           nn == n \o t
           earlier == Len(c) - Len(n)
<1>1. /\ Len(cc) = Len(c) + Len(t) /\ Len(c) \in Nat /\ Len(t) \in Nat
      /\ \A i \in 1..Len(c) : cc[i] = c[i]
      /\ \A i \in 1..Len(t) : cc[Len(c) + i] = t[i]
  BY Positions
<1>2. /\ Len(nn) = Len(n) + Len(t) /\ Len(n) \in Nat
      /\ \A i \in 1..Len(n) : nn[i] = n[i]
      /\ \A i \in 1..Len(t) : nn[Len(n) + i] = t[i]
      /\ \A i \in 1..Len(nn) : i \in 1..Len(n) \/ (i - Len(n) \in 1..Len(t) /\ Len(n) + (i - Len(n)) = i)
  BY Positions
<1>3. /\ earlier >= 0 /\ Len(n) > 0 /\ n[1] = Message("user", r, <<>>, FALSE)
      /\ \A i \in 1..Len(n) : n[i] = c[earlier + i] /\ n[i].run = r
  BY DEF Agree
<1> HIDE DEF cc, nn
<1>4. Len(cc) - Len(nn) = earlier /\ Len(nn) > 0 /\ earlier \in Nat
  BY <1>1, <1>2, <1>3
<1>5. nn[1] = n[1]
  <2>1. 1 \in 1..Len(n)
    BY <1>2, <1>3
  <2> QED
    BY <1>2, <2>1
<1>6. ASSUME NEW i \in 1..Len(nn) PROVE nn[i] = cc[earlier + i] /\ nn[i].run = r
  <2>1. CASE i \in 1..Len(n)
    <3>1. earlier + i \in 1..Len(c)
      BY <1>1, <1>2, <1>3, <2>1
    <3> QED
      BY <1>1, <1>2, <1>3, <2>1, <3>1
  <2>2. CASE i \notin 1..Len(n)
    <3> DEFINE k == i - Len(n)
    <3>1. k \in 1..Len(t) /\ Len(n) + k = i /\ earlier + i = Len(c) + k
      BY <1>1, <1>2, <2>2
    <3> HIDE DEF k
    <3>2. nn[i] = t[k] /\ cc[earlier + i] = t[k] /\ t[k].run = r
      BY <1>1, <1>2, <3>1
    <3> QED
      BY <3>2
  <2> QED
    BY <2>1, <2>2
<1>7. Agree(r, cc, nn)
  <2>1. \A i \in 1..Len(nn) : nn[i] = cc[Len(cc) - Len(nn) + i] /\ nn[i].run = r
    <3> HIDE DEF earlier
    <3> QED
      BY <1>4, <1>6
  <2>2. Len(cc) - Len(nn) >= 0 /\ Len(nn) > 0 /\ nn[1] = Message("user", r, <<>>, FALSE)
    BY <1>3, <1>4, <1>5
  <2> QED
    BY <2>1, <2>2 DEF Agree
<1> QED
  BY <1>7 DEF cc, nn

\* Only the calls of the assistant count.
LEMMA BeforeUsers ==
  ASSUME NEW n \in Seq(MessageSet), NEW t \in Seq(MessageSet), NEW turn, Before(n, turn),
         \A i \in 1..Len(t) : t[i].role = "assistant" => Len(t[i].ids) = 0
  PROVE  Before(n \o t, turn)
<1> SUFFICES ASSUME NEW i \in 1..Len(n \o t), (n \o t)[i].role = "assistant", NEW k \in 1..Len((n \o t)[i].ids)
             PROVE  (n \o t)[i].ids[k][2] < turn
  BY DEF Before
<1>1. i \in 1..Len(n) \/ (i - Len(n) \in 1..Len(t) /\ Len(n) + (i - Len(n)) = i)
  BY Positions
<1>2. CASE i \in 1..Len(n)
  <2>1. (n \o t)[i] = n[i]
    BY <1>2, Positions
  <2> QED
    BY <1>2, <2>1 DEF Before
<1>3. CASE i - Len(n) \in 1..Len(t) /\ Len(n) + (i - Len(n)) = i
  <2>1. (n \o t)[i] = t[i - Len(n)]
    BY <1>3, Positions
  <2>2. Len(t[i - Len(n)].ids) = 0
    BY <1>3, <2>1
  <2>3. Len((n \o t)[i].ids) = 0
    BY <2>1, <2>2
  <2> QED
    BY <2>3
<1> QED
  BY <1>1, <1>2, <1>3

\* In the next iteration, this one is over.
LEMMA NextTurn ==
  ASSUME NEW n \in Seq(MessageSet), NEW turn \in Nat, Before(n, turn)
  PROVE  Before(n, turn + 1)
<1> SUFFICES ASSUME NEW i \in 1..Len(n), n[i].role = "assistant", NEW k \in 1..Len(n[i].ids)
             PROVE  n[i].ids[k][2] < turn + 1
  BY DEF Before
<1>1. n[i].ids[k] \in IdSet
  BY MessageTypes
<1>2. n[i].ids[k][2] \in Int
  BY <1>1 DEF IdSet
<1>3. n[i].ids[k][2] < turn
  BY DEF Before
<1> QED
  BY <1>2, <1>3

LEMMA CallKeeps ==
  ASSUME NEW r, NEW turn, NEW c, NEW n, NEW stored, RunOK(r, "top", turn, c, n, stored),
         NEW t \in Seq(MessageSet), \A i \in 1..Len(t) : t[i].role = "user" /\ t[i].run = r
  PROVE  RunOK(r, "calling", turn, c \o t, n \o t, stored)
<1>1. /\ WellFormed(stored) /\ Settled(stored) /\ WellFormed(c) /\ WellFormed(n) /\ Agree(r, c, n)
      /\ Open(c) /\ Open(n) /\ Before(n, turn)
  BY DEF RunOK, Alive
<1>2. Settled(c) /\ Settled(n) /\ c \in Seq(MessageSet) /\ n \in Seq(MessageSet)
  BY <1>1 DEF Open, WellFormed
<1>3. WellFormed(c \o t) /\ Open(c \o t) /\ WellFormed(n \o t) /\ Open(n \o t)
  BY <1>1, <1>2, UsersOpen
<1>4. Agree(r, c \o t, n \o t)
  BY <1>1, <1>2, AgreeGoesOn
<1>5. Before(n \o t, turn)
  BY <1>1, <1>2, BeforeUsers
<1> QED
  BY <1>1, <1>3, <1>4, <1>5 DEF RunOK

LEMMA CallsKeep ==
  ASSUME NEW r, NEW turn, NEW c, NEW n, NEW stored, RunOK(r, "calling", turn, c, n, stored),
         NEW size \in 1..MaxCalls, NEW m \in MessageSet, m.role = "assistant", m.run = r, m.ids = Batch(r, turn, size)
  PROVE  RunOK(r, "tools", turn, c \o <<m>>, n \o <<m>>, stored)
<1>1. /\ WellFormed(stored) /\ Settled(stored) /\ WellFormed(c) /\ WellFormed(n) /\ Agree(r, c, n)
      /\ Open(c) /\ Open(n) /\ Before(n, turn)
  BY DEF RunOK, Alive
<1>2. c \in Seq(MessageSet) /\ n \in Seq(MessageSet) /\ <<m>> \in Seq(MessageSet) /\ \A i \in 1..Len(<<m>>) : <<m>>[i] = m
  BY <1>1 DEF WellFormed
<1>3. size \in Nat /\ size > 0 /\ MaxCalls \in Nat
  BY ConversationAssumption
<1>4. Len(m.ids) = size
  BY <1>3 DEF Batch
<1>5. /\ WellFormed(c \o <<m>>) /\ Owes(c \o <<m>>, Batch(r, turn, size), 0)
      /\ WellFormed(n \o <<m>>) /\ Owes(n \o <<m>>, Batch(r, turn, size), 0)
  BY <1>1, <1>3, <1>4, AssistantSays
<1>6. Agree(r, c \o <<m>>, n \o <<m>>)
  BY <1>1, <1>2, AgreeGoesOn
<1>7. Earlier(n \o <<m>>, 0, turn)
  <2>1. /\ Len(n \o <<m>>) = Len(n) + 1 /\ Len(n) \in Nat
        /\ \A i \in 1..Len(n) : (n \o <<m>>)[i] = n[i]
    BY <1>2, AddOne
  <2>2. \A i \in 1..Len(n \o <<m>>) : i # Len(n \o <<m>>) - 0 => i \in 1..Len(n)
    BY <2>1
  <2> QED
    BY <1>1, <2>1, <2>2 DEF Before, Earlier
<1>8. 0 \in 0..size - 1
  BY <1>3
<1> QED
  BY <1>1, <1>5, <1>6, <1>7, <1>8 DEF RunOK

\* The call that is next is answered; after the last the loop goes on.
LEMMA ToolKeeps ==
  ASSUME NEW r, NEW turn \in Nat, NEW c, NEW n, NEW stored, RunOK(r, "tools", turn, c, n, stored),
         NEW waiting, waiting = Calls(n, "assistant") \ Calls(n, "tool"),
         NEW m \in MessageSet, m.role = "tool", m.run = r,
         m.ids = <<FirstCall(waiting)>>
  PROVE  /\ Cardinality(waiting) = 1 => RunOK(r, "top", turn + 1, c \o <<m>>, n \o <<m>>, stored)
         /\ Cardinality(waiting) # 1 => RunOK(r, "tools", turn, c \o <<m>>, n \o <<m>>, stored)
<1>1. /\ WellFormed(stored) /\ Settled(stored) /\ WellFormed(c) /\ WellFormed(n) /\ Agree(r, c, n)
  BY DEF RunOK, Alive
<1>a. PICK size \in 1..MaxCalls : \E j \in 0..size - 1 :
        Owes(c, Batch(r, turn, size), j) /\ Owes(n, Batch(r, turn, size), j) /\ Earlier(n, j, turn)
  BY DEF RunOK
<1>2. PICK j \in 0..size - 1 :
        Owes(c, Batch(r, turn, size), j) /\ Owes(n, Batch(r, turn, size), j) /\ Earlier(n, j, turn)
  BY <1>a
<1> DEFINE batch == Batch(r, turn, size)
<1>3. size \in Nat /\ j \in Nat /\ j < size /\ Len(batch) = size /\ MaxCalls \in Nat
  BY ConversationAssumption DEF Batch
<1>4. waiting = {batch[i] : i \in j + 1..size}
  <2> HIDE DEF batch
  <2>1. batch = Batch(r, turn, Len(batch))
    BY <1>3 DEF batch
  <2>2. Owes(n, batch, j)
    BY <1>2 DEF batch
  <2> QED
    BY <1>1, <1>2, <1>3, <2>1, <2>2, Waiting
<1>5. m.ids = <<batch[j + 1]>> /\ (Cardinality(waiting) = 1 <=> j + 1 = size)
  <2>1. waiting = Rest(r, turn, size, j)
    BY <1>4 DEF Rest
  <2>2. size \in Nat /\ j \in Nat /\ j < size
    BY <1>3
  <2>3. /\ FirstCall(Rest(r, turn, size, j)) = Batch(r, turn, size)[j + 1]
        /\ Cardinality(Rest(r, turn, size, j)) = 1 <=> j + 1 = size
    BY <2>2, NextCall
  <2> QED
    BY <2>1, <2>3
<1>6. c \in Seq(MessageSet) /\ n \in Seq(MessageSet) /\ <<m>> \in Seq(MessageSet) /\ \A i \in 1..Len(<<m>>) : <<m>>[i] = m
  BY <1>1 DEF WellFormed
<1>7. /\ WellFormed(c \o <<m>>)
      /\ j + 1 < size => Owes(c \o <<m>>, batch, j + 1)
      /\ j + 1 = size => Open(c \o <<m>>)
  <2> HIDE DEF batch
  <2>1. Owes(c, batch, j)
    BY <1>2 DEF batch
  <2> QED
    BY <1>1, <1>3, <1>5, <2>1, ToolSays
<1>8. /\ WellFormed(n \o <<m>>)
      /\ j + 1 < size => Owes(n \o <<m>>, batch, j + 1)
      /\ j + 1 = size => Open(n \o <<m>>)
  <2> HIDE DEF batch
  <2>1. Owes(n, batch, j)
    BY <1>2 DEF batch
  <2> QED
    BY <1>1, <1>3, <1>5, <2>1, ToolSays
<1>9. Agree(r, c \o <<m>>, n \o <<m>>)
  BY <1>1, <1>6, AgreeGoesOn
<1>10. /\ Len(n \o <<m>>) = Len(n) + 1 /\ Len(n) \in Nat
       /\ \A i \in 1..Len(n) : (n \o <<m>>)[i] = n[i]
       /\ (n \o <<m>>)[Len(n) + 1] = m
       /\ Len(n \o <<m>>) - (j + 1) = Len(n) - j
  BY <1>3, <1>6, AddOne
<1>11. \A i \in 1..Len(n \o <<m>>) : (n \o <<m>>)[i].role = "assistant" => i \in 1..Len(n) /\ (n \o <<m>>)[i] = n[i]
  BY <1>10
<1>12. Earlier(n \o <<m>>, j + 1, turn)
  BY <1>2, <1>10, <1>11 DEF Earlier
<1>13. Before(n \o <<m>>, turn + 1)
  <2> SUFFICES ASSUME NEW i \in 1..Len(n), n[i].role = "assistant", NEW k \in 1..Len(n[i].ids)
               PROVE  n[i].ids[k][2] < turn + 1
    BY <1>11 DEF Before
  <2>1. CASE i = Len(n) - j
    <3>1. n[i].ids = batch
      BY <1>2, <2>1 DEF Owes
    <3>2. k \in 1..size
      BY <1>3, <3>1
    <3>3. n[i].ids[k] = <<r, turn, k>>
      BY <3>1, <3>2 DEF Batch
    <3> QED
      BY <3>3
  <2>2. CASE i # Len(n) - j
    <3>1. n[i].ids[k] \in IdSet
      BY <1>6, MessageTypes
    <3>2. n[i].ids[k][2] \in Int
      BY <3>1 DEF IdSet
    <3>3. n[i].ids[k][2] < turn
      BY <1>2, <2>2 DEF Earlier
    <3> QED
      BY <3>2, <3>3
  <2> QED
    BY <2>1, <2>2
<1>14. CASE j + 1 = size
  BY <1>1, <1>5, <1>7, <1>8, <1>9, <1>13, <1>14 DEF RunOK
<1>15. CASE j + 1 # size
  <2>1. j + 1 < size /\ j + 1 \in 0..size - 1
    BY <1>3, <1>15
  <2> QED
    BY <1>1, <1>5, <1>7, <1>8, <1>9, <1>12, <1>15, <2>1 DEF RunOK
<1> QED
  BY <1>14, <1>15

LEMMA Together ==
  ASSUME NEW s \in Seq(MessageSet), NEW t \in Seq(MessageSet), NEW u \in Seq(MessageSet)
  PROVE  s \o (t \o u) = (s \o t) \o u
<1> DEFINE a == s \o (t \o u)
           b == (s \o t) \o u
<1>1. a \in Seq(MessageSet) /\ b \in Seq(MessageSet) /\ Len(a) = Len(b) /\ Len(a) = Len(s) + Len(t) + Len(u)
      /\ Len(s) \in Nat /\ Len(t) \in Nat /\ Len(u) \in Nat
  OBVIOUS
<1>2. \A i \in 1..Len(a) : a[i] = b[i]
  OBVIOUS
<1> HIDE DEF a, b
<1>3. a = b
  BY <1>1, <1>2, SeqEqual
<1> QED
  BY <1>3 DEF a, b

\* The LLM answers; the run ends, or goes on with what was injected meanwhile.
LEMMA AnswerKeeps ==
  ASSUME NEW r, NEW turn \in Nat, NEW c, NEW n, NEW stored, RunOK(r, "calling", turn, c, n, stored),
         NEW m \in MessageSet, m.role = "assistant", m.run = r, m.ids = <<>>,
         NEW t \in Seq(MessageSet), \A i \in 1..Len(t) : t[i].role = "user" /\ t[i].run = r
  PROVE  /\ Len(t) = 0 => RunOK(r, "answered", turn, c \o (<<m>> \o t), n \o (<<m>> \o t), stored)
         /\ Len(t) > 0 => RunOK(r, "top", turn + 1, c \o (<<m>> \o t), n \o (<<m>> \o t), stored)
<1>1. /\ WellFormed(stored) /\ Settled(stored) /\ WellFormed(c) /\ WellFormed(n) /\ Agree(r, c, n)
      /\ Open(c) /\ Open(n) /\ Before(n, turn)
  BY DEF RunOK, Alive
<1>2. c \in Seq(MessageSet) /\ n \in Seq(MessageSet) /\ <<m>> \in Seq(MessageSet) /\ Len(<<m>>) = 1 /\ <<m>>[1] = m
  BY <1>1 DEF WellFormed
<1> DEFINE u == <<m>> \o t
<1>3. /\ u \in Seq(MessageSet) /\ Len(u) = 1 + Len(t) /\ Len(t) \in Nat
      /\ \A i \in 1..Len(u) : u[i].run = r /\ (u[i].role = "assistant" => Len(u[i].ids) = 0)
  <2>1. /\ u \in Seq(MessageSet) /\ Len(u) = 1 + Len(t) /\ Len(t) \in Nat
        /\ u[1] = m /\ \A i \in 1..Len(t) : u[1 + i] = t[i]
    BY <1>2
  <2>2. \A i \in 1..Len(u) : i = 1 \/ (i - 1 \in 1..Len(t) /\ 1 + (i - 1) = i)
    BY <2>1
  <2>3. Len(m.ids) = 0
    OBVIOUS
  <2> HIDE DEF u
  <2>4. ASSUME NEW i \in 1..Len(u) PROVE u[i].run = r /\ (u[i].role = "assistant" => Len(u[i].ids) = 0)
    <3>1. CASE i = 1
      BY <2>1, <2>3, <3>1
    <3>2. CASE i # 1
      <4>1. i - 1 \in 1..Len(t) /\ u[i] = t[i - 1]
        BY <2>1, <2>2, <3>2
      <4>2. u[i].run = r /\ u[i].role = "user"
        BY <4>1
      <4> QED
        BY <4>2
    <3> QED
      BY <3>1, <3>2
  <2> QED
    BY <2>1, <2>4
<1>4. Agree(r, c \o u, n \o u)
  <2> HIDE DEF u
  <2> QED
    BY <1>1, <1>2, <1>3, AgreeGoesOn
<1>5. Before(n \o u, turn)
  <2> HIDE DEF u
  <2> QED
    BY <1>1, <1>2, <1>3, BeforeUsers
<1>6. /\ WellFormed(c \o <<m>>) /\ Settled(c \o <<m>>) /\ WellFormed(n \o <<m>>) /\ Settled(n \o <<m>>)
  <2>1. Len(m.ids) = 0
    OBVIOUS
  <2> QED
    BY <1>1, <2>1, AssistantSays
<1>7. c \o u = (c \o <<m>>) \o t /\ n \o u = (n \o <<m>>) \o t
  <2>1. t \in Seq(MessageSet)
    OBVIOUS
  <2> QED
    BY <1>2, <2>1, Together
<1>8. n \o u \in Seq(MessageSet)
  BY <1>2, <1>3
<1> HIDE DEF u
<1>9. CASE Len(t) = 0
  <2>1. t = <<>>
    BY <1>9, EmptySeq
  <2>2. c \o <<m>> \in Seq(MessageSet) /\ n \o <<m>> \in Seq(MessageSet)
    BY <1>6 DEF WellFormed
  <2>3. c \o u = c \o <<m>> /\ n \o u = n \o <<m>>
    BY <1>7, <2>1, <2>2, ConcatEmptySeq
  <2>4. RunOK(r, "answered", turn, c \o u, n \o u, stored)
    BY <1>1, <1>4, <1>6, <2>3 DEF RunOK
  <2> QED
    BY <1>9, <2>4 DEF u
<1>10. CASE Len(t) > 0
  <2>1. WellFormed(c \o u) /\ Open(c \o u) /\ WellFormed(n \o u) /\ Open(n \o u)
    BY <1>6, <1>7, <1>10, UsersOpen
  <2>2. Before(n \o u, turn + 1)
    BY <1>5, <1>8, NextTurn
  <2>3. RunOK(r, "top", turn + 1, c \o u, n \o u, stored)
    BY <1>1, <1>4, <2>1, <2>2 DEF RunOK
  <2> QED
    BY <1>10, <2>3 DEF u
<1> QED
  BY <1>3, <1>9, <1>10

\* The rows are the list without images.
LEMMA SaveKeeps ==
  ASSUME NEW r, NEW turn, NEW c, NEW n, NEW stored, RunOK(r, "answered", turn, c, n, stored)
  PROVE  Stored(n) \in Seq(MessageSet) /\ RunOK(r, "saved", turn, c, n, Stored(n))
<1>1. WellFormed(c) /\ WellFormed(n) /\ Agree(r, c, n) /\ Settled(n)
  BY DEF RunOK, Alive
<1> DEFINE w == Stored(n)
<1>2. n \in Seq(MessageSet) /\ DOMAIN n = 1..Len(n) /\ Len(n) \in Nat
  BY <1>1 DEF WellFormed
<1>3. \A i \in 1..Len(n) : [n[i] EXCEPT !.image = FALSE] \in MessageSet
  <2> SUFFICES ASSUME NEW i \in 1..Len(n) PROVE [n[i] EXCEPT !.image = FALSE] \in MessageSet
    OBVIOUS
  <2>1. n[i] \in MessageSet
    BY <1>2
  <2> QED
    BY <2>1 DEF MessageSet
<1>4. \A i \in 1..Len(n) : w[i] = [n[i] EXCEPT !.image = FALSE]
  BY <1>2 DEF Stored
<1>5. w \in Seq(MessageSet) /\ Len(w) = Len(n)
  BY <1>2, <1>3 DEF Stored
<1>6. \A i \in 1..Len(n) : w[i].role = n[i].role /\ w[i].ids = n[i].ids
  <2> SUFFICES ASSUME NEW i \in 1..Len(n) PROVE w[i].role = n[i].role /\ w[i].ids = n[i].ids
    OBVIOUS
  <2>1. n[i] \in MessageSet
    BY <1>2
  <2> HIDE DEF w
  <2> QED
    BY <1>4, <2>1 DEF MessageSet
<1> HIDE DEF w
<1>7. Answered(w)
  <2> SUFFICES ASSUME NEW k \in 1..Len(w), w[k].role = "assistant", NEW i \in 1..Len(w[k].ids), k + i <= Len(w)
               PROVE  w[k + i].role = "tool" /\ w[k + i].ids = <<w[k].ids[i]>>
    BY DEF Answered
  <2>1. n[k].role = "assistant" /\ i \in 1..Len(n[k].ids) /\ k + i <= Len(n) /\ w[k].ids = n[k].ids
    BY <1>5, <1>6
  <2>2. n[k + i].role = "tool" /\ n[k + i].ids = <<n[k].ids[i]>>
    BY <1>1, <1>5, <2>1 DEF WellFormed, Answered
  <2>3. Len(n[k].ids) \in Nat
    BY <1>2, <1>5, MessageTypes
  <2>4. k + i \in 1..Len(n)
    BY <1>2, <1>5, <2>1, <2>3
  <2> QED
    BY <1>6, <2>1, <2>2, <2>4
<1>8. Asked(w)
  <2> SUFFICES ASSUME NEW k \in 1..Len(w), w[k].role = "tool"
               PROVE  \E asked \in 1..k - 1 : w[asked].role = "assistant" /\ k - asked <= Len(w[asked].ids)
    BY DEF Asked
  <2>1. k \in 1..Len(n) /\ n[k].role = "tool"
    BY <1>5, <1>6
  <2>2. PICK asked \in 1..k - 1 : n[asked].role = "assistant" /\ k - asked <= Len(n[asked].ids)
    BY <1>1, <2>1 DEF WellFormed, Asked
  <2>3. asked \in 1..Len(n)
    BY <1>2, <2>1
  <2>4. w[asked].role = "assistant" /\ w[asked].ids = n[asked].ids
    BY <1>6, <2>2, <2>3
  <2> QED
    BY <2>2, <2>4
<1>9. Turns(w)
  <2>1. Len(w) > 0 => w[1].role = "user"
    BY <1>1, <1>2, <1>5, <1>6 DEF WellFormed, Turns
  <2>2. ASSUME NEW k \in 1..Len(w) - 1, w[k].role = "assistant", Len(w[k].ids) = 0 PROVE w[k + 1].role = "user"
    <3>1. k \in 1..Len(n) - 1 /\ k \in 1..Len(n) /\ k + 1 \in 1..Len(n)
      BY <1>2, <1>5
    <3>2. n[k].role = "assistant" /\ Len(n[k].ids) = 0
      BY <1>6, <2>2, <3>1
    <3>3. n[k + 1].role = "user"
      BY <1>1, <3>1, <3>2 DEF WellFormed, Turns
    <3> QED
      BY <1>6, <3>1, <3>3
  <2> QED
    BY <2>1, <2>2 DEF Turns
<1>10. Settled(w)
  <2> SUFFICES ASSUME NEW k \in 1..Len(w), w[k].role = "assistant" PROVE k + Len(w[k].ids) <= Len(w)
    BY DEF Settled
  <2>1. k \in 1..Len(n) /\ n[k].role = "assistant" /\ w[k].ids = n[k].ids
    BY <1>5, <1>6
  <2>2. k + Len(n[k].ids) <= Len(n)
    BY <1>1, <2>1 DEF Settled
  <2> QED
    BY <1>5, <2>1, <2>2
<1> QED
  BY <1>1, <1>5, <1>7, <1>8, <1>9, <1>10 DEF RunOK, WellFormed, w

LEMMA BeginKeeps ==
  ASSUME NEW r \in Run, NEW c, WellFormed(c), Open(c), Len(c) > 0, c[Len(c)] = Message("user", r, <<>>, FALSE),
         NEW stored, WellFormed(stored), Settled(stored)
  PROVE  RunOK(r, "top", 1, c, <<Last(c)>>, stored)
<1> DEFINE u == Message("user", r, <<>>, FALSE)
<1>1. Last(c) = u
  BY DEF Last
<1>2. u \in MessageSet /\ u.role = "user" /\ u.run = r
  <2>1. <<>> \in Seq(IdSet) /\ r \in {0} \cup Run
    OBVIOUS
  <2> QED
    BY <2>1 DEF Message, MessageSet
<1> HIDE DEF u
<1>3. /\ <<u>> \in Seq(MessageSet) /\ Len(<<u>>) = 1 /\ <<u>>[1] = u
      /\ \A n \in 1..Len(<<u>>) : n = 1 /\ <<u>>[n] = u /\ <<u>>[n].role = "user"
  BY <1>2
<1>4. WellFormed(<<u>>) /\ Settled(<<u>>)
  BY <1>3, UsersSay
<1>5. Open(<<u>>) /\ Before(<<u>>, 1)
  BY <1>2, <1>3, <1>4 DEF Open, Before
<1>6. Agree(r, c, <<u>>)
  <2>1. Len(c) \in Nat /\ c[Len(c)] = u /\ u = Message("user", r, <<>>, FALSE)
    BY DEF WellFormed, u
  <2>2. Len(c) - 1 + 1 = Len(c) /\ Len(c) - 1 >= 0
    BY <2>1
  <2>3. \A n \in 1..Len(<<u>>) : <<u>>[n] = c[Len(c) - Len(<<u>>) + n] /\ <<u>>[n].run = r
    BY <1>2, <1>3, <2>1, <2>2
  <2>4. Len(c) - Len(<<u>>) >= 0 /\ Len(<<u>>) > 0
    BY <1>3, <2>2
  <2> QED
    BY <1>3, <2>1, <2>3, <2>4 DEF Agree
<1> QED
  BY <1>1, <1>4, <1>5, <1>6 DEF RunOK

LEMMA NextCallType ==
  ASSUME NEW r \in Run, NEW turn \in 0..maxIterations, NEW c, NEW n, NEW stored, RunOK(r, "tools", turn, c, n, stored),
         NEW waiting, waiting = Calls(n, "assistant") \ Calls(n, "tool")
  PROVE  FirstCall(waiting) \in IdSet
<1>1. WellFormed(n) /\ turn \in Nat /\ MaxCalls \in Nat
  BY ConversationAssumption DEF RunOK, Alive
<1>2. PICK size \in 1..MaxCalls : \E j \in 0..size - 1 : Owes(n, Batch(r, turn, size), j) /\ Earlier(n, j, turn)
  BY DEF RunOK
<1>3. PICK j \in 0..size - 1 : Owes(n, Batch(r, turn, size), j) /\ Earlier(n, j, turn)
  BY <1>2
<1> DEFINE batch == Batch(r, turn, size)
<1>4. size \in Nat /\ j \in Nat /\ j < size /\ Len(batch) = size
  BY <1>1 DEF Batch
<1>5. waiting = {batch[i] : i \in j + 1..size}
  <2> HIDE DEF batch
  <2>1. batch = Batch(r, turn, Len(batch))
    BY <1>4 DEF batch
  <2>2. Owes(n, batch, j)
    BY <1>3 DEF batch
  <2> QED
    BY <1>1, <1>3, <1>4, <2>1, <2>2, Waiting
<1>6. FirstCall(waiting) = batch[j + 1]
  <2>1. waiting = Rest(r, turn, size, j)
    BY <1>5 DEF Rest
  <2>2. size \in Nat /\ j \in Nat /\ j < size
    BY <1>4
  <2>3. FirstCall(Rest(r, turn, size, j)) = Batch(r, turn, size)[j + 1]
    BY <2>2, NextCall
  <2> QED
    BY <2>1, <2>3
<1>7. batch[j + 1] = <<r, turn, j + 1>> /\ j + 1 \in 0..MaxCalls
  BY <1>1, <1>4 DEF Batch
<1> QED
  BY <1>6, <1>7 DEF IdSet

-----------------------------------------------------------------------------
(* The steps.                                                              *)

LEMMA InjectedType ==
  ASSUME NEW r \in Run, inbox[r] \in Nat
  PROVE  /\ Injected(r) \in Seq(MessageSet) /\ Len(Injected(r)) = inbox[r]
         /\ \A i \in 1..Len(Injected(r)) : Injected(r)[i].role = "user" /\ Injected(r)[i].run = r
<1> DEFINE u == Message("user", r, <<>>, FALSE)
<1>1. u \in MessageSet /\ u.role = "user" /\ u.run = r
  <2>1. <<>> \in Seq(IdSet) /\ r \in {0} \cup Run
    OBVIOUS
  <2> QED
    BY <2>1 DEF Message, MessageSet
<1>2. Injected(r) = [n \in 1..inbox[r] |-> u]
  BY DEF Injected
<1> HIDE DEF u
<1> QED
  BY <1>1, <1>2

\* The runs that a step leaves alone.
Still(q) ==
  /\ place'[q] = place[q] /\ iteration'[q] = iteration[q] /\ context'[q] = context[q]
  /\ new'[q] = new[q] /\ rows'[q] = rows[q]

\* A step of the loop of a run.
LoopStep(r) ==
  /\ \A q \in Run : q # r => Still(q)
  /\ RunOK(r, place'[r], iteration'[r], context'[r], new'[r], rows'[r])

LEMMA BeginStep ==
  ASSUME ConversationInv, NEW r \in Run, NEW t \in Topic, Begin(r, t)
  PROVE  Typed' /\ Bounded' /\ LoopStep(r)
<1>1. Typed /\ Bounded /\ maxIterations \in Nat \ {0}
  BY ConversationAssumption DEF ConversationInv
<1>2. PICK c \in buildContext(r, t) : context' = [context EXCEPT ![r] = c] /\ new' = [new EXCEPT ![r] = <<Last(c)>>]
  BY DEF Begin
<1>3. summaries \subseteq Run /\ \A q \in Run : WellFormed(rows[q]) /\ Settled(rows[q])
  BY DEF ConversationInv, Typed, RunOK
<1>4. WellFormed(c) /\ Open(c) /\ Len(c) > 0 /\ c[Len(c)] = Message("user", r, <<>>, FALSE)
  BY <1>3, ContextOpen
<1>5. RunOK(r, "top", 1, c, <<Last(c)>>, rows[r])
  BY <1>3, <1>4, BeginKeeps
<1>6. c \in Seq(MessageSet) /\ <<Last(c)>> \in Seq(MessageSet)
  BY <1>5 DEF RunOK, Alive, WellFormed
<1>7. /\ place' = [place EXCEPT ![r] = "top"] /\ iteration' = [iteration EXCEPT ![r] = 1]
      /\ topic' = [topic EXCEPT ![r] = t] /\ status' = [status EXCEPT ![r] = "running"]
      /\ UNCHANGED <<inbox, spent, rows, summaries>>
  BY DEF Begin
<1>8. Typed'
  BY <1>1, <1>2, <1>6, <1>7 DEF Typed
<1>9. Bounded'
  BY <1>1, <1>7 DEF Typed, Bounded
<1>10. LoopStep(r)
  BY <1>1, <1>2, <1>5, <1>7 DEF Typed, LoopStep, Still
<1> QED
  BY <1>8, <1>9, <1>10

LEMMA CallStep ==
  ASSUME ConversationInv, NEW r \in Run, Call(r)
  PROVE  Typed' /\ Bounded' /\ LoopStep(r)
<1>1. Typed /\ Bounded /\ RunOK(r, "top", iteration[r], context[r], new[r], rows[r])
  BY DEF ConversationInv, Call
<1>2. /\ iteration[r] <= maxIterations /\ place' = [place EXCEPT ![r] = "calling"]
      /\ inbox' = [inbox EXCEPT ![r] = 0]
      /\ context' = [context EXCEPT ![r] = @ \o Injected(r)] /\ new' = [new EXCEPT ![r] = @ \o Injected(r)]
      /\ UNCHANGED <<topic, status, iteration, spent, rows, summaries>>
  BY DEF Call, Say
<1>3. inbox[r] \in Nat /\ MaxInjections \in Nat /\ context[r] \in Seq(MessageSet) /\ new[r] \in Seq(MessageSet)
  BY <1>1, ConversationAssumption DEF Typed
<1>4. /\ Injected(r) \in Seq(MessageSet)
      /\ \A i \in 1..Len(Injected(r)) : Injected(r)[i].role = "user" /\ Injected(r)[i].run = r
  BY <1>3, InjectedType
<1>5. RunOK(r, "calling", iteration[r], context[r] \o Injected(r), new[r] \o Injected(r), rows[r])
  BY <1>1, <1>4, CallKeeps
<1>6. context[r] \o Injected(r) \in Seq(MessageSet) /\ new[r] \o Injected(r) \in Seq(MessageSet)
  BY <1>3, <1>4
<1>7. Typed'
  BY <1>1, <1>2, <1>3, <1>6 DEF Typed
<1>8. Bounded'
  <2>1. spent.injections \in Nat
    BY <1>1, <1>3 DEF Typed
  <2> QED
    BY <1>1, <1>2, <2>1 DEF Typed, Bounded
<1>9. LoopStep(r)
  BY <1>1, <1>2, <1>5 DEF Typed, LoopStep, Still
<1> QED
  BY <1>7, <1>8, <1>9

LEMMA CallsStep ==
  ASSUME ConversationInv, NEW r \in Run, NEW size \in 1..MaxCalls, AnswerWithCalls(r, size)
  PROVE  Typed' /\ Bounded' /\ LoopStep(r)
<1> DEFINE m == Message("assistant", r, Ids(r, size), FALSE)
<1>1. Typed /\ Bounded /\ RunOK(r, "calling", iteration[r], context[r], new[r], rows[r]) /\ place[r] = "calling"
  BY DEF ConversationInv, AnswerWithCalls
<1>2. /\ place' = [place EXCEPT ![r] = "tools"]
      /\ spent.batches < MaxBatches /\ spent' = [spent EXCEPT !.batches = @ + 1]
      /\ context' = [context EXCEPT ![r] = @ \o <<m>>] /\ new' = [new EXCEPT ![r] = @ \o <<m>>]
      /\ UNCHANGED <<topic, status, iteration, inbox, rows, summaries>>
  BY DEF AnswerWithCalls, Say
<1>3. /\ iteration[r] \in 0..maxIterations /\ maxIterations \in Nat /\ MaxCalls \in Nat /\ MaxBatches \in Nat
      /\ context[r] \in Seq(MessageSet) /\ new[r] \in Seq(MessageSet)
  BY <1>1, ConversationAssumption DEF Typed, Bounded
<1>4. Ids(r, size) = Batch(r, iteration[r], size) /\ Ids(r, size) \in Seq(IdSet)
  <2>1. Ids(r, size) = [i \in 1..size |-> <<r, iteration[r], i>>] /\ size \in Nat
    BY <1>3 DEF Ids
  <2>2. \A i \in 1..size : i \in 0..MaxCalls /\ <<r, iteration[r], i>> \in IdSet
    BY <1>3 DEF IdSet
  <2> QED
    BY <2>1, <2>2 DEF Batch
<1>5. m \in MessageSet /\ m.role = "assistant" /\ m.run = r /\ m.ids = Batch(r, iteration[r], size)
  <2>1. r \in {0} \cup Run
    OBVIOUS
  <2> QED
    BY <1>4, <2>1 DEF Message, MessageSet
<1> HIDE DEF m
<1>6. RunOK(r, "tools", iteration[r], context[r] \o <<m>>, new[r] \o <<m>>, rows[r])
  BY <1>1, <1>5, CallsKeep
<1>7. context[r] \o <<m>> \in Seq(MessageSet) /\ new[r] \o <<m>> \in Seq(MessageSet)
  BY <1>3, <1>5
<1>8. spent' \in [injections : 0..MaxInjections, batches : 0..MaxBatches] /\ spent'.injections = spent.injections
  <2>1. spent \in [injections : 0..MaxInjections, batches : 0..MaxBatches]
    BY <1>1 DEF Typed
  <2>2. spent.batches + 1 \in 0..MaxBatches
    BY <1>2, <1>3, <2>1
  <2> QED
    BY <1>2, <2>1, <2>2
<1>9. Typed'
  BY <1>1, <1>2, <1>7, <1>8 DEF Typed
<1>10. Bounded'
  BY <1>1, <1>2, <1>3, <1>8 DEF Typed, Bounded
<1>11. LoopStep(r)
  BY <1>1, <1>2, <1>6 DEF Typed, LoopStep, Still
<1> QED
  BY <1>9, <1>10, <1>11

LEMMA ToolStep ==
  ASSUME ConversationInv, NEW r \in Run, NEW image \in BOOLEAN, Tool(r, image)
  PROVE  Typed' /\ Bounded' /\ LoopStep(r)
<1> DEFINE waiting == Unanswered(r)
           m == Message("tool", r, <<FirstCall(waiting)>>, image)
<1>1. Typed /\ Bounded /\ RunOK(r, "tools", iteration[r], context[r], new[r], rows[r]) /\ place[r] = "tools"
  BY DEF ConversationInv, Tool
<1>2. /\ context' = [context EXCEPT ![r] = @ \o <<m>>] /\ new' = [new EXCEPT ![r] = @ \o <<m>>]
      /\ UNCHANGED <<topic, status, inbox, spent, rows, summaries>>
  BY DEF Tool, Say, FirstCall
<1>3. IF Cardinality(waiting) = 1
        THEN place' = [place EXCEPT ![r] = "top"] /\ iteration' = [iteration EXCEPT ![r] = @ + 1]
        ELSE UNCHANGED <<place, iteration>>
  BY DEF Tool
<1>4. /\ iteration[r] \in 0..maxIterations /\ iteration[r] \in Nat /\ maxIterations \in Nat
      /\ context[r] \in Seq(MessageSet) /\ new[r] \in Seq(MessageSet)
  BY <1>1, ConversationAssumption DEF Typed, Bounded
<1>5. waiting = Calls(new[r], "assistant") \ Calls(new[r], "tool")
  BY DEF Unanswered, Calls
<1> HIDE DEF waiting
<1>6. FirstCall(waiting) \in IdSet
  BY <1>1, <1>4, <1>5, NextCallType
<1>7. m \in MessageSet /\ m.role = "tool" /\ m.run = r /\ m.ids = <<FirstCall(waiting)>>
  <2>1. r \in {0} \cup Run /\ <<FirstCall(waiting)>> \in Seq(IdSet)
    BY <1>6
  <2> QED
    BY <2>1 DEF Message, MessageSet
<1> HIDE DEF m
<1>8. /\ Cardinality(waiting) = 1 => RunOK(r, "top", iteration[r] + 1, context[r] \o <<m>>, new[r] \o <<m>>, rows[r])
      /\ Cardinality(waiting) # 1 => RunOK(r, "tools", iteration[r], context[r] \o <<m>>, new[r] \o <<m>>, rows[r])
  BY <1>1, <1>4, <1>5, <1>7, ToolKeeps
<1>9. context[r] \o <<m>> \in Seq(MessageSet) /\ new[r] \o <<m>> \in Seq(MessageSet)
  BY <1>4, <1>7
<1>10. context' \in [Run -> Seq(MessageSet)] /\ new' \in [Run -> Seq(MessageSet)]
  BY <1>1, <1>2, <1>9 DEF Typed
<1>11. CASE Cardinality(waiting) = 1
  <2>1. place' = [place EXCEPT ![r] = "top"] /\ iteration' = [iteration EXCEPT ![r] = @ + 1]
    BY <1>3, <1>11
  <2>2. Typed'
    BY <1>1, <1>2, <1>4, <1>10, <2>1 DEF Typed
  <2>3. Bounded'
    BY <1>1, <1>2, <2>1 DEF Typed, Bounded
  <2>4. LoopStep(r)
    BY <1>1, <1>2, <1>8, <1>11, <2>1 DEF Typed, LoopStep, Still
  <2> QED
    BY <2>2, <2>3, <2>4
<1>12. CASE Cardinality(waiting) # 1
  <2>1. UNCHANGED <<place, iteration>>
    BY <1>3, <1>12
  <2>2. Typed'
    BY <1>1, <1>2, <1>10, <2>1 DEF Typed
  <2>3. Bounded'
    BY <1>1, <1>2, <2>1 DEF Typed, Bounded
  <2>4. LoopStep(r)
    BY <1>1, <1>2, <1>8, <1>12, <2>1 DEF Typed, LoopStep, Still
  <2> QED
    BY <2>2, <2>3, <2>4
<1> QED
  BY <1>11, <1>12


LEMMA AnswerStep ==
  ASSUME ConversationInv, NEW r \in Run, Answer(r)
  PROVE  Typed' /\ Bounded' /\ LoopStep(r)
<1> DEFINE m == Message("assistant", r, <<>>, FALSE)
           t == Injected(r)
<1>1. Typed /\ Bounded /\ RunOK(r, "calling", iteration[r], context[r], new[r], rows[r]) /\ place[r] = "calling"
  BY DEF ConversationInv, Answer
<1>2. /\ context' = [context EXCEPT ![r] = @ \o (<<m>> \o t)] /\ new' = [new EXCEPT ![r] = @ \o (<<m>> \o t)]
      /\ inbox' = [inbox EXCEPT ![r] = 0] /\ UNCHANGED <<topic, spent, rows, summaries>>
  BY DEF Answer, Say
<1>3. /\ inbox[r] = 0 => /\ status' = [status EXCEPT ![r] = "done"] /\ place' = [place EXCEPT ![r] = "answered"]
                         /\ UNCHANGED iteration
      /\ inbox[r] # 0 => /\ place' = [place EXCEPT ![r] = "top"] /\ iteration' = [iteration EXCEPT ![r] = @ + 1]
                         /\ UNCHANGED status
  BY DEF Answer
<1>4. /\ iteration[r] \in 0..maxIterations /\ iteration[r] \in Nat /\ maxIterations \in Nat /\ MaxInjections \in Nat
      /\ context[r] \in Seq(MessageSet) /\ new[r] \in Seq(MessageSet) /\ inbox[r] \in Nat
      /\ spent.injections \in Nat
  BY <1>1, ConversationAssumption DEF Typed, Bounded
<1>5. /\ t \in Seq(MessageSet) /\ Len(t) = inbox[r]
      /\ \A i \in 1..Len(t) : t[i].role = "user" /\ t[i].run = r
  BY <1>4, InjectedType
<1>6. m \in MessageSet /\ m.role = "assistant" /\ m.run = r /\ m.ids = <<>>
  <2>1. <<>> \in Seq(IdSet) /\ r \in {0} \cup Run
    OBVIOUS
  <2> QED
    BY <2>1 DEF Message, MessageSet
<1> HIDE DEF m, t
<1>7. /\ Len(t) = 0 => RunOK(r, "answered", iteration[r], context[r] \o (<<m>> \o t), new[r] \o (<<m>> \o t), rows[r])
      /\ Len(t) > 0 => RunOK(r, "top", iteration[r] + 1, context[r] \o (<<m>> \o t), new[r] \o (<<m>> \o t), rows[r])
  BY <1>1, <1>4, <1>5, <1>6, AnswerKeeps
<1>8. context[r] \o (<<m>> \o t) \in Seq(MessageSet) /\ new[r] \o (<<m>> \o t) \in Seq(MessageSet)
  <2>1. <<m>> \o t \in Seq(MessageSet)
    BY <1>5, <1>6
  <2> QED
    BY <1>4, <2>1
<1>9. context' \in [Run -> Seq(MessageSet)] /\ new' \in [Run -> Seq(MessageSet)]
  BY <1>1, <1>2, <1>8 DEF Typed
<1>10. CASE inbox[r] = 0
  <2>1. /\ status' = [status EXCEPT ![r] = "done"] /\ place' = [place EXCEPT ![r] = "answered"] /\ UNCHANGED iteration
        /\ RunOK(r, "answered", iteration[r], context[r] \o (<<m>> \o t), new[r] \o (<<m>> \o t), rows[r])
    BY <1>3, <1>5, <1>7, <1>10
  <2>2. Typed'
    BY <1>1, <1>2, <1>4, <1>9, <2>1 DEF Typed
  <2>3. Bounded'
    BY <1>1, <1>2, <1>4, <2>1 DEF Typed, Bounded
  <2>4. LoopStep(r)
    BY <1>1, <1>2, <2>1 DEF Typed, LoopStep, Still
  <2> QED
    BY <2>2, <2>3, <2>4
<1>11. CASE inbox[r] # 0
  <2>1. /\ place' = [place EXCEPT ![r] = "top"] /\ iteration' = [iteration EXCEPT ![r] = @ + 1] /\ UNCHANGED status
        /\ RunOK(r, "top", iteration[r] + 1, context[r] \o (<<m>> \o t), new[r] \o (<<m>> \o t), rows[r])
    BY <1>3, <1>4, <1>5, <1>7, <1>11
  <2>2. Typed'
    <3>1. iteration[r] + 1 \in 0..maxIterations + 1
      BY <1>4
    <3>2. iteration' \in [Run -> 0..maxIterations + 1]
      BY <1>1, <2>1, <3>1 DEF Typed
    <3>3. /\ place' \in [Run -> {"none", "top", "calling", "tools", "answered", "saved", "over"}]
          /\ inbox' \in [Run -> 0..MaxInjections]
      BY <1>1, <1>2, <1>4, <2>1 DEF Typed
    <3> QED
      BY <1>1, <1>2, <1>9, <2>1, <3>2, <3>3 DEF Typed
  <2>3. Bounded'
    BY <1>1, <1>2, <1>4, <2>1 DEF Typed, Bounded
  <2>4. LoopStep(r)
    BY <1>1, <1>2, <2>1 DEF Typed, LoopStep, Still
  <2> QED
    BY <2>2, <2>3, <2>4
<1> QED
  BY <1>10, <1>11

LEMMA SaveStep ==
  ASSUME ConversationInv, NEW r \in Run, Save(r)
  PROVE  Typed' /\ Bounded' /\ LoopStep(r)
<1>1. Typed /\ Bounded /\ RunOK(r, "answered", iteration[r], context[r], new[r], rows[r])
  BY DEF ConversationInv, Save
<1>2. /\ place' = [place EXCEPT ![r] = "saved"] /\ rows' = [rows EXCEPT ![r] = Stored(new[r])]
      /\ UNCHANGED <<topic, status, iteration, context, new, inbox, spent, summaries>>
  BY DEF Save, Stored
<1>3. Stored(new[r]) \in Seq(MessageSet) /\ RunOK(r, "saved", iteration[r], context[r], new[r], Stored(new[r]))
  BY <1>1, SaveKeeps
<1>4. Typed'
  BY <1>1, <1>2, <1>3 DEF Typed
<1>5. Bounded'
  BY <1>1, <1>2 DEF Typed, Bounded
<1>6. LoopStep(r)
  BY <1>1, <1>2, <1>3 DEF Typed, LoopStep, Still
<1> QED
  BY <1>4, <1>5, <1>6

\* What was injected waits, and nothing else is changed.
LEMMA InjectStep ==
  ASSUME ConversationInv, NEW r \in Run, Inject(r)
  PROVE  Typed' /\ Bounded' /\ LoopStep(r)
<1>1. Typed /\ Bounded /\ RunOK(r, place[r], iteration[r], context[r], new[r], rows[r]) /\ MaxInjections \in Nat
  BY ConversationAssumption DEF ConversationInv
<1>2. /\ spent.injections < MaxInjections
      /\ inbox' = [inbox EXCEPT ![r] = @ + 1] /\ spent' = [spent EXCEPT !.injections = @ + 1]
      /\ UNCHANGED <<topic, status, place, iteration, context, new, rows, summaries>>
  BY DEF Inject, loop
<1>3. /\ spent \in [injections : 0..MaxInjections, batches : 0..MaxBatches]
      /\ inbox \in [Run -> 0..MaxInjections] /\ \A q \in Run : inbox[q] <= spent.injections
  BY <1>1 DEF Typed, Bounded
<1>4. spent.injections \in Nat /\ spent.injections + 1 \in 0..MaxInjections /\ \A q \in Run : inbox[q] \in Nat
  BY <1>1, <1>2, <1>3
<1>5. spent' \in [injections : 0..MaxInjections, batches : 0..MaxBatches] /\ spent'.injections = spent.injections + 1
  BY <1>2, <1>3, <1>4
<1>6. inbox' \in [Run -> 0..MaxInjections] /\ \A q \in Run : inbox'[q] <= spent'.injections
  <2>1. inbox[r] + 1 \in 0..MaxInjections
    BY <1>1, <1>2, <1>3, <1>4
  <2>2. inbox[r] + 1 <= spent.injections + 1
    BY <1>3, <1>4
  <2>3. \A q \in Run : inbox'[q] = IF q = r THEN inbox[r] + 1 ELSE inbox[q]
    BY <1>2, <1>3
  <2>4. \A q \in Run : inbox'[q] <= spent.injections + 1
    BY <1>3, <1>4, <2>2, <2>3
  <2> QED
    BY <1>2, <1>3, <1>5, <2>1, <2>4
<1>7. Typed'
  BY <1>1, <1>2, <1>5, <1>6 DEF Typed
<1>8. Bounded'
  BY <1>1, <1>2, <1>6 DEF Bounded
<1>9. LoopStep(r)
  BY <1>1, <1>2 DEF LoopStep, Still
<1> QED
  BY <1>7, <1>8, <1>9

\* A run that is over is only its rows.
LEMMA ForgetStep ==
  ASSUME ConversationInv, NEW ended, Forget(ended), UNCHANGED <<topic, inbox, spent, rows>>,
         status' \in [Run -> {"none", "running", "done", "stopped"}], summaries' \subseteq Run
  PROVE  ConversationInv'
<1>1. Typed /\ Bounded /\ maxIterations \in Nat
  BY ConversationAssumption DEF ConversationInv
<1>2. ASSUME NEW q \in Run PROVE RunOK(q, place'[q], iteration'[q], context'[q], new'[q], rows'[q])
  <2>1. RunOK(q, place[q], iteration[q], context[q], new[q], rows[q])
    BY DEF ConversationInv
  <2>2. CASE q \in ended
    <3>1. place'[q] = "over" /\ rows'[q] = rows[q] /\ WellFormed(rows[q]) /\ Settled(rows[q])
      BY <2>1, <2>2 DEF Forget, RunOK
    <3> QED
      BY <3>1 DEF RunOK, Alive
  <2>3. CASE q \notin ended
    <3>1. Still(q)
      BY <2>3 DEF Forget, Still
    <3> QED
      BY <2>1, <3>1 DEF Still
  <2> QED
    BY <2>2, <2>3
<1>3. /\ place' \in [Run -> {"none", "top", "calling", "tools", "answered", "saved", "over"}]
      /\ iteration' \in [Run -> 0..maxIterations + 1]
      /\ \A q \in Run : place'[q] \in {"calling", "tools"} => place'[q] = place[q] /\ iteration'[q] = iteration[q]
  BY <1>1 DEF Forget, Typed
<1>4. context' \in [Run -> Seq(MessageSet)] /\ new' \in [Run -> Seq(MessageSet)]
  BY <1>1 DEF Forget, Typed
<1>5. Typed'
  BY <1>1, <1>3, <1>4 DEF Typed
<1>6. Bounded'
  BY <1>1, <1>3 DEF Bounded
<1> QED
  BY <1>2, <1>5, <1>6 DEF ConversationInv

\* ConversationInv holds at first, and every step keeps it.
LEMMA ConversationInductive ==
  Spec => []ConversationInv
<1>1. Init => ConversationInv
  <2> SUFFICES ASSUME Init PROVE ConversationInv
    OBVIOUS
  <2>1. MaxRuns \in Nat /\ MaxInjections \in Nat /\ MaxBatches \in Nat /\ maxIterations \in Nat
    BY ConversationAssumption
  <2>2. <<>> \in Seq(MessageSet) /\ 0 \in 0..maxIterations + 1
    BY <2>1
  <2>3. Typed
    BY <2>1, <2>2 DEF Init, Typed
  <2>4. Bounded
    BY <2>1 DEF Init, Bounded
  <2>5. WellFormed(<<>>) /\ Settled(<<>>)
    BY <2>2 DEF WellFormed, Answered, Asked, Turns, Settled
  <2>6. \A r \in Run : RunOK(r, place[r], iteration[r], context[r], new[r], rows[r])
    BY <2>5 DEF Init, RunOK, Alive
  <2> QED
    BY <2>3, <2>4, <2>6 DEF ConversationInv
<1>2. ConversationInv /\ [Next]_vars => ConversationInv'
  <2> SUFFICES ASSUME ConversationInv, [Next]_vars PROVE ConversationInv'
    OBVIOUS
  <2>1. ASSUME NEW r \in Run, Typed' /\ Bounded' /\ LoopStep(r) PROVE ConversationInv'
    <3>1. ASSUME NEW q \in Run, q # r PROVE RunOK(q, place'[q], iteration'[q], context'[q], new'[q], rows'[q])
      BY <2>1, <3>1 DEF ConversationInv, LoopStep, Still
    <3> QED
      BY <2>1, <3>1 DEF ConversationInv, LoopStep
  <2>2. ASSUME NEW r \in Run, NEW t \in Topic, Begin(r, t) PROVE ConversationInv'
    BY <2>1, <2>2, BeginStep
  <2>3. ASSUME NEW r \in Run, Inject(r) PROVE ConversationInv'
    BY <2>1, <2>3, InjectStep
  <2>4. ASSUME NEW r \in Run, Call(r) PROVE ConversationInv'
    BY <2>1, <2>4, CallStep
  <2>5. ASSUME NEW r \in Run, Answer(r) PROVE ConversationInv'
    BY <2>1, <2>5, AnswerStep
  <2>6. ASSUME NEW r \in Run, Save(r) PROVE ConversationInv'
    BY <2>1, <2>6, SaveStep
  <2>7. ASSUME NEW r \in Run, NEW n \in 1..MaxCalls, AnswerWithCalls(r, n) PROVE ConversationInv'
    BY <2>1, <2>7, CallsStep
  <2>8. ASSUME NEW r \in Run, NEW image \in BOOLEAN, Tool(r, image) PROVE ConversationInv'
    BY <2>1, <2>8, ToolStep
  <2>9. status \in [Run -> {"none", "running", "done", "stopped"}] /\ summaries \subseteq Run
    BY DEF ConversationInv, Typed
  <2>10. ASSUME NEW r \in Run, Stop(r) PROVE ConversationInv'
    <3>1. /\ Forget({r}) /\ status' = [status EXCEPT ![r] = "stopped"]
          /\ UNCHANGED <<topic, inbox, spent, rows, summaries>>
      BY <2>10 DEF Stop
    <3>2. status' \in [Run -> {"none", "running", "done", "stopped"}] /\ summaries' \subseteq Run
      BY <2>9, <3>1
    <3> QED
      BY <3>1, <3>2, ForgetStep
  <2>11. ASSUME NEW r \in Run, NEW stored \in BOOLEAN, Summarise(r, stored) PROVE ConversationInv'
    <3>1. /\ Forget({r}) /\ summaries' = IF stored THEN summaries \cup {r} ELSE summaries
          /\ UNCHANGED <<topic, status, inbox, spent, rows>>
      BY <2>11 DEF Summarise
    <3>2. status' \in [Run -> {"none", "running", "done", "stopped"}] /\ summaries' \subseteq Run
      BY <2>9, <3>1
    <3> QED
      BY <3>1, <3>2, ForgetStep
  <2>12. ASSUME Die PROVE ConversationInv'
    <3>1. PICK ended : Forget(ended)
      BY <2>12 DEF Die
    <3>2. /\ status' = [r \in Run |-> IF status[r] = "running" THEN "stopped" ELSE status[r]]
          /\ UNCHANGED <<topic, inbox, spent, rows, summaries>>
      BY <2>12 DEF Die
    <3>3. status' \in [Run -> {"none", "running", "done", "stopped"}] /\ summaries' \subseteq Run
      BY <2>9, <3>2
    <3> QED
      BY <3>1, <3>2, <3>3, ForgetStep
  <2>13. ASSUME UNCHANGED vars PROVE ConversationInv'
    BY <2>13 DEF vars, loop, ConversationInv, Typed, Bounded
  <2> QED
    BY <2>2, <2>3, <2>4, <2>5, <2>6, <2>7, <2>8, <2>10, <2>11, <2>12, <2>13 DEF Next
<1> QED
  BY <1>1, <1>2, PTL DEF Spec


-----------------------------------------------------------------------------
(* The theorems.                                                           *)

\* Every variable keeps to its values, the loops to their iterations and ids to
\* the numbers they are made of.
THEOREM TypeOKHolds ==
  Spec => []TypeOK
<1>1. ConversationInv => TypeOK
  <2> SUFFICES ASSUME Typed PROVE TypeOK
    BY DEF ConversationInv
  <2>1. ASSUME NEW s \in Seq(MessageSet), NEW n \in DOMAIN s
        PROVE  /\ s[n].role \in {"user", "assistant", "tool"} /\ s[n].run \in {0} \cup Run
               /\ s[n].image \in BOOLEAN
               /\ \A i \in DOMAIN s[n].ids : s[n].ids[i] \in Run \X (0..maxIterations) \X (0..MaxCalls)
    <3>1. n \in 1..Len(s)
      OBVIOUS
    <3>2. s[n].ids \in Seq(IdSet)
      BY <3>1, MessageTypes
    <3>3. \A i \in DOMAIN s[n].ids : s[n].ids[i] \in IdSet
      BY <3>2
    <3> QED
      BY <3>1, <3>3, MessageTypes DEF IdSet
  <2>2. \A r \in Run : context[r] \in Seq(MessageSet) /\ new[r] \in Seq(MessageSet) /\ rows[r] \in Seq(MessageSet)
    BY DEF Typed
  <2> QED
    BY <2>1, <2>2 DEF Typed, TypeOK
<1> QED
  BY <1>1, ConversationInductive, PTL

\* The list for the database is the end of the list for the LLM, and what was
\* saved is that list, without its images.
THEOREM TranscriptsAgreeHolds ==
  Spec => []TranscriptsAgree
<1>1. ConversationInv => TranscriptsAgree
  <2> SUFFICES ASSUME ConversationInv, NEW r \in Run, place[r] \notin {"none", "over"}
               PROVE  LET earlier == Len(context[r]) - Len(new[r])
                      IN  /\ earlier >= 0 /\ new[r] # <<>> /\ new[r][1] = Message("user", r, <<>>, FALSE)
                          /\ \A n \in DOMAIN new[r] : new[r][n] = context[r][earlier + n] /\ new[r][n].run = r
                          /\ place[r] = "saved" =>
                               /\ Len(rows[r]) = Len(new[r])
                               /\ \A n \in DOMAIN new[r] : rows[r][n] = [new[r][n] EXCEPT !.image = FALSE]
    BY DEF TranscriptsAgree
  <2>1. place[r] \in Alive /\ RunOK(r, place[r], iteration[r], context[r], new[r], rows[r])
    BY DEF ConversationInv, Typed, Alive
  <2>2. WellFormed(new[r]) /\ Agree(r, context[r], new[r]) /\ (place[r] = "saved" => rows[r] = Stored(new[r]))
    BY <2>1 DEF RunOK
  <2>3. new[r] \in Seq(MessageSet) /\ DOMAIN new[r] = 1..Len(new[r]) /\ Len(new[r]) \in Nat
    BY <2>2 DEF WellFormed
  <2>4. /\ Len(context[r]) - Len(new[r]) >= 0 /\ new[r] # <<>> /\ new[r][1] = Message("user", r, <<>>, FALSE)
        /\ \A n \in DOMAIN new[r] : new[r][n] = context[r][Len(context[r]) - Len(new[r]) + n] /\ new[r][n].run = r
    <3> DEFINE c == context[r]
               w == new[r]
    <3> HIDE DEF c, w
    <3>1. Agree(r, c, w) /\ w \in Seq(MessageSet) /\ DOMAIN w = 1..Len(w)
      BY <2>2, <2>3 DEF c, w
    <3>2. /\ Len(c) - Len(w) >= 0 /\ Len(w) > 0 /\ w[1] = Message("user", r, <<>>, FALSE)
          /\ \A n \in 1..Len(w) : w[n] = c[Len(c) - Len(w) + n] /\ w[n].run = r
      BY <3>1 DEF Agree
    <3>3. w # <<>>
      BY <3>1, <3>2, EmptySeq
    <3> QED
      BY <3>1, <3>2, <3>3 DEF c, w
  <2>5. ASSUME place[r] = "saved"
        PROVE  /\ Len(rows[r]) = Len(new[r])
               /\ \A n \in DOMAIN new[r] : rows[r][n] = [new[r][n] EXCEPT !.image = FALSE]
    <3>1. rows[r] = Stored(new[r])
      BY <2>2, <2>5
    <3>2. Len(Stored(new[r])) = Len(new[r])
      BY <2>3 DEF Stored
    <3>3. \A n \in DOMAIN new[r] : Stored(new[r])[n] = [new[r][n] EXCEPT !.image = FALSE]
      BY DEF Stored
    <3> QED
      BY <3>1, <3>2, <3>3
  <2> QED
    BY <2>4, <2>5
<1> QED
  BY <1>1, ConversationInductive, PTL


-----------------------------------------------------------------------------
(* The forms of a request.                                                 *)

\* Every call has its result and every result its call.
LEMMA PairedHolds ==
  ASSUME NEW s, WellFormed(s), Open(s)
  PROVE  Paired(messagesToAPI(s))
<1> DEFINE api == messagesToAPI(s)
<1>1. s \in Seq(MessageSet) /\ DOMAIN s = 1..Len(s) /\ Len(s) \in Nat
  BY DEF WellFormed
<1>2. DOMAIN api = 1..Len(s)
  BY <1>1 DEF messagesToAPI
<1>3. \A n \in 1..Len(s) :
        /\ api[n].role = s[n].role
        /\ api[n].tool_calls = IF s[n].role = "assistant" THEN s[n].ids ELSE <<>>
        /\ s[n].role = "tool" => api[n].tool_call_id = s[n].ids[1]
  BY <1>1 DEF messagesToAPI
<1> HIDE DEF api
<1>4. \A n \in 1..Len(s) : s[n].role = "assistant" => DOMAIN api[n].tool_calls = 1..Len(s[n].ids) /\ Len(s[n].ids) \in Nat
  BY <1>1, <1>3, MessageTypes
<1>5. \A n \in 1..Len(s) : s[n].role # "assistant" => DOMAIN api[n].tool_calls = {}
  BY <1>3
<1>6. ASSUME NEW n \in DOMAIN api, NEW i \in DOMAIN api[n].tool_calls
      PROVE  n + i \in DOMAIN api /\ api[n + i].tool_call_id = api[n].tool_calls[i]
  <2>1. n \in 1..Len(s) /\ s[n].role = "assistant" /\ i \in 1..Len(s[n].ids) /\ Len(s[n].ids) \in Nat
    BY <1>2, <1>4, <1>5
  <2>2. n + Len(s[n].ids) <= Len(s)
    BY <2>1 DEF Open, Settled
  <2>3. n + i <= Len(s) /\ n + i \in 1..Len(s)
    BY <1>1, <2>1, <2>2
  <2>4. s[n + i].role = "tool" /\ s[n + i].ids = <<s[n].ids[i]>>
    BY <2>1, <2>3 DEF WellFormed, Answered
  <2> QED
    BY <1>2, <1>3, <2>1, <2>3, <2>4
<1>7. ASSUME NEW n \in DOMAIN api, api[n].role = "tool"
      PROVE  \E asked \in 1..n - 1 : n - asked \in DOMAIN api[asked].tool_calls
  <2>1. n \in 1..Len(s) /\ s[n].role = "tool"
    BY <1>2, <1>3, <1>7
  <2>2. PICK asked \in 1..n - 1 : s[asked].role = "assistant" /\ n - asked <= Len(s[asked].ids)
    BY <2>1 DEF WellFormed, Asked
  <2>3. asked \in 1..Len(s) /\ n - asked \in Nat \ {0}
    BY <1>1, <2>1
  <2>4. n - asked \in 1..Len(s[asked].ids)
    BY <1>4, <2>2, <2>3
  <2> QED
    BY <1>4, <2>2, <2>3, <2>4
<1>8. Paired(api)
  BY <1>6, <1>7 DEF Paired
<1> QED
  BY <1>8 DEF api

\* What Anthropic is told: blocks of a message, and messages.
BlockSet == [type : {"text", "tool_use", "tool_result"}, id : {None} \cup IdSet \cup {m.ids[1] : m \in MessageSet}]

APISet == [role : {"user", "assistant"}, content : Seq(BlockSet)]

LEMMA BlocksOf ==
  ASSUME NEW m \in MessageSet
  PROVE  /\ Blocks(m) \in Seq(BlockSet)
         /\ m.role # "assistant" => /\ Len(Blocks(m)) = 1
                                    /\ Blocks(m)[1].type = IF m.role = "tool" THEN "tool_result" ELSE "text"
                                    /\ m.role = "tool" => Blocks(m)[1].id = m.ids[1]
         /\ m.role = "assistant" => /\ Len(Blocks(m)) = 1 + Len(m.ids) /\ Blocks(m)[1].type = "text"
                                    /\ \A i \in 1..Len(m.ids) : Blocks(m)[1 + i] = Block("tool_use", m.ids[i])
<1>1. m.role \in {"user", "assistant", "tool"} /\ m.ids \in Seq(IdSet) /\ Len(m.ids) \in Nat
  BY DEF MessageSet
<1>2. Block("text", None) \in BlockSet
  BY DEF Block, BlockSet
<1>3. Block("tool_result", m.ids[1]) \in BlockSet
  BY DEF Block, BlockSet
<1>4. CASE m.role = "assistant"
  <2> DEFINE u == [n \in DOMAIN m.ids |-> Block("tool_use", m.ids[n])]
             b == Block("text", None)
  <2>1. \A n \in 1..Len(m.ids) : Block("tool_use", m.ids[n]) \in BlockSet
    BY <1>1 DEF Block, BlockSet
  <2>2. DOMAIN m.ids = 1..Len(m.ids)
    BY <1>1
  <2>3. u \in Seq(BlockSet) /\ Len(u) = Len(m.ids) /\ \A n \in 1..Len(u) : u[n] = Block("tool_use", m.ids[n])
    BY <1>1, <2>1, <2>2
  <2>4. b \in BlockSet /\ b.type = "text"
    BY <1>2 DEF Block
  <2>5. Blocks(m) = <<b>> \o u
    BY <1>4 DEF Blocks
  <2> HIDE DEF u, b
  <2>6. /\ <<b>> \o u \in Seq(BlockSet) /\ Len(<<b>> \o u) = 1 + Len(m.ids) /\ (<<b>> \o u)[1] = b
        /\ \A n \in 1..Len(u) : (<<b>> \o u)[1 + n] = u[n]
    <3>1. <<b>> \in Seq(BlockSet) /\ Len(<<b>>) = 1 /\ <<b>>[1] = b /\ u \in Seq(BlockSet) /\ Len(u) \in Nat
      BY <2>3, <2>4
    <3> QED
      BY <2>3, <3>1
  <2>7. \A i \in 1..Len(m.ids) : Blocks(m)[1 + i] = Block("tool_use", m.ids[i])
    BY <2>3, <2>5, <2>6
  <2> QED
    BY <1>4, <2>4, <2>5, <2>6, <2>7
<1>5. CASE m.role = "tool"
  <2>1. Blocks(m) = <<Block("tool_result", m.ids[1])>>
    BY <1>5 DEF Blocks
  <2>2. Blocks(m)[1].type = "tool_result" /\ Blocks(m)[1].id = m.ids[1]
    BY <2>1 DEF Block
  <2> QED
    BY <1>3, <1>5, <2>1, <2>2
<1>6. CASE m.role = "user"
  <2>1. Blocks(m) = <<Block("text", None)>>
    BY <1>6 DEF Blocks
  <2>2. Blocks(m)[1].type = "text"
    BY <2>1 DEF Block
  <2> QED
    BY <1>2, <1>6, <2>1, <2>2
<1> QED
  BY <1>1, <1>4, <1>5, <1>6

LEMMA AddGives ==
  ASSUME NEW c \in Seq(APISet), NEW m \in MessageSet, NEW d, d = AddToAnthropic(c, m)
  PROVE  /\ d \in Seq(APISet)
         /\ m.role # "assistant" /\ Len(c) > 0 /\ c[Len(c)].role = "user" =>
              /\ Len(d) = Len(c) /\ \A k \in 1..Len(c) - 1 : d[k] = c[k]
              /\ d[Len(c)].role = "user" /\ d[Len(c)].content = c[Len(c)].content \o Blocks(m)
         /\ ~(m.role # "assistant" /\ Len(c) > 0 /\ c[Len(c)].role = "user") =>
              /\ Len(d) = Len(c) + 1 /\ \A k \in 1..Len(c) : d[k] = c[k]
              /\ d[Len(c) + 1].role = IF m.role = "assistant" THEN "assistant" ELSE "user"
              /\ d[Len(c) + 1].content = Blocks(m)
<1>1. Blocks(m) \in Seq(BlockSet) /\ Len(c) \in Nat
  BY BlocksOf
<1>2. Len(c) > 0 <=> c # <<>>
  BY EmptySeq
<1>3. CASE m.role # "assistant" /\ Len(c) > 0 /\ c[Len(c)].role = "user"
  <2> DEFINE L == Len(c)
             u == c[L].content \o Blocks(m)
  <2>1. c[L] \in APISet /\ L \in 1..Len(c)
    BY <1>1, <1>3
  <2>2. u \in Seq(BlockSet)
    BY <1>1, <2>1 DEF APISet
  <2>3. Last(c).role = "user"
    BY <1>3 DEF Last
  <2>4. d = [c EXCEPT ![L].content = @ \o Blocks(m)]
    BY <1>2, <1>3, <2>3 DEF AddToAnthropic
  <2>5. d = [c EXCEPT ![L] = [c[L] EXCEPT !.content = u]]
    BY <2>4
  <2>6. [c[L] EXCEPT !.content = u] \in APISet
    BY <2>1, <2>2 DEF APISet
  <2>7. [c[L] EXCEPT !.content = u].role = "user" /\ [c[L] EXCEPT !.content = u].content = u
    BY <1>3, <2>1 DEF APISet
  <2> HIDE DEF u
  <2>8. /\ d \in Seq(APISet) /\ Len(d) = L /\ \A k \in 1..L - 1 : d[k] = c[k]
        /\ d[L] = [c[L] EXCEPT !.content = u]
    BY <1>1, <2>1, <2>5, <2>6
  <2> QED
    BY <1>3, <2>7, <2>8 DEF u
<1>4. CASE ~(m.role # "assistant" /\ Len(c) > 0 /\ c[Len(c)].role = "user")
  <2> DEFINE e == [role |-> IF m.role = "assistant" THEN "assistant" ELSE "user", content |-> Blocks(m)]
  <2>1. e \in APISet
    BY <1>1 DEF APISet
  <2>2. d = Append(c, e)
    BY <1>2, <1>4 DEF AddToAnthropic, Last
  <2>3. e.role = (IF m.role = "assistant" THEN "assistant" ELSE "user") /\ e.content = Blocks(m)
    OBVIOUS
  <2> HIDE DEF e
  <2> QED
    BY <1>4, <2>1, <2>2, <2>3
<1> QED
  BY <1>3, <1>4


\* The results in a message are those of the calls in the one before it.
Of(content, type) == {i \in DOMAIN content : content[i].type = type}

Good(u, w) ==
  /\ Of(w, "tool_result") = {i - 1 : i \in Of(u, "tool_use")}
  /\ \A i \in Of(u, "tool_use") : w[i - 1].id = u[i].id

\* The last message of the assistant up to the nth message.
LastSaid(s, n, q) ==
  q \in 1..n /\ s[q].role = "assistant" /\ \A m \in q + 1..n : s[m].role # "assistant"

\* The messages after it are the results of its calls, and then others.
LEMMA ResultsMatch ==
  ASSUME NEW s, WellFormed(s), NEW n \in 1..Len(s), NEW q, LastSaid(s, n, q), Len(s[q].ids) <= n - q,
         NEW w \in Seq(BlockSet), Len(w) = n - q, \A i \in 1..Len(w) : w[i] = Blocks(s[q + i])[1]
  PROVE  Good(Blocks(s[q]), w)
<1> DEFINE u == Blocks(s[q])
           L == Len(s[q].ids)
<1>1. s \in Seq(MessageSet) /\ Len(s) \in Nat /\ q \in 1..Len(s) /\ s[q].role = "assistant" /\ n \in Nat /\ q <= n
  BY DEF WellFormed, LastSaid
<1>2. s[q] \in MessageSet /\ L \in Nat
  BY <1>1, MessageTypes
<1>3. /\ u \in Seq(BlockSet) /\ Len(u) = 1 + L /\ u[1].type = "text"
      /\ \A i \in 1..L : u[1 + i] = Block("tool_use", s[q].ids[i])
  BY <1>1, <1>2, BlocksOf
<1> HIDE DEF u
<1>4. DOMAIN u = 1..1 + L
  BY <1>2, <1>3
<1>5. \A i \in 1..L : u[1 + i].type = "tool_use" /\ u[1 + i].id = s[q].ids[i]
  <2>1. \A x : Block("tool_use", x).type = "tool_use" /\ Block("tool_use", x).id = x
    BY DEF Block
  <2> QED
    BY <1>3, <2>1
<1>6. Of(u, "tool_use") = 2..1 + L
  <2>1. \A i \in 2..1 + L : i - 1 \in 1..L /\ 1 + (i - 1) = i
    BY <1>2
  <2>2. \A i \in 2..1 + L : u[i].type = "tool_use"
    BY <1>5, <2>1
  <2> QED
    BY <1>2, <1>3, <1>4, <2>2 DEF Of
<1>7. ASSUME NEW i \in 1..Len(w)
      PROVE  /\ q + i \in 1..Len(s) /\ s[q + i] \in MessageSet /\ s[q + i].role # "assistant"
             /\ w[i].type = IF s[q + i].role = "tool" THEN "tool_result" ELSE "text"
             /\ s[q + i].role = "tool" => w[i].id = s[q + i].ids[1]
  <2>1. q + i \in 1..Len(s) /\ q + i \in q + 1..n
    BY <1>1
  <2>2. s[q + i] \in MessageSet /\ s[q + i].role # "assistant"
    BY <1>1, <2>1, MessageTypes DEF LastSaid
  <2> QED
    BY <2>1, <2>2, BlocksOf
<1>8. ASSUME NEW i \in 1..L
      PROVE  i \in 1..Len(w) /\ s[q + i].role = "tool" /\ s[q + i].ids = <<s[q].ids[i]>>
  <2>1. i \in 1..Len(w) /\ q + i <= Len(s)
    BY <1>1, <1>2
  <2> QED
    BY <1>1, <2>1 DEF WellFormed, Answered
<1>9. ASSUME NEW i \in 1..Len(w), s[q + i].role = "tool"
      PROVE  i \in 1..L
  <2>1. PICK x \in 1..Len(s) : x = q + i
    BY <1>7
  <2>2. s[x].role = "tool" /\ x \in Nat /\ x <= n /\ x > q /\ i = x - q /\ q \in Nat
    BY <1>1, <1>9, <2>1
  <2>3. PICK a \in 1..x - 1 : s[a].role = "assistant" /\ x - a <= Len(s[a].ids)
    BY <2>2 DEF WellFormed, Asked
  <2>4. a \in Nat /\ a > 0 /\ a < x /\ a \in 1..Len(s)
    BY <1>1, <2>2, <2>3
  <2>5. a <= q
    <3> SUFFICES ASSUME a > q PROVE FALSE
      BY <2>2, <2>4
    <3>1. a \in q + 1..n
      BY <1>1, <2>2, <2>4
    <3> QED
      BY <2>3, <3>1 DEF LastSaid
  <2>6. a = q
    <3> SUFFICES ASSUME a < q PROVE FALSE
      BY <2>2, <2>4, <2>5
    <3>1. Len(s[a].ids) \in Nat
      BY <1>1, <2>4, MessageTypes
    <3>2. \A l \in Nat : x - a <= l => q - a \in 1..l
      BY <2>2, <2>4
    <3>3. q - a \in 1..Len(s[a].ids) /\ a + (q - a) = q /\ q <= Len(s)
      <4>1. q - a \in 1..Len(s[a].ids)
        BY <2>3, <3>1, <3>2, Zenon
      <4> QED
        BY <1>1, <2>2, <2>4, <4>1
    <3>4. s[a + (q - a)].role = "tool"
      BY <1>1, <2>3, <2>4, <3>3 DEF WellFormed, Answered
    <3> QED
      BY <1>1, <3>3, <3>4
  <2> QED
    BY <1>2, <2>2, <2>3, <2>6
<1>10. DOMAIN w = 1..Len(w)
  OBVIOUS
<1>11. Of(w, "tool_result") = 1..L
  <2>1. ASSUME NEW i \in Of(w, "tool_result") PROVE i \in 1..L
    <3>1. i \in 1..Len(w) /\ w[i].type = "tool_result"
      BY <1>10 DEF Of
    <3>2. s[q + i].role = "tool"
      BY <1>7, <3>1
    <3> QED
      BY <1>9, <3>1, <3>2
  <2>2. ASSUME NEW i \in 1..L PROVE i \in Of(w, "tool_result")
    BY <1>7, <1>8, <1>10 DEF Of
  <2> QED
    BY <2>1, <2>2
<1>12. {i - 1 : i \in 2..1 + L} = 1..L
  <2>1. \A i \in 2..1 + L : i - 1 \in 1..L
    BY <1>2
  <2>2. \A i \in 1..L : i + 1 \in 2..1 + L /\ i = (i + 1) - 1
    BY <1>2
  <2> QED
    BY <2>1, <2>2
<1>13. ASSUME NEW i \in 2..1 + L PROVE w[i - 1].id = u[i].id
  <2>1. i - 1 \in 1..L /\ 1 + (i - 1) = i
    BY <1>2
  <2>2. i - 1 \in 1..Len(w) /\ s[q + (i - 1)].role = "tool" /\ s[q + (i - 1)].ids = <<s[q].ids[i - 1]>>
    BY <1>8, <2>1
  <2>3. w[i - 1].id = s[q + (i - 1)].ids[1]
    BY <1>7, <2>2
  <2>4. u[1 + (i - 1)].id = s[q].ids[i - 1]
    BY <1>5, <2>1
  <2> QED
    BY <2>1, <2>2, <2>3, <2>4
<1>14. Good(u, w)
  BY <1>6, <1>11, <1>12, <1>13 DEF Good
<1> QED
  BY <1>14 DEF u

\* What is sent after the first n messages.
Sent(s, n, c) ==
  /\ c \in Seq(APISet) /\ Len(c) > 0 /\ (Len(c) > 1 => \E a \in 1..n : s[a].role = "assistant")
  /\ \A k \in 1..Len(c) : c[k].role = IF k % 2 = 1 THEN "user" ELSE "assistant"
  /\ c[Len(c)].role = "assistant" <=> s[n].role = "assistant"
  /\ \A i \in 1..Len(c[1].content) : c[1].content[i].type = "text"
  /\ \A q \in 1..n : LastSaid(s, n, q) =>
       /\ Len(c) > 1
       /\ q = n => c[Len(c)].content = Blocks(s[q])
       /\ q < n => /\ c[Len(c) - 1].content = Blocks(s[q]) /\ Len(c[Len(c)].content) = n - q
                   /\ \A i \in 1..n - q : c[Len(c)].content[i] = Blocks(s[q + i])[1]
  /\ \A k \in 1..Len(c) - 2 : c[k].role = "assistant" => Good(c[k].content, c[k + 1].content)

\* There is one, when the assistant spoke.
LEMMA SomeoneSaid ==
  ASSUME NEW s \in Seq(MessageSet), NEW n \in 1..Len(s), NEW a \in 1..n, s[a].role = "assistant"
  PROVE  \E q \in 1..n : LastSaid(s, n, q)
<1> DEFINE S == {d \in Nat : d < n /\ \E m \in 1..n : n - m <= d /\ s[m].role = "assistant"}
<1>1. n \in Nat /\ a \in Nat /\ n - a \in Nat /\ n - a < n
  OBVIOUS
<1>2. S \in SUBSET Nat /\ n - a \in S
  BY <1>1
<1>3. PICK d \in S : d = 0 \/ (d - 1 \in Nat /\ d - 1 \notin S)
  <2> HIDE DEF S
  <2> QED
    BY <1>2, FirstOf
<1>4. PICK q \in 1..n : n - q <= d /\ s[q].role = "assistant"
  BY <1>3
<1>5. d \in Nat /\ d < n
  BY <1>3
<1>6. ASSUME NEW m \in q + 1..n, s[m].role = "assistant" PROVE FALSE
  <2>1. m \in 1..n /\ n - m <= d - 1 /\ d # 0
    BY <1>1, <1>4, <1>5
  <2>2. d - 1 \in Nat /\ d - 1 < n
    BY <1>1, <1>5, <2>1
  <2>3. d - 1 \in S
    BY <1>6, <2>1, <2>2
  <2> QED
    BY <1>3, <2>1, <2>3
<1> QED
  BY <1>4, <1>6 DEF LastSaid

LEMMA SentFirst ==
  ASSUME NEW s, WellFormed(s), Len(s) > 0,
         NEW c \in Seq(APISet), Len(c) = 1, c[1].role = "user", c[1].content = Blocks(s[1])
  PROVE  Sent(s, 1, c)
<1>1. s \in Seq(MessageSet) /\ Len(s) \in Nat /\ 1 \in 1..Len(s) /\ s[1].role = "user"
  BY DEF WellFormed, Turns
<1>2. s[1] \in MessageSet
  BY <1>1, MessageTypes
<1>4. Len(Blocks(s[1])) = 1 /\ Blocks(s[1])[1].type = "text"
  BY <1>1, <1>2, BlocksOf
<1>5. \A q \in 1..1 : ~LastSaid(s, 1, q)
  BY <1>1 DEF LastSaid
<1>6. \A k \in 1..Len(c) : c[k].role = IF k % 2 = 1 THEN "user" ELSE "assistant"
  <2>1. \A k \in 1..Len(c) : k = 1
    OBVIOUS
  <2> QED
    BY <2>1
<1>7. \A i \in 1..Len(c[1].content) : c[1].content[i].type = "text"
  BY <1>4
<1>8. \A k \in 1..Len(c) - 2 : FALSE
  OBVIOUS
<1>9. c[Len(c)].role # "assistant" /\ s[1].role # "assistant" /\ Len(c) > 0 /\ ~(Len(c) > 1)
  BY <1>1
<1> QED
  BY <1>5, <1>6, <1>7, <1>8, <1>9 DEF Sent

\* A message that is complete holds the results of the calls before it.
LEMMA CompleteGood ==
  ASSUME NEW s, WellFormed(s), NEW n \in 1..Len(s), NEW c, Sent(s, n, c), s[n].role # "assistant",
         \A m \in 1..n : s[m].role = "assistant" => m + Len(s[m].ids) <= n
  PROVE  \A k \in 1..Len(c) - 1 : c[k].role = "assistant" => Good(c[k].content, c[k + 1].content)
<1>1. s \in Seq(MessageSet) /\ Len(s) \in Nat /\ n \in Nat
  BY DEF WellFormed
<1>2. /\ c \in Seq(APISet) /\ Len(c) \in Nat /\ Len(c) > 0
      /\ \A k \in 1..Len(c) - 2 : c[k].role = "assistant" => Good(c[k].content, c[k + 1].content)
  BY DEF Sent
<1> SUFFICES ASSUME NEW k \in 1..Len(c) - 1, c[k].role = "assistant"
             PROVE  Good(c[k].content, c[k + 1].content)
  OBVIOUS
<1>3. CASE k \in 1..Len(c) - 2
  BY <1>2, <1>3
<1>4. CASE k \notin 1..Len(c) - 2
  <2>1. k = Len(c) - 1 /\ k + 1 = Len(c) /\ k \in 1..Len(c) /\ k > 0
    BY <1>2, <1>4
  <2>2. PICK q \in 1..n : LastSaid(s, n, q)
    <3>1. \E a \in 1..n : s[a].role = "assistant"
      BY <1>2, <2>1 DEF Sent
    <3> QED
      BY <1>1, <3>1, SomeoneSaid
  <2>3. s[q].role = "assistant" /\ q < n /\ q \in 1..Len(s)
    BY <1>1, <2>2 DEF LastSaid
  <2>4. /\ c[k].content = Blocks(s[q]) /\ Len(c[k + 1].content) = n - q
        /\ \A i \in 1..n - q : c[k + 1].content[i] = Blocks(s[q + i])[1]
    BY <2>1, <2>2, <2>3 DEF Sent
  <2>5. Len(s[q].ids) <= n - q
    <3>1. q + Len(s[q].ids) <= n /\ Len(s[q].ids) \in Nat
      BY <1>1, <2>3, MessageTypes
    <3> QED
      BY <1>1, <2>3, <3>1
  <2>6. c[k + 1].content \in Seq(BlockSet)
    <3>1. c[k + 1] \in APISet
      BY <1>2, <2>1
    <3> QED
      BY <3>1 DEF APISet
  <2> DEFINE w == c[k + 1].content
  <2>7. w \in Seq(BlockSet) /\ Len(w) = n - q /\ \A i \in 1..Len(w) : w[i] = Blocks(s[q + i])[1]
    BY <2>4, <2>6
  <2> HIDE DEF w
  <2>8. Good(Blocks(s[q]), w)
    BY <2>2, <2>5, <2>7, ResultsMatch
  <2> QED
    BY <2>4, <2>8 DEF w
<1> QED
  BY <1>3, <1>4

LEMMA AddFirst ==
  ASSUME NEW c \in Seq(APISet), Len(c) = 0, NEW m \in MessageSet, m.role = "user", NEW d, d = AddToAnthropic(c, m)
  PROVE  d \in Seq(APISet) /\ Len(d) = 1 /\ d[1].content = Blocks(m) /\ d[1].role = "user"
<1> DEFINE e == [role |-> "user", content |-> Blocks(m)]
<1>1. c = <<>>
  BY EmptySeq
<1>2. e \in APISet /\ e.role = "user" /\ e.content = Blocks(m)
  BY BlocksOf DEF APISet
<1>3. d = Append(c, e)
  BY <1>1 DEF AddToAnthropic
<1> HIDE DEF e
<1> QED
  BY <1>2, <1>3

LEMMA Parity ==
  ASSUME NEW k \in Nat
  PROVE  k % 2 = 1 <=> (k + 1) % 2 # 1
<1>1. k % 2 = 1 => (k + 1) % 2 # 1
  OBVIOUS
<1>2. k % 2 \in {0, 1}
  OBVIOUS
<1>3. k % 2 = 0 => (k + 1) % 2 = 1
  OBVIOUS
<1> QED
  BY <1>1, <1>2, <1>3

LEMMA OneMore ==
  ASSUME NEW u \in Seq(BlockSet), NEW w \in Seq(BlockSet), Len(w) = 1
  PROVE  /\ Len(u \o w) = Len(u) + 1 /\ Len(u) \in Nat
         /\ \A i \in 1..Len(u) : (u \o w)[i] = u[i]
         /\ (u \o w)[Len(u) + 1] = w[1]
<1> DEFINE v == u \o w
<1>1. /\ Len(v) = Len(u) + Len(w)
      /\ \A i \in 1..Len(u) + Len(w) : v[i] = IF i <= Len(u) THEN u[i] ELSE w[i - Len(u)]
  BY ConcatProperties
<1>2. Len(u) \in Nat
  OBVIOUS
<1> HIDE DEF v
<1>3. Len(v) = Len(u) + 1
  BY <1>1
<1>4. \A i \in 1..Len(u) : i \in 1..Len(u) + Len(w) /\ i <= Len(u)
  BY <1>2
<1>5. /\ Len(u) + 1 \in 1..Len(u) + Len(w) /\ ~(Len(u) + 1 <= Len(u))
      /\ (Len(u) + 1) - Len(u) = 1
  BY <1>2
<1>6. v[Len(u) + 1] = w[1]
  BY <1>1, <1>5
<1> QED
  BY <1>1, <1>2, <1>3, <1>4, <1>6 DEF v

\* The last that the assistant said, one message later.
LEMMA LastSaidNext ==
  ASSUME NEW s, NEW n \in Nat, n > 0, NEW q, LastSaid(s, n + 1, q)
  PROVE  /\ s[n + 1].role = "assistant" => q = n + 1
         /\ s[n + 1].role # "assistant" => LastSaid(s, n, q)
         /\ s[n + 1].role # "assistant" /\ s[n].role = "assistant" => q = n
<1>1. q \in 1..n + 1 /\ q \in Nat /\ s[q].role = "assistant"
  BY DEF LastSaid
<1>2. \A m \in q + 1..n + 1 : s[m].role # "assistant"
  BY DEF LastSaid
<1>3. ASSUME s[n + 1].role = "assistant" PROVE q = n + 1
  <2> SUFFICES ASSUME q # n + 1 PROVE FALSE
    OBVIOUS
  <2>1. n + 1 \in q + 1..n + 1
    BY <1>1
  <2> QED
    BY <1>2, <1>3, <2>1
<1>4. ASSUME s[n + 1].role # "assistant" PROVE LastSaid(s, n, q)
  <2>1. q \in 1..n
    <3>1. q # n + 1
      BY <1>1, <1>4
    <3> QED
      BY <1>1, <3>1
  <2>2. \A m \in q + 1..n : m \in q + 1..n + 1
    BY <1>1
  <2> QED
    BY <1>1, <1>2, <2>1, <2>2 DEF LastSaid
<1>5. ASSUME s[n + 1].role # "assistant", s[n].role = "assistant" PROVE q = n
  <2> SUFFICES ASSUME q # n PROVE FALSE
    OBVIOUS
  <2>1. n \in q + 1..n + 1
    <3>1. q # n + 1
      BY <1>1, <1>5
    <3> QED
      BY <1>1, <3>1
  <2> QED
    BY <1>2, <1>5, <2>1
<1> QED
  BY <1>3, <1>4, <1>5

LEMMA SentStep ==
  ASSUME NEW s, WellFormed(s), NEW n \in 1..Len(s), n + 1 \in 1..Len(s), NEW c, Sent(s, n, c),
         NEW d, d = AddToAnthropic(c, s[n + 1])
  PROVE  Sent(s, n + 1, d)
<1> DEFINE L == Len(c)
           m == s[n + 1]
<1>1. /\ s \in Seq(MessageSet) /\ Len(s) \in Nat /\ n \in Nat /\ n > 0 /\ s[n] \in MessageSet /\ m \in MessageSet
      /\ Len(s[n].ids) \in Nat
  BY MessageTypes DEF WellFormed
<1>2. /\ c \in Seq(APISet) /\ L \in Nat /\ L > 0 /\ (L > 1 => \E a \in 1..n : s[a].role = "assistant")
      /\ \A k \in 1..L : c[k].role = IF k % 2 = 1 THEN "user" ELSE "assistant"
      /\ c[L].role = "assistant" <=> s[n].role = "assistant"
      /\ \A i \in 1..Len(c[1].content) : c[1].content[i].type = "text"
      /\ \A k \in 1..L - 2 : c[k].role = "assistant" => Good(c[k].content, c[k + 1].content)
  BY DEF Sent
<1>3. \A q \in 1..n : LastSaid(s, n, q) =>
        /\ L > 1
        /\ q = n => c[L].content = Blocks(s[q])
        /\ q < n => /\ c[L - 1].content = Blocks(s[q]) /\ Len(c[L].content) = n - q
                    /\ \A i \in 1..n - q : c[L].content[i] = Blocks(s[q + i])[1]
  BY DEF Sent
<1>4. L \in 1..L /\ 1 \in 1..L /\ c[L].role \in {"user", "assistant"} /\ c[L] \in APISet
  BY <1>2
<1>5. /\ d \in Seq(APISet)
      /\ m.role # "assistant" /\ c[L].role = "user" =>
           /\ Len(d) = L /\ \A k \in 1..L - 1 : d[k] = c[k]
           /\ d[L].role = "user" /\ d[L].content = c[L].content \o Blocks(m)
      /\ ~(m.role # "assistant" /\ c[L].role = "user") =>
           /\ Len(d) = L + 1 /\ \A k \in 1..L : d[k] = c[k]
           /\ d[L + 1].role = IF m.role = "assistant" THEN "assistant" ELSE "user"
           /\ d[L + 1].content = Blocks(m)
  <2> HIDE DEF m, L
  <2>1. m \in MessageSet /\ c \in Seq(APISet) /\ d = AddToAnthropic(c, m) /\ L = Len(c)
    BY <1>1, <1>2 DEF m, L
  <2>2. /\ d \in Seq(APISet)
        /\ m.role # "assistant" /\ Len(c) > 0 /\ c[Len(c)].role = "user" =>
             /\ Len(d) = Len(c) /\ \A k \in 1..Len(c) - 1 : d[k] = c[k]
             /\ d[Len(c)].role = "user" /\ d[Len(c)].content = c[Len(c)].content \o Blocks(m)
        /\ ~(m.role # "assistant" /\ Len(c) > 0 /\ c[Len(c)].role = "user") =>
             /\ Len(d) = Len(c) + 1 /\ \A k \in 1..Len(c) : d[k] = c[k]
             /\ d[Len(c) + 1].role = IF m.role = "assistant" THEN "assistant" ELSE "user"
             /\ d[Len(c) + 1].content = Blocks(m)
    BY <2>1, AddGives
  <2> QED
    BY <1>2, <2>1, <2>2
<1>6. m.role # "assistant" => Len(Blocks(m)) = 1 /\ Blocks(m) \in Seq(BlockSet)
  BY <1>1, BlocksOf
<1>7. s[n].role = "assistant" => m.role # "assistant"
  <2> SUFFICES ASSUME s[n].role = "assistant" PROVE m.role # "assistant"
    OBVIOUS
  <2>1. CASE Len(s[n].ids) = 0
    <3>1. n \in 1..Len(s) - 1
      BY <1>1
    <3> QED
      BY <2>1, <3>1 DEF WellFormed, Turns
  <2>2. CASE Len(s[n].ids) # 0
    <3>1. 1 \in 1..Len(s[n].ids) /\ n + 1 <= Len(s)
      BY <1>1, <2>2
    <3> QED
      BY <3>1 DEF WellFormed, Answered
  <2> QED
    BY <2>1, <2>2
<1>8. CASE m.role = "assistant"
  <2>1. s[n].role # "assistant" /\ c[L].role = "user"
    BY <1>2, <1>4, <1>7, <1>8
  <2>2. /\ Len(d) = L + 1 /\ \A k \in 1..L : d[k] = c[k]
        /\ d[L + 1].role = "assistant" /\ d[L + 1].content = Blocks(m)
    BY <1>5, <1>8
  <2>3. \A k \in 1..L - 1 : c[k].role = "assistant" => Good(c[k].content, c[k + 1].content)
    <3>1. ASSUME NEW a \in 1..n, s[a].role = "assistant" PROVE a + Len(s[a].ids) <= n
      <4>1. Len(s[a].ids) \in Nat /\ a \in 1..Len(s)
        BY <1>1, MessageTypes
      <4> SUFFICES ASSUME a + Len(s[a].ids) > n PROVE FALSE
        BY <1>1, <4>1
      <4>2. n + 1 - a \in 1..Len(s[a].ids) /\ a + (n + 1 - a) = n + 1 /\ n + 1 <= Len(s)
        BY <1>1, <4>1
      <4>3. s[a + (n + 1 - a)].role = "tool"
        BY <3>1, <4>1, <4>2 DEF WellFormed, Answered
      <4> QED
        BY <1>8, <4>2, <4>3
    <3> QED
      BY <2>1, <3>1, CompleteGood
  <2>4. \A k \in 1..Len(d) - 2 : d[k].role = "assistant" => Good(d[k].content, d[k + 1].content)
    <3>1. \A k \in 1..Len(d) - 2 : k \in 1..L - 1 /\ k \in 1..L /\ k + 1 \in 1..L
      BY <1>2, <2>2
    <3> QED
      BY <2>2, <2>3, <3>1
  <2>5. \A k \in 1..Len(d) : d[k].role = IF k % 2 = 1 THEN "user" ELSE "assistant"
    <3>1. L % 2 = 1
      BY <1>2, <1>4, <2>1
    <3>2. (L + 1) % 2 # 1
      BY <1>2, <3>1, Parity
    <3>3. \A k \in 1..Len(d) : k \in 1..L \/ k = L + 1
      BY <1>2, <2>2
    <3> QED
      BY <1>2, <2>2, <3>2, <3>3
  <2>6. ASSUME NEW q \in 1..n + 1, LastSaid(s, n + 1, q)
        PROVE  q = n + 1
    BY <1>1, <1>8, <2>6, LastSaidNext
  <2>7. \A i \in 1..Len(d[1].content) : d[1].content[i].type = "text"
    BY <1>2, <1>4, <2>2
  <2>8. n + 1 \in 1..n + 1 /\ Len(d) > 0 /\ Len(d) > 1
    BY <1>1, <1>2, <2>2
  <2> QED
    BY <1>1, <1>5, <1>8, <2>2, <2>4, <2>5, <2>6, <2>7, <2>8 DEF Sent
<1>9. CASE m.role # "assistant" /\ c[L].role = "user"
  <2>1. /\ Len(d) = L /\ \A k \in 1..L - 1 : d[k] = c[k]
        /\ d[L].role = "user" /\ d[L].content = c[L].content \o Blocks(m)
    BY <1>5, <1>9
  <2>2. \A k \in 1..Len(d) - 2 : d[k].role = "assistant" => Good(d[k].content, d[k + 1].content)
    <3>1. \A k \in 1..Len(d) - 2 : k \in 1..L - 2 /\ k \in 1..L - 1 /\ k + 1 \in 1..L - 1
      BY <1>2, <2>1
    <3> QED
      BY <1>2, <2>1, <3>1
  <2>3. \A k \in 1..Len(d) : d[k].role = IF k % 2 = 1 THEN "user" ELSE "assistant"
    <3>1. \A k \in 1..Len(d) : k \in 1..L /\ (k \in 1..L - 1 \/ k = L)
      BY <1>2, <2>1
    <3>2. \A k \in 1..Len(d) : d[k].role = c[k].role
      BY <1>9, <2>1, <3>1
    <3> QED
      BY <1>2, <3>1, <3>2
  <2>4. c[L].content \in Seq(BlockSet) /\ Blocks(m) \in Seq(BlockSet) /\ Len(Blocks(m)) = 1
    BY <1>4, <1>6, <1>9 DEF APISet
  <2> DEFINE u == c[L].content
             w == Blocks(m)
  <2>5. /\ d[L].content = u \o w /\ Len(u \o w) = Len(u) + 1 /\ Len(u) \in Nat
        /\ \A i \in 1..Len(u) : (u \o w)[i] = u[i]
        /\ (u \o w)[Len(u) + 1] = w[1]
    <3>1. d[L].content = u \o w /\ u \in Seq(BlockSet) /\ w \in Seq(BlockSet) /\ Len(w) = 1
      BY <2>1, <2>4
    <3> HIDE DEF u, w
    <3> QED
      BY <3>1, OneMore
  <2> HIDE DEF u, w
  <2>6. \A i \in 1..Len(d[1].content) : d[1].content[i].type = "text"
    <3>1. CASE L > 1
      <4>1. 1 \in 1..L - 1
        BY <1>2, <3>1
      <4> QED
        BY <1>2, <2>1, <4>1
    <3>2. CASE L = 1
      <4>1. m.role # "tool"
        <5> SUFFICES ASSUME m.role = "tool" PROVE FALSE
          OBVIOUS
        <5>1. PICK a \in 1..n + 1 - 1 : s[a].role = "assistant"
          BY DEF WellFormed, Asked
        <5>2. a \in 1..n
          BY <1>1
        <5>3. PICK q \in 1..n : LastSaid(s, n, q)
          BY <1>1, <5>1, <5>2, SomeoneSaid
        <5> QED
          BY <1>3, <3>2, <5>3
      <4>2. w[1].type = "text"
        BY <1>1, <1>9, <4>1, BlocksOf DEF w
      <4>3. \A i \in 1..Len(u) : u[i].type = "text"
        BY <1>2, <3>2 DEF u
      <4>4. \A i \in 1..Len(u \o w) : i \in 1..Len(u) \/ i = Len(u) + 1
        BY <2>5
      <4>5. \A i \in 1..Len(u \o w) : (u \o w)[i].type = "text"
        BY <2>5, <4>2, <4>3, <4>4
      <4>6. d[1].content = u \o w
        BY <2>5, <3>2, Zenon
      <4> QED
        BY <4>5, <4>6
    <3>3. L > 1 \/ L = 1
      <4>1. L \in Nat /\ L > 0
        BY <1>2
      <4> HIDE DEF L
      <4> QED
        BY <4>1
    <3> QED
      BY <3>1, <3>2, <3>3
  <2>7. ASSUME NEW q \in 1..n + 1, LastSaid(s, n + 1, q)
        PROVE  /\ L > 1 /\ q # n + 1 /\ d[L - 1].content = Blocks(s[q]) /\ Len(d[L].content) = n + 1 - q
               /\ \A i \in 1..n + 1 - q : d[L].content[i] = Blocks(s[q + i])[1]
    <3>1. LastSaid(s, n, q)
      BY <1>1, <1>9, <2>7, LastSaidNext
    <3>2. q \in 1..n /\ q \in Nat /\ s[q].role = "assistant"
      BY <3>1 DEF LastSaid
    <3>3. q < n
      BY <1>1, <1>2, <1>9, <3>2
    <3>4. /\ L > 1 /\ c[L - 1].content = Blocks(s[q]) /\ Len(u) = n - q
          /\ \A i \in 1..n - q : u[i] = Blocks(s[q + i])[1]
      BY <1>3, <3>1, <3>2, <3>3 DEF u
    <3>5. d[L - 1] = c[L - 1]
      <4>1. L - 1 \in 1..L - 1
        BY <1>2, <3>4
      <4> QED
        BY <2>1, <4>1
    <3>6. Len(d[L].content) = n + 1 - q
      BY <1>1, <2>5, <3>2, <3>4
    <3>7. ASSUME NEW i \in 1..n + 1 - q PROVE d[L].content[i] = Blocks(s[q + i])[1]
      <4>1. CASE i \in 1..n - q
        BY <2>5, <3>4, <4>1
      <4>2. CASE i \notin 1..n - q
        <5>1. i = Len(u) + 1 /\ q + i = n + 1
          BY <1>1, <3>2, <3>4, <4>2
        <5>2. (u \o w)[i] = w[1]
          BY <2>5, <5>1
        <5>3. w = Blocks(s[q + i])
          BY <5>1 DEF w
        <5> QED
          BY <2>5, <5>2, <5>3
      <4> QED
        BY <4>1, <4>2
    <3> QED
      BY <1>1, <3>2, <3>4, <3>5, <3>6, <3>7
  <2>8. d[Len(d)].role # "assistant" /\ Len(d) > 0 /\ (Len(d) > 1 => \E a \in 1..n + 1 : s[a].role = "assistant")
    <3>1. \A a \in 1..n : a \in 1..n + 1
      BY <1>1
    <3> QED
      BY <1>2, <2>1, <3>1
  <2>9. \A q \in 1..n + 1 : LastSaid(s, n + 1, q) =>
          /\ Len(d) > 1
          /\ q = n + 1 => d[Len(d)].content = Blocks(s[q])
          /\ q < n + 1 => /\ d[Len(d) - 1].content = Blocks(s[q]) /\ Len(d[Len(d)].content) = n + 1 - q
                          /\ \A i \in 1..n + 1 - q : d[Len(d)].content[i] = Blocks(s[q + i])[1]
    BY <2>1, <2>7
  <2>10. d[Len(d)].role = "assistant" <=> s[n + 1].role = "assistant"
    BY <1>9, <2>8
  <2> QED
    BY <1>5, <2>2, <2>3, <2>6, <2>8, <2>9, <2>10 DEF Sent
<1>10. CASE m.role # "assistant" /\ c[L].role # "user"
  <2>1. s[n].role = "assistant" /\ c[L].role = "assistant"
    BY <1>2, <1>4, <1>10
  <2>2. /\ Len(d) = L + 1 /\ \A k \in 1..L : d[k] = c[k]
        /\ d[L + 1].role = "user" /\ d[L + 1].content = Blocks(m)
    BY <1>5, <1>10
  <2>3. L % 2 # 1
    BY <1>2, <1>4, <2>1
  <2>4. \A k \in 1..Len(d) : d[k].role = IF k % 2 = 1 THEN "user" ELSE "assistant"
    <3>1. (L + 1) % 2 = 1
      BY <1>2, <2>3, Parity
    <3>2. \A k \in 1..Len(d) : k \in 1..L \/ k = L + 1
      BY <1>2, <2>2
    <3> QED
      BY <1>2, <2>2, <3>1, <3>2
  <2>5. ASSUME NEW k \in 1..Len(d) - 2, d[k].role = "assistant" PROVE Good(d[k].content, d[k + 1].content)
    <3>1. k \in 1..L - 1 /\ k \in 1..L /\ k + 1 \in 1..L
      BY <1>2, <2>2
    <3>2. c[k].role = "assistant" /\ k % 2 # 1
      BY <1>2, <2>2, <2>5, <3>1
    <3>3. k # L - 1
      <4>1. k \in Nat
        BY <3>1
      <4>2. (k + 1) % 2 = 1
        BY <3>2, <4>1, Parity
      <4> QED
        BY <1>2, <2>3, <4>1, <4>2
    <3>4. k \in 1..L - 2
      BY <1>2, <3>1, <3>3
    <3> QED
      BY <1>2, <2>2, <3>1, <3>2, <3>4
  <2>6. \A i \in 1..Len(d[1].content) : d[1].content[i].type = "text"
    BY <1>2, <1>4, <2>2
  <2>7. ASSUME NEW q \in 1..n + 1, LastSaid(s, n + 1, q)
        PROVE  /\ L > 0 /\ q = n /\ d[L].content = Blocks(s[q]) /\ Len(d[L + 1].content) = n + 1 - q
               /\ \A i \in 1..n + 1 - q : d[L + 1].content[i] = Blocks(s[q + i])[1]
    <3>1. q = n /\ LastSaid(s, n, q)
      BY <1>1, <1>10, <2>1, <2>7, LastSaidNext
    <3>2. q \in 1..n
      BY <1>1, <3>1
    <3>3. c[L].content = Blocks(s[q])
      BY <1>3, <3>1, <3>2
    <3>4. \A i \in 1..n + 1 - q : i = 1
      BY <1>1, <3>1
    <3>5. Len(d[L + 1].content) = n + 1 - q /\ d[L + 1].content[1] = Blocks(s[q + 1])[1]
      BY <1>1, <1>6, <1>10, <2>2, <3>1
    <3> QED
      BY <1>2, <1>4, <2>2, <3>1, <3>3, <3>4, <3>5
  <2>8. d[Len(d)].role # "assistant" /\ Len(d) > 1 /\ \E a \in 1..n + 1 : s[a].role = "assistant"
    <3>1. n \in 1..n + 1
      BY <1>1
    <3> QED
      BY <1>2, <2>1, <2>2, <3>1
  <2> QED
    BY <1>1, <1>5, <1>10, <2>2, <2>4, <2>5, <2>6, <2>7, <2>8 DEF Sent
<1> QED
  BY <1>8, <1>9, <1>10

\* The user and the assistant speak in turn, and every call is answered at once.
LEMMA AlternatingHolds ==
  ASSUME NEW s, WellFormed(s), Open(s)
  PROVE  Alternating(convertMessagesForAnthropic(s))
<1> DEFINE N == Len(s)
           step == [p \in Seq(APISet) \X (1..N) |-> AddToAnthropic(p[1], s[p[2]])]
           Is(f) == f = [n \in 0..N |-> IF n = 0 THEN <<>> ELSE AddToAnthropic(f[n - 1], s[n])]
           g == CHOOSE f : Is(f)
<1>1. s \in Seq(MessageSet) /\ N \in Nat /\ N > 0 /\ \A n \in 1..N : s[n] \in MessageSet
  BY DEF WellFormed, Open
<1>2. \A x \in Seq(APISet), n \in 1..N : step[<<x, n>>] = AddToAnthropic(x, s[n]) /\ AddToAnthropic(x, s[n]) \in Seq(APISet)
  <2> SUFFICES ASSUME NEW x \in Seq(APISet), NEW n \in 1..N
               PROVE  step[<<x, n>>] = AddToAnthropic(x, s[n]) /\ AddToAnthropic(x, s[n]) \in Seq(APISet)
    OBVIOUS
  <2>1. s[n] \in MessageSet
    BY <1>1
  <2>2. AddToAnthropic(x, s[n]) \in Seq(APISet)
    BY <2>1, AddGives
  <2> QED
    BY <2>2
<1>3. PICK f \in [0..N -> Seq(APISet)] : f[0] = <<>> /\ \A n \in 1..N : f[n] = step[<<f[n - 1], n>>]
  <2>1. \A x \in Seq(APISet), n \in 1..N : step[<<x, n>>] \in Seq(APISet)
    BY <1>2
  <2>2. <<>> \in Seq(APISet)
    OBVIOUS
  <2> HIDE DEF step, N
  <2>3. Closed(N, Seq(APISet), <<>>, step)
    BY <1>1, <2>1, <2>2 DEF Closed
  <2>4. PICK f : Recursive(f, N, Seq(APISet), <<>>, step)
    BY <2>3, Recursion
  <2> QED
    BY <2>4 DEF Recursive
<1> HIDE DEF step, N
<1>4. Is(f)
  <2>1. \A n \in 1..N : n - 1 \in 0..N
    BY <1>1
  <2>2. \A n \in 1..N : f[n] = AddToAnthropic(f[n - 1], s[n])
    BY <1>2, <1>3, <2>1
  <2>3. \A n \in 0..N : f[n] = IF n = 0 THEN <<>> ELSE AddToAnthropic(f[n - 1], s[n])
    BY <1>1, <1>3, <2>2
  <2> QED
    BY <1>3, <2>3
<1>5. Is(g)
  BY <1>4
<1>6. convertMessagesForAnthropic(s) = g[N]
  BY DEF convertMessagesForAnthropic, N
<1>7. /\ g[0] = <<>> /\ \A n \in 1..N : g[n] = AddToAnthropic(g[n - 1], s[n])
  <2> HIDE DEF g
  <2> QED
    BY <1>1, <1>5
<1> HIDE DEF g
<1>8. Sent(s, 1, g[1])
  <2> DEFINE e == g[0]
             d == g[1]
  <2>1. e \in Seq(APISet) /\ Len(e) = 0
    BY <1>7
  <2>2. d = AddToAnthropic(e, s[1]) /\ s[1] \in MessageSet /\ s[1].role = "user"
    <3>1. 1 \in 1..N /\ 1 - 1 = 0
      BY <1>1
    <3>2. g[1] = AddToAnthropic(g[0], s[1])
      BY <1>7, <3>1
    <3> QED
      BY <1>1, <3>1, <3>2 DEF WellFormed, Turns, N
  <2> HIDE DEF e, d
  <2>5. d \in Seq(APISet) /\ Len(d) = 1 /\ d[1].content = Blocks(s[1]) /\ d[1].role = "user"
    BY <2>1, <2>2, AddFirst
  <2>6. Sent(s, 1, d)
    BY <1>1, <2>5, SentFirst DEF N
  <2> QED
    BY <2>6 DEF d
<1>9. \A n \in 1..N : Sent(s, n, g[n])
  <2> DEFINE Bad == {n \in Nat : n + 1 \in 1..N /\ ~Sent(s, n + 1, g[n + 1])}
  <2>1. Bad = {}
    <3> SUFFICES ASSUME Bad # {} PROVE FALSE
      OBVIOUS
    <3>1. PICK n \in Bad : n = 0 \/ (n - 1 \in Nat /\ n - 1 \notin Bad)
      <4>1. Bad \in SUBSET Nat
        OBVIOUS
      <4> HIDE DEF Bad
      <4> QED
        BY <4>1, FirstOf
    <3>2. n \in Nat /\ n + 1 \in 1..N /\ ~Sent(s, n + 1, g[n + 1])
      OBVIOUS
    <3>3. n # 0
      BY <1>8, <3>2
    <3>4. n - 1 \in Nat /\ n \in 1..N /\ (n - 1) + 1 = n /\ (n + 1) - 1 = n
      BY <1>1, <3>1, <3>2, <3>3
    <3>5. Sent(s, n, g[n])
      BY <3>1, <3>3, <3>4
    <3>6. g[n + 1] = AddToAnthropic(g[n], s[n + 1])
      BY <1>7, <3>2, <3>4
    <3>7. Sent(s, n + 1, g[n + 1])
      <4> DEFINE c == g[n]
                 d == g[n + 1]
      <4>1. Sent(s, n, c) /\ d = AddToAnthropic(c, s[n + 1]) /\ n \in 1..Len(s) /\ n + 1 \in 1..Len(s)
        BY <3>2, <3>4, <3>5, <3>6 DEF N
      <4> HIDE DEF c, d
      <4>2. Sent(s, n + 1, d)
        BY <4>1, SentStep
      <4> QED
        BY <4>2 DEF d
    <3> QED
      BY <3>2, <3>7
  <2>2. ASSUME NEW n \in 1..N PROVE Sent(s, n, g[n])
    <3>1. n - 1 \in Nat /\ (n - 1) + 1 = n
      BY <1>1
    <3>2. n - 1 \notin Bad
      BY <2>1
    <3> QED
      BY <3>1, <3>2
  <2> QED
    BY <2>2
<1> DEFINE c == g[N]
<1>10. Sent(s, N, c)
  BY <1>1, <1>9
<1> HIDE DEF c
<1>11. /\ c \in Seq(APISet) /\ Len(c) \in Nat /\ Len(c) > 0 /\ DOMAIN c = 1..Len(c)
       /\ \A k \in 1..Len(c) : c[k].role = IF k % 2 = 1 THEN "user" ELSE "assistant"
       /\ c[Len(c)].role = "assistant" <=> s[N].role = "assistant"
       /\ \A i \in 1..Len(c[1].content) : c[1].content[i].type = "text"
  BY <1>10 DEF Sent
<1>12. s[N].role # "assistant" /\ \A m \in 1..N : s[m].role = "assistant" => m + Len(s[m].ids) <= N
  BY DEF Open, Settled, N
<1>13. \A k \in 1..Len(c) - 1 : c[k].role = "assistant" => Good(c[k].content, c[k + 1].content)
  <2>1. N \in 1..Len(s)
    BY <1>1 DEF N
  <2> QED
    BY <1>10, <1>12, <2>1, CompleteGood
<1>14. \A k \in DOMAIN c : DOMAIN c[k].content = 1..Len(c[k].content)
  <2> SUFFICES ASSUME NEW k \in DOMAIN c PROVE DOMAIN c[k].content = 1..Len(c[k].content)
    OBVIOUS
  <2>1. c[k] \in APISet
    BY <1>11
  <2>2. c[k].content \in Seq(BlockSet)
    BY <2>1 DEF APISet
  <2> QED
    BY <2>2
<1>15. c # <<>> /\ Last(c).role = "user"
  <2>1. Len(c) \in 1..Len(c)
    BY <1>11
  <2>2. c[Len(c)].role = "user"
    BY <1>11, <1>12, <2>1
  <2>3. c # <<>>
    BY <1>11, EmptySeq
  <2> QED
    BY <2>2, <2>3 DEF Last
<1>16. Of(c[1].content, "tool_result") = {}
  <2>1. 1 \in DOMAIN c
    BY <1>11
  <2>2. \A i \in DOMAIN c[1].content : c[1].content[i].type = "text"
    BY <1>11, <1>14, <2>1
  <2> QED
    BY <2>2 DEF Of
<1>17. ASSUME NEW n \in DOMAIN c, c[n].role = "assistant" PROVE Good(c[n].content, c[n + 1].content)
  <2>1. n # Len(c)
    BY <1>11, <1>12, <1>17
  <2>2. n \in 1..Len(c) - 1
    BY <1>11, <2>1
  <2> QED
    BY <1>13, <1>17, <2>2
<1>18. Alternating(c)
  BY <1>11, <1>15, <1>16, <1>17 DEF Alternating, Good, Of
<1> QED
  BY <1>6, <1>18 DEF c

\* Whatever tools were called, messages injected and runs broken off, every
\* request has the form that its protocol demands.
THEOREM WellFormedRequestsHolds ==
  Spec => []WellFormedRequests
<1>1. ConversationInv => WellFormedRequests
  <2> SUFFICES ASSUME ConversationInv, NEW r \in Run, Asking(r)
               PROVE  /\ Paired(messagesToAPI(context[r]))
                      /\ Alternating(convertMessagesForAnthropic(context[r]))
    BY DEF WellFormedRequests
  <2>1. place[r] = "calling" /\ RunOK(r, place[r], iteration[r], context[r], new[r], rows[r])
    BY DEF Asking, ConversationInv
  <2>2. WellFormed(context[r]) /\ Open(context[r])
    BY <2>1 DEF RunOK, Alive
  <2> QED
    BY <2>2, PairedHolds, AlternatingHolds
<1> QED
  BY <1>1, ConversationInductive, PTL

-----------------------------------------------------------------------------
(* What a run that begins is told.                                         *)

\* A list of messages is made of those of some runs, in the order of the runs.
Sorted(c) == \A m, n \in 1..Len(c) : m < n => c[m].run <= c[n].run

Tidy(c, runs, said) ==
  /\ c \in Seq(MessageSet) /\ Sorted(c)
  /\ \A n \in 1..Len(c) : c[n].run \in runs
  /\ \A q \in runs : said[q] \in Seq(MessageSet) /\ Holds(c, q, said[q])

\* Where the messages of a run are, as numbers.
LEMMA PlacesAre ==
  ASSUME NEW c \in Seq(MessageSet), NEW q
  PROVE  PlacesOf(c, q) = {n \in 1..Len(c) : c[n].run = q}
BY DEF PlacesOf

HoldsFrom(c, q, these, before) ==
  /\ {n \in 1..Len(c) : c[n].run = q} = {before + n : n \in 1..Len(these)}
  /\ \A n \in 1..Len(these) : c[before + n] = these[n]

LEMMA HoldsAre ==
  ASSUME NEW c \in Seq(MessageSet), NEW q, NEW these \in Seq(MessageSet)
  PROVE  Holds(c, q, these) <=> \E before \in 0..Len(c) : HoldsFrom(c, q, these, before)
<1>1. DOMAIN these = 1..Len(these)
  OBVIOUS
<1> QED
  BY <1>1, PlacesAre DEF Holds, HoldsFrom

LEMMA OneSaid ==
  ASSUME NEW c \in Seq(MessageSet), NEW q \in {0} \cup Run, NEW said, said[q] = c,
         \A n \in 1..Len(c) : c[n].run = q
  PROVE  Tidy(c, {q}, said)
<1>1. q \in Int /\ Len(c) \in Nat
  BY DEF Run
<1>2. Sorted(c)
  BY <1>1 DEF Sorted
<1>3. Holds(c, q, c)
  <2>1. 0 \in 0..Len(c) /\ \A n \in 1..Len(c) : 0 + n = n
    BY <1>1
  <2>2. {n \in 1..Len(c) : c[n].run = q} = {0 + n : n \in 1..Len(c)}
    BY <2>1
  <2>3. \A n \in 1..Len(c) : c[0 + n] = c[n]
    BY <2>1
  <2> QED
    BY <2>1, <2>2, <2>3, HoldsAre DEF HoldsFrom
<1> QED
  BY <1>2, <1>3 DEF Tidy

\* What later runs said comes after what earlier ones said.
LEMMA TidyConcat ==
  ASSUME NEW said, NEW F \in SUBSET Int, NEW G \in SUBSET Int, NEW c, NEW d,
         Tidy(c, F, said), Tidy(d, G, said), \A x \in F, y \in G : x < y
  PROVE  Tidy(c \o d, F \cup G, said)
<1> DEFINE w == c \o d
<1>1. c \in Seq(MessageSet) /\ d \in Seq(MessageSet)
  BY DEF Tidy
<1>2. /\ w \in Seq(MessageSet) /\ Len(w) = Len(c) + Len(d) /\ Len(c) \in Nat /\ Len(d) \in Nat
      /\ \A i \in 1..Len(c) : i \in 1..Len(w) /\ w[i] = c[i]
      /\ \A i \in 1..Len(d) : Len(c) + i \in 1..Len(w) /\ w[Len(c) + i] = d[i]
      /\ \A i \in 1..Len(w) : i \in 1..Len(c) \/ (i - Len(c) \in 1..Len(d) /\ Len(c) + (i - Len(c)) = i)
  BY <1>1, Positions
<1> HIDE DEF w
<1>3. (\A i \in 1..Len(c) : c[i].run \in F) /\ (\A i \in 1..Len(d) : d[i].run \in G)
  BY DEF Tidy
<1>4. \A i \in 1..Len(w) : w[i].run \in F \cup G
  BY <1>2, <1>3
<1>5. Sorted(w)
  <2> SUFFICES ASSUME NEW m \in 1..Len(w), NEW n \in 1..Len(w), m < n PROVE w[m].run <= w[n].run
    BY DEF Sorted
  <2>1. CASE n \in 1..Len(c)
    <3>1. m \in 1..Len(c)
      BY <1>2, <2>1
    <3> QED
      BY <1>2, <2>1, <3>1 DEF Tidy, Sorted
  <2>2. CASE n \notin 1..Len(c)
    <3>1. n - Len(c) \in 1..Len(d) /\ w[n] = d[n - Len(c)]
      BY <1>2, <2>2
    <3>2. CASE m \in 1..Len(c)
      <4>1. w[m].run \in F /\ w[n].run \in G
        BY <1>2, <1>3, <3>1, <3>2
      <4>2. w[m].run < w[n].run /\ w[m].run \in Int /\ w[n].run \in Int
        BY <4>1
      <4> QED
        BY <4>2
    <3>3. CASE m \notin 1..Len(c)
      <4>1. m - Len(c) \in 1..Len(d) /\ w[m] = d[m - Len(c)]
        BY <1>2, <3>3
      <4>2. m - Len(c) < n - Len(c)
        BY <1>2
      <4> QED
        BY <3>1, <4>1, <4>2 DEF Tidy, Sorted
    <3> QED
      BY <3>2, <3>3
  <2> QED
    BY <2>1, <2>2
<1>6. ASSUME NEW q \in F PROVE said[q] \in Seq(MessageSet) /\ Holds(w, q, said[q])
  <2> DEFINE these == said[q]
  <2>1. these \in Seq(MessageSet) /\ Holds(c, q, these)
    BY DEF Tidy
  <2> HIDE DEF these
  <2> PICK before \in 0..Len(c) : HoldsFrom(c, q, these, before)
    BY <1>1, <2>1, HoldsAre
  <2>2. /\ {n \in 1..Len(c) : c[n].run = q} = {before + n : n \in 1..Len(these)}
        /\ \A n \in 1..Len(these) : c[before + n] = these[n]
    BY DEF HoldsFrom
  <2>3. before \in 0..Len(w)
    BY <1>2
  <2>4. \A i \in 1..Len(d) : d[i].run # q
    BY <1>3
  <2>5. {n \in 1..Len(w) : w[n].run = q} = {n \in 1..Len(c) : c[n].run = q}
    <3>1. ASSUME NEW n \in 1..Len(w), w[n].run = q PROVE n \in 1..Len(c) /\ c[n].run = q
      BY <1>2, <2>4, <3>1
    <3>2. \A n \in 1..Len(c) : c[n].run = q => n \in 1..Len(w) /\ w[n].run = q
      BY <1>2
    <3> QED
      BY <3>1, <3>2
  <2>6. ASSUME NEW n \in 1..Len(these) PROVE w[before + n] = these[n]
    <3>1. before + n \in 1..Len(c)
      BY <2>2
    <3> QED
      BY <1>2, <2>2, <3>1
  <2>7. HoldsFrom(w, q, these, before)
    BY <2>2, <2>5, <2>6 DEF HoldsFrom
  <2> QED
    BY <1>2, <2>1, <2>3, <2>7, HoldsAre DEF these
<1>7. ASSUME NEW q \in G PROVE said[q] \in Seq(MessageSet) /\ Holds(w, q, said[q])
  <2> DEFINE these == said[q]
  <2>1. these \in Seq(MessageSet) /\ Holds(d, q, these)
    BY DEF Tidy
  <2> HIDE DEF these
  <2> PICK before \in 0..Len(d) : HoldsFrom(d, q, these, before)
    BY <1>1, <2>1, HoldsAre
  <2>2. /\ {n \in 1..Len(d) : d[n].run = q} = {before + n : n \in 1..Len(these)}
        /\ \A n \in 1..Len(these) : d[before + n] = these[n]
    BY DEF HoldsFrom
  <2> DEFINE later == Len(c) + before
  <2>3. later \in 0..Len(w) /\ Len(these) \in Nat
    BY <1>2, <2>1
  <2>4. \A i \in 1..Len(c) : c[i].run # q
    BY <1>3
  <2>5. \A n \in 1..Len(these) : before + n \in 1..Len(d) /\ d[before + n].run = q /\ later + n = Len(c) + (before + n)
    BY <1>2, <2>2
  <2>6. ASSUME NEW n \in 1..Len(these) PROVE w[later + n] = these[n] /\ later + n \in 1..Len(w) /\ w[later + n].run = q
    <3>1. w[Len(c) + (before + n)] = d[before + n] /\ Len(c) + (before + n) \in 1..Len(w)
      BY <1>2, <2>5
    <3> QED
      BY <2>2, <2>5, <3>1
  <2>7. ASSUME NEW i \in 1..Len(w), w[i].run = q PROVE \E n \in 1..Len(these) : i = later + n
    <3>1. i \notin 1..Len(c)
      BY <1>2, <2>4, <2>7
    <3>2. i - Len(c) \in 1..Len(d) /\ Len(c) + (i - Len(c)) = i
      BY <1>2, <3>1
    <3>3. d[i - Len(c)].run = q
      BY <1>2, <2>7, <3>2
    <3>4. PICK n \in 1..Len(these) : i - Len(c) = before + n
      BY <2>2, <3>2, <3>3
    <3> QED
      BY <1>2, <3>2, <3>4
  <2> HIDE DEF later
  <2>8. {n \in 1..Len(w) : w[n].run = q} = {later + n : n \in 1..Len(these)}
    BY <2>6, <2>7
  <2>9. HoldsFrom(w, q, these, later)
    BY <2>6, <2>8 DEF HoldsFrom
  <2> QED
    BY <1>2, <2>1, <2>3, <2>9, HoldsAre DEF these
<1> QED
  BY <1>2, <1>4, <1>5, <1>6, <1>7 DEF Tidy, w

LEMMA RunsAreNumbers ==
  ASSUME NEW s \in Seq(Run)
  PROVE  /\ Len(s) \in Nat /\ DOMAIN s = 1..Len(s)
         /\ \A n \in 1..Len(s) : s[n] \in Run /\ s[n] \in Nat /\ s[n] \in Int
<1>1. \A n \in 1..Len(s) : s[n] \in Run
  OBVIOUS
<1>2. \A q \in Run : q \in Nat /\ q \in Int
  BY ConversationAssumption DEF Run
<1> QED
  BY <1>1, <1>2

\* As many runs as places, in a sequence of runs that goes up.
LEMMA CountRuns ==
  ASSUME NEW s \in Seq(Run), Increasing(s)
  PROVE  IsFiniteSet(ToSet(s)) /\ Cardinality(ToSet(s)) = Len(s)
<1> DEFINE f == [n \in 1..Len(s) |-> s[n]]
           T == ToSet(s)
<1>1. Len(s) \in Nat /\ DOMAIN s = 1..Len(s) /\ T = {s[n] : n \in 1..Len(s)}
  BY DEF ToSet
<1>2. \A m, n \in 1..Len(s) : s[m] = s[n] => m = n
  <2>1. \A n \in 1..Len(s) : s[n] \in Int
    BY RunsAreNumbers
  <2> QED
    BY <1>1, <2>1 DEF Increasing
<1> HIDE DEF T
<1>3. f \in [1..Len(s) -> T] /\ (\A x \in T : \E n \in 1..Len(s) : f[n] = x)
      /\ \A m, n \in 1..Len(s) : f[m] = f[n] => m = n
  BY <1>1, <1>2
<1> HIDE DEF f
<1>4. f \in Surjection(1..Len(s), T) /\ f \in Injection(1..Len(s), T)
  BY <1>3 DEF Surjection, Injection, IsInjective
<1>5. IsFiniteSet(1..Len(s)) /\ Cardinality(1..Len(s)) = Len(s)
  BY <1>1, FS_Interval
<1>6. IsFiniteSet(T) /\ Cardinality(T) = Cardinality(1..Len(s))
  BY <1>4, <1>5, FS_Surjection
<1> QED
  BY <1>5, <1>6 DEF T

\* The messages of the runs that are told in full.
LEMMA MessagesTidy ==
  ASSUME NEW full \in Seq(Run), Increasing(full), NEW said,
         \A q \in ToSet(full) : /\ said[q] = rows[q] /\ rows[q] \in Seq(MessageSet)
                                /\ \A n \in 1..Len(rows[q]) : rows[q][n].run = q
  PROVE  Tidy(Messages(full), ToSet(full), said)
<1> DEFINE N == Len(full)
           seqs == [n \in DOMAIN full |-> rows[full[n]]]
           Up(n) == {full[i] : i \in 1..n}
<1>1. N \in Nat /\ DOMAIN full = 1..N /\ ToSet(full) = Up(N) /\ \A n \in 1..N : full[n] \in Run /\ full[n] \in Int /\ full[n] \in ToSet(full)
  BY RunsAreNumbers DEF ToSet
<1>2. Len(seqs) = N /\ \A n \in 1..N : seqs[n] = rows[full[n]] /\ seqs[n] \in Seq(MessageSet)
  BY <1>1
<1>3. Messages(full) = FlattenSeq(seqs)
  BY DEF Messages
<1>4. CASE N = 0
  <2>1. seqs = <<>>
    BY <1>1, <1>4
  <2>2. Messages(full) = <<>>
    BY <1>3, <2>1 DEF FlattenSeq
  <2>3. ToSet(full) = {}
    BY <1>1, <1>4
  <2> QED
    BY <2>2, <2>3 DEF Tidy, Sorted
<1>5. CASE N # 0
  <2> HIDE DEF seqs
  <2>1. PICK g : Flattens(g, seqs)
    BY <1>1, <1>2, <1>5, FlattenSteps
  <2>2. g[1] = seqs[1] /\ (\A n \in 1..N : n # 1 => g[n] = g[n - 1] \o seqs[n]) /\ FlattenSeq(seqs) = g[N]
    BY <1>2, <2>1 DEF Flattens
  <2>3. \A n \in 1..N : Tidy(seqs[n], {full[n]}, said)
    BY <1>1, <1>2, OneSaid
  <2> DEFINE Bad == {n \in 0..N - 1 : ~Tidy(g[n + 1], Up(n + 1), said)}
  <2> HIDE DEF N, Up
  <2>4. Bad = {}
    <3> SUFFICES ASSUME Bad # {} PROVE FALSE
      OBVIOUS
    <3>1. PICK n \in Bad : n = 0 \/ (n - 1 \in Nat /\ n - 1 \notin Bad)
      <4>1. Bad \in SUBSET Nat
        BY <1>1
      <4> HIDE DEF Bad
      <4> QED
        BY <4>1, FirstOf
    <3>2. n # 0
      <4>1. Up(1) = {full[1]} /\ 1 \in 1..N
        BY <1>1, <1>5 DEF Up
      <4>2. Tidy(g[1], Up(1), said)
        BY <2>2, <2>3, <4>1
      <4> QED
        BY <3>1, <4>2
    <3>3. /\ n + 1 \in 1..N /\ n \in 1..N /\ n + 1 # 1 /\ (n + 1) - 1 = n /\ n - 1 \in 0..N - 1 /\ (n - 1) + 1 = n
      BY <1>1, <3>1, <3>2
    <3>4. Tidy(g[n], Up(n), said) /\ ~Tidy(g[n + 1], Up(n + 1), said)
      BY <3>1, <3>2, <3>3
    <3>5. g[n + 1] = g[n] \o seqs[n + 1]
      BY <2>2, <3>3
    <3>6. Up(n + 1) = Up(n) \cup {full[n + 1]}
      BY <3>3 DEF Up
    <3>7. Up(n) \in SUBSET Int /\ {full[n + 1]} \in SUBSET Int
      <4>1. \A i \in 1..n : i \in 1..N
        BY <1>1, <3>3
      <4>2. (\A i \in 1..n : full[i] \in Int) /\ full[n + 1] \in Int
        BY <1>1, <3>3, <4>1
      <4> QED
        BY <4>2 DEF Up
    <3>8. \A x \in Up(n), y \in {full[n + 1]} : x < y
      <4>1. \A i \in 1..n : i \in 1..N /\ i < n + 1
        BY <1>1, <3>3
      <4>2. \A i \in 1..n : full[i] < full[n + 1]
        BY <3>3, <4>1 DEF Increasing, N
      <4> QED
        BY <4>2 DEF Up
    <3>9. Tidy(seqs[n + 1], {full[n + 1]}, said)
      BY <2>3, <3>3
    <3>10. Tidy(g[n] \o seqs[n + 1], Up(n) \cup {full[n + 1]}, said)
      BY <3>4, <3>7, <3>8, <3>9, TidyConcat
    <3> QED
      BY <3>4, <3>5, <3>6, <3>10
  <2>5. N - 1 \in 0..N - 1 /\ (N - 1) + 1 = N
    BY <1>1, <1>5
  <2> QED
    BY <1>1, <1>3, <2>2, <2>4, <2>5
<1> QED
  BY <1>4, <1>5

\* The runs done are cut in two: those of the window and those before it.
LEMMA Windows ==
  ASSUME NEW done \in Seq(Run), Increasing(done)
  PROVE  /\ FullRuns(done) \in Seq(Run) /\ Increasing(FullRuns(done)) /\ SummaryRuns(done) \in Seq(Run)
         /\ \E cut \in 0..Len(done) :
              /\ ToSet(FullRuns(done)) = {done[i] : i \in cut + 1..Len(done)}
              /\ ToSet(SummaryRuns(done)) = {done[i] : i \in 1..cut}
              /\ cut = 0 \/ Len(FullRuns(done)) = runWindowMin
<1>1. /\ Len(done) \in Nat /\ DOMAIN done = 1..Len(done) /\ runWindowMin \in Nat \ {0} /\ runWindowMax \in Nat
      /\ runWindowMin <= runWindowMax
  BY ConversationAssumption
<1>2. CASE Len(done) <= runWindowMax
  <2>1. FullRuns(done) = done /\ SummaryRuns(done) = <<>>
    BY <1>2 DEF FullRuns, SummaryRuns
  <2>2. ToSet(done) = {done[i] : i \in 0 + 1..Len(done)} /\ ToSet(<<>>) = {done[i] : i \in 1..0}
    BY <1>1 DEF ToSet
  <2>3. <<>> \in Seq(Run) /\ 0 \in 0..Len(done)
    BY <1>1
  <2> QED
    BY <2>1, <2>2, <2>3
<1>3. CASE ~(Len(done) <= runWindowMax)
  <2> DEFINE cut == Len(done) - runWindowMin
             f == FullRuns(done)
             o == SummaryRuns(done)
  <2>1. cut \in 1..Len(done) /\ cut < Len(done) /\ Len(done) - cut = runWindowMin /\ cut + 1 \in 1..Len(done)
    BY <1>1, <1>3
  <2>2. f = SubSeq(done, cut + 1, Len(done)) /\ o = SubSeq(done, 1, cut)
    BY <1>3 DEF FullRuns, SummaryRuns
  <2> HIDE DEF f, o, cut
  <2>3. f \in Seq(Run) /\ Len(f) = runWindowMin /\ \A i \in 1..Len(f) : f[i] = done[cut + i] /\ cut + i \in 1..Len(done)
    <3>1. \A i \in 1..Len(done) - cut : cut + i \in 1..Len(done) /\ (cut + 1) + i - 1 = cut + i
      BY <1>1, <2>1
    <3>2. \A i \in cut + 1..Len(done) : done[i] \in Run
      BY <1>1, <2>1
    <3>3. cut + 1 \in Int /\ Len(done) \in Int /\ cut + 1 <= Len(done)
      BY <1>1, <2>1
    <3>4. f \in Seq(Run) /\ Len(f) = Len(done) - (cut + 1) + 1 /\ \A i \in 1..Len(done) - (cut + 1) + 1 : f[i] = done[cut + 1 + i - 1]
      BY <2>2, <3>2, <3>3, SubSeqProperties
    <3>5. Len(f) = Len(done) - cut /\ Len(done) - (cut + 1) + 1 = Len(done) - cut
      BY <1>1, <2>1, <3>4
    <3>6. ASSUME NEW i \in 1..Len(f) PROVE f[i] = done[cut + i] /\ cut + i \in 1..Len(done)
      <4>1. i \in 1..Len(done) - cut
        BY <3>5
      <4>2. f[i] = done[cut + 1 + i - 1] /\ cut + 1 + i - 1 = cut + i
        BY <1>1, <2>1, <3>4, <3>5, <4>1
      <4> QED
        BY <3>1, <4>1, <4>2
    <3> QED
      BY <2>1, <3>4, <3>5, <3>6
  <2>4. o \in Seq(Run) /\ Len(o) = cut /\ \A i \in 1..Len(o) : o[i] = done[i]
    <3>1. \A i \in 1..cut : i \in 1..Len(done) /\ 1 + i - 1 = i /\ done[i] \in Run
      BY <1>1, <2>1
    <3> QED
      BY <1>1, <2>1, <2>2, <3>1, SubSeqProperties
  <2>5. Increasing(f)
    BY <1>1, <2>1, <2>3 DEF Increasing
  <2>6. ToSet(f) = {done[i] : i \in cut + 1..Len(done)}
    <3>1. ToSet(f) = {f[i] : i \in 1..Len(f)}
      BY <2>3 DEF ToSet
    <3>2. \A i \in 1..Len(f) : cut + i \in cut + 1..Len(done)
      BY <1>1, <2>1, <2>3
    <3>3. \A i \in cut + 1..Len(done) : i - cut \in 1..Len(f) /\ cut + (i - cut) = i
      BY <1>1, <2>1, <2>3
    <3>4. \A i \in cut + 1..Len(done) : f[i - cut] = done[i]
      BY <2>3, <3>3
    <3> QED
      BY <2>3, <3>1, <3>2, <3>3, <3>4
  <2>7. ToSet(o) = {done[i] : i \in 1..cut}
    BY <2>4 DEF ToSet
  <2>8. cut \in 0..Len(done)
    BY <1>1, <2>1
  <2>9. f = FullRuns(done) /\ o = SummaryRuns(done)
    BY DEF f, o
  <2> QED
    BY <2>3, <2>4, <2>5, <2>6, <2>7, <2>8, <2>9
<1> QED
  BY <1>2, <1>3

\* The summaries that may stand for a run.
LEMMA SummariesForIs ==
  ASSUME summaries \subseteq Run, NEW r \in Run
  PROVE  /\ \A s \in SummariesFor(r) : s \in summaries /\ topic[s] = topic[r]
         /\ r \in summaries => SummariesFor(r) = {r}
         /\ (\E s \in summaries : topic[s] = topic[r]) => SummariesFor(r) # {}
<1> DEFINE near == {s \in summaries : topic[s] = topic[r]}
           away(s) == IF s < r THEN r - s ELSE s - r
<1>1. CASE r \in summaries
  BY <1>1 DEF SummariesFor
<1>2. CASE r \notin summaries
  <2>1. SummariesFor(r) = {s \in near : \A other \in near : away(s) <= away(other)}
    BY <1>2 DEF SummariesFor
  <2>2. ASSUME near # {} PROVE \E s \in near : \A other \in near : away(s) <= away(other)
    <3> DEFINE D == {away(s) : s \in near}
    <3>1. \A s \in near : away(s) \in Nat
      <4>1. \A q \in Run : q \in Nat
        BY ConversationAssumption DEF Run
      <4> QED
        BY <4>1
    <3>2. D \in SUBSET Nat /\ D # {}
      BY <2>2, <3>1
    <3> HIDE DEF D
    <3>3. PICK d \in D : \A m \in D : <<m, d>> \notin OpToRel(<, Nat)
      BY <3>2, NatLessThanWellFounded, WFMin
    <3>4. d \in Nat /\ \A m \in D : m \in Nat /\ ~(m < d)
      BY <3>2, <3>3 DEF OpToRel
    <3>5. \A m \in D : d <= m
      BY <3>4
    <3>6. PICK s \in near : d = away(s)
      BY DEF D
    <3>7. \A other \in near : away(other) \in D
      BY DEF D
    <3> HIDE DEF away, near
    <3> QED
      BY <3>5, <3>6, <3>7
  <2> QED
    BY <1>2, <2>1, <2>2
<1> QED
  BY <1>1, <1>2

\* The runs of a list that have a summary to stand for them.
Summed(old) == {r \in ToSet(old) : SummariesFor(r) # {}}

\* The list of summaries has one line for each of these runs.
Lists(lines, old) ==
  /\ lines \in Seq(IdSet) /\ Len(lines) = Cardinality(Summed(old))
  /\ \A n \in 1..Len(lines) : \E q \in Summed(old) : \E s \in SummariesFor(q) : lines[n] = Line(s)
  /\ \A q \in Summed(old) : \E n \in 1..Len(lines) : \E s \in SummariesFor(q) : lines[n] = Line(s)

LEMMA HistoryTells ==
  ASSUME summaries \subseteq Run, NEW old \in Seq(Run), NEW history \in TopicHistory(old)
  PROVE  \/ history = <<>> /\ Summed(old) = {}
         \/ \E lines : Lists(lines, old) /\
              history = <<Message("user", 0, lines, FALSE), Message("assistant", 0, <<>>, FALSE)>>
<1> DEFINE told == InOrder(Summed(old))
<1>1. told = InOrder({r \in ToSet(old) : SummariesFor(r) # {}})
  BY DEF Summed
<1>2. /\ told \in Seq(Run) /\ Increasing(told) /\ \A i \in 1..Len(told) : told[i] \in Summed(old)
      /\ \A q \in Summed(old) : \E i \in 1..Len(told) : told[i] = q
  <2>1. OrderedUpTo(told, Summed(old), MaxRuns)
    BY InOrderIs
  <2>2. ToSet(old) \subseteq Run
    BY RunsAreNumbers DEF ToSet
  <2>3. \A q \in Summed(old) : q \in Run /\ q <= MaxRuns
    BY <2>2, ConversationAssumption DEF Summed, Run
  <2> HIDE DEF told
  <2> QED
    BY <2>1, <2>3 DEF OrderedUpTo
<1>3. TopicHistory(old) =
        IF told = <<>> THEN {<<>>}
        ELSE {<<Message("user", 0, lines, FALSE), Message("assistant", 0, <<>>, FALSE)>> :
                lines \in {l \in [DOMAIN told -> {Line(s) : s \in summaries}] :
                             \A n \in DOMAIN told : l[n][1] \in SummariesFor(told[n])}}
  BY <1>1 DEF TopicHistory
<1> HIDE DEF told
<1>4. CASE told = <<>>
  <2>1. Summed(old) = {}
    BY <1>2, <1>4
  <2> QED
    BY <1>3, <1>4, <2>1
<1>5. CASE told # <<>>
  <2>1. PICK lines \in {l \in [DOMAIN told -> {Line(s) : s \in summaries}] :
                          \A n \in DOMAIN told : l[n][1] \in SummariesFor(told[n])} :
          history = <<Message("user", 0, lines, FALSE), Message("assistant", 0, <<>>, FALSE)>>
    BY <1>3, <1>5
  <2>2. DOMAIN told = 1..Len(told) /\ Len(told) \in Nat
    BY <1>2
  <2>3. ASSUME NEW n \in 1..Len(told) PROVE lines[n] \in IdSet /\ \E s \in SummariesFor(told[n]) : lines[n] = Line(s)
    <3>1. PICK s \in summaries : lines[n] = Line(s)
      BY <2>1, <2>2
    <3>2. lines[n][1] = s /\ s \in Run
      BY <3>1 DEF Line
    <3>3. lines[n][1] \in SummariesFor(told[n])
      BY <2>1, <2>2
    <3>4. Line(s) \in IdSet
      <4>1. 0 \in 0..maxIterations /\ 0 \in 0..MaxCalls
        BY ConversationAssumption
      <4> QED
        BY <3>2, <4>1 DEF Line, IdSet
    <3> QED
      BY <3>1, <3>2, <3>3, <3>4
  <2>4. lines \in [1..Len(told) -> IdSet]
    <3>1. DOMAIN lines = 1..Len(told) /\ lines = [n \in DOMAIN lines |-> lines[n]]
      BY <2>1, <2>2
    <3> QED
      BY <2>3, <3>1
  <2>5. lines \in Seq(IdSet) /\ Len(lines) = Len(told)
    BY <2>2, <2>4
  <2>6. Len(told) = Cardinality(Summed(old))
    <3>1. ToSet(told) = Summed(old)
      BY <1>2, <2>2 DEF ToSet
    <3> QED
      BY <1>2, <3>1, CountRuns
  <2>7. Lists(lines, old)
    <3>1. \A n \in 1..Len(lines) : \E q \in Summed(old) : \E s \in SummariesFor(q) : lines[n] = Line(s)
      BY <1>2, <2>3, <2>5
    <3>2. \A q \in Summed(old) : \E n \in 1..Len(lines) : \E s \in SummariesFor(q) : lines[n] = Line(s)
      BY <1>2, <2>3, <2>5
    <3> QED
      BY <2>5, <2>6, <3>1, <3>2 DEF Lists
  <2> QED
    BY <2>1, <2>7
<1> QED
  BY <1>4, <1>5

\* What a run that begins is told: the summaries, the messages of the window
\* and the user's message.
Told(history, r) ==
  [q \in {0} \cup Run |-> IF q = 0 THEN history ELSE IF q = r THEN <<Message("user", r, <<>>, FALSE)>> ELSE rows[q]]

LEMMA ContextTidy ==
  ASSUME NEW r \in Run, NEW full \in Seq(Run), Increasing(full), \A q \in ToSet(full) : q < r,
         NEW history \in Seq(MessageSet), \A n \in 1..Len(history) : history[n].run = 0,
         \A q \in Run : rows[q] \in Seq(MessageSet) /\ \A n \in 1..Len(rows[q]) : rows[q][n].run = q
  PROVE  Tidy(history \o Messages(full) \o <<Message("user", r, <<>>, FALSE)>>,
              {0} \cup ToSet(full) \cup {r}, Told(history, r))
<1> DEFINE u    == Message("user", r, <<>>, FALSE)
           said == Told(history, r)
           F    == ToSet(full)
<1>1. F \subseteq Run /\ \A q \in Run : q \in Nat /\ q > 0 /\ q \in Int
  BY RunsAreNumbers, ConversationAssumption DEF ToSet, Run
<1>2. said[0] = history /\ said[r] = <<u>> /\ \A q \in F : said[q] = rows[q]
  <2>1. r # 0 /\ \A q \in F : q # 0 /\ q # r /\ q \in Run
    BY <1>1
  <2> QED
    BY <2>1 DEF Told
<1>3. u \in MessageSet /\ u.run = r
  <2>1. <<>> \in Seq(IdSet) /\ r \in {0} \cup Run
    OBVIOUS
  <2> QED
    BY <2>1 DEF Message, MessageSet
<1> HIDE DEF u, said, F
<1>4. Tidy(history, {0}, said)
  BY <1>2, OneSaid
<1>5. Tidy(Messages(full), F, said)
  BY <1>1, <1>2, MessagesTidy DEF F
<1>6. Tidy(<<u>>, {r}, said)
  <2>1. <<u>> \in Seq(MessageSet) /\ \A n \in 1..Len(<<u>>) : <<u>>[n].run = r
    BY <1>3
  <2> QED
    BY <1>2, <2>1, OneSaid
<1>7. Tidy(history \o Messages(full), {0} \cup F, said)
  <2>1. {0} \in SUBSET Int /\ F \in SUBSET Int /\ \A x \in {0}, y \in F : x < y
    BY <1>1
  <2> QED
    BY <1>4, <1>5, <2>1, TidyConcat
<1>8. Tidy((history \o Messages(full)) \o <<u>>, ({0} \cup F) \cup {r}, said)
  <2>1. {0} \cup F \in SUBSET Int /\ {r} \in SUBSET Int /\ \A x \in {0} \cup F, y \in {r} : x < y
    BY <1>1 DEF F
  <2> QED
    BY <1>6, <1>7, <2>1, TidyConcat
<1> QED
  BY <1>8 DEF u, said, F

\* What was so before a run begins: the runs before it were started, rows are
\* the messages of their run, and a run that was summarised has rows.
PastOK ==
  /\ \A q \in Run : topic[q] # None => \A earlier \in 1..q - 1 : topic[earlier] # None
  /\ \A q \in Run : topic[q] = None => place[q] = "none" /\ q \notin summaries
  /\ \A q \in Run : \A n \in 1..Len(rows[q]) : rows[q][n].run = q
  /\ \A q \in summaries : Len(rows[q]) > 0

LEMMA PastRows ==
  ASSUME ConversationInv, PastOK, NEW r \in Run, Save(r)
  PROVE  (\A q \in Run : \A n \in 1..Len(rows'[q]) : rows'[q][n].run = q) /\ \A q \in summaries' : Len(rows'[q]) > 0
<1>1. /\ place[r] = "answered" /\ rows' = [rows EXCEPT ![r] = Stored(new[r])] /\ summaries' = summaries
      /\ rows \in [Run -> Seq(MessageSet)] /\ summaries \subseteq Run
  BY DEF Save, Stored, ConversationInv, Typed
<1>2. new[r] \in Seq(MessageSet) /\ Agree(r, context[r], new[r])
  BY <1>1 DEF ConversationInv, RunOK, Alive, WellFormed
<1>3. Len(new[r]) \in Nat /\ DOMAIN new[r] = 1..Len(new[r]) /\ Len(new[r]) > 0 /\ \A n \in 1..Len(new[r]) : new[r][n].run = r
  <2> DEFINE c == context[r]
             s == new[r]
  <2> HIDE DEF c, s
  <2>1. s \in Seq(MessageSet) /\ Agree(r, c, s)
    BY <1>2 DEF c, s
  <2>2. Len(s) > 0 /\ \A n \in 1..Len(s) : s[n].run = r
    BY <2>1 DEF Agree
  <2>3. Len(s) \in Nat /\ DOMAIN s = 1..Len(s)
    BY <2>1
  <2> QED
    BY <2>2, <2>3 DEF s
<1> DEFINE w == Stored(new[r])
<1>4. Len(w) = Len(new[r]) /\ \A n \in 1..Len(w) : w[n].run = r
  <2>1. Len(w) = Len(new[r])
    BY <1>3 DEF Stored
  <2>2. ASSUME NEW n \in 1..Len(new[r]) PROVE w[n].run = r
    <3>1. w[n] = [new[r][n] EXCEPT !.image = FALSE] /\ new[r][n] \in MessageSet
      BY <1>2, <1>3 DEF Stored
    <3>2. w[n].run = new[r][n].run
      BY <3>1 DEF MessageSet
    <3> QED
      BY <1>3, <3>2
  <2> QED
    BY <2>1, <2>2
<1> HIDE DEF w
<1>5. \A q \in Run : rows'[q] = IF q = r THEN w ELSE rows[q]
  BY <1>1 DEF w
<1> QED
  BY <1>1, <1>3, <1>4, <1>5 DEF PastOK

\* PastOK holds at first, and every step keeps it.
LEMMA PastInductive ==
  Spec => []PastOK
<1>1. Init => PastOK
  BY DEF Init, PastOK
<1>2. ConversationInv /\ PastOK /\ [Next]_vars => PastOK'
  <2> SUFFICES ASSUME ConversationInv, PastOK, [Next]_vars PROVE PastOK'
    OBVIOUS
  <2>1. /\ topic \in [Run -> Topic \cup {None}] /\ place \in [Run -> {"none", "top", "calling", "tools", "answered", "saved", "over"}]
        /\ summaries \subseteq Run /\ MaxRuns \in Nat /\ None \notin Topic
    BY ConversationAssumption DEF ConversationInv, Typed
  <2>2. ASSUME UNCHANGED <<topic, rows, summaries>>, \A q \in Run : place[q] = "none" => place'[q] = "none"
        PROVE PastOK'
    BY <2>2 DEF PastOK
  <2>3. ASSUME NEW r \in Run, NEW t \in Topic, Begin(r, t) PROVE PastOK'
    <3>1. /\ topic[r] = None /\ (\A earlier \in 1..r - 1 : topic[earlier] # None)
          /\ topic' = [topic EXCEPT ![r] = t] /\ place' = [place EXCEPT ![r] = "top"] /\ UNCHANGED <<rows, summaries>>
      BY <2>3 DEF Begin
    <3>2. topic'[r] = t /\ t # None /\ \A q \in Run : q # r => topic'[q] = topic[q] /\ place'[q] = place[q]
      BY <2>1, <3>1
    <3>3. \A q \in Run : \A earlier \in 1..q - 1 : earlier \in Run
      BY <2>1 DEF Run
    <3>4. \A q \in Run : topic'[q] # None => \A earlier \in 1..q - 1 : topic'[earlier] # None
      BY <3>1, <3>2, <3>3 DEF PastOK
    <3>5. \A q \in Run : topic'[q] = None => place'[q] = "none" /\ q \notin summaries'
      BY <3>1, <3>2 DEF PastOK
    <3>6. (\A q \in Run : \A n \in 1..Len(rows'[q]) : rows'[q][n].run = q) /\ \A q \in summaries' : Len(rows'[q]) > 0
      BY <3>1 DEF PastOK
    <3> QED
      BY <3>4, <3>5, <3>6 DEF PastOK
  <2>4. ASSUME NEW r \in Run, Inject(r) PROVE PastOK'
    BY <2>2, <2>4 DEF Inject, loop
  <2>5. ASSUME NEW r \in Run, Call(r) PROVE PastOK'
    BY <2>1, <2>2, <2>5 DEF Call
  <2>6. ASSUME NEW r \in Run, Answer(r) PROVE PastOK'
    BY <2>1, <2>2, <2>6 DEF Answer
  <2>7. ASSUME NEW r \in Run, NEW n \in 1..MaxCalls, AnswerWithCalls(r, n) PROVE PastOK'
    BY <2>1, <2>2, <2>7 DEF AnswerWithCalls
  <2>8. ASSUME NEW r \in Run, NEW image \in BOOLEAN, Tool(r, image) PROVE PastOK'
    <3>1. /\ place[r] = "tools" /\ UNCHANGED <<topic, rows, summaries>>
          /\ place' = place \/ place' = [place EXCEPT ![r] = "top"]
      BY <2>8 DEF Tool
    <3> QED
      BY <2>1, <2>2, <3>1
  <2>9. ASSUME NEW r \in Run, Save(r) PROVE PastOK'
    <3>1. (\A q \in Run : \A n \in 1..Len(rows'[q]) : rows'[q][n].run = q) /\ \A q \in summaries' : Len(rows'[q]) > 0
      BY <2>9, PastRows
    <3>2. place[r] = "answered" /\ place' = [place EXCEPT ![r] = "saved"] /\ UNCHANGED <<topic, summaries>>
      BY <2>9 DEF Save
    <3>3. \A q \in Run : topic'[q] = None => place'[q] = "none" /\ q \notin summaries'
      BY <2>1, <3>2 DEF PastOK
    <3>4. \A q \in Run : topic'[q] # None => \A earlier \in 1..q - 1 : topic'[earlier] # None
      BY <3>2 DEF PastOK
    <3> QED
      BY <3>1, <3>3, <3>4 DEF PastOK
  <2>10. ASSUME NEW r \in Run, Stop(r) PROVE PastOK'
    BY <2>1, <2>2, <2>10 DEF Stop, Forget
  <2>11. ASSUME Die PROVE PastOK'
    BY <2>1, <2>2, <2>11 DEF Die, Forget
  <2>12. ASSUME NEW r \in Run, NEW stored \in BOOLEAN, Summarise(r, stored) PROVE PastOK'
    <3>1. /\ place[r] = "saved" /\ UNCHANGED <<topic, rows>> /\ summaries' \subseteq summaries \cup {r}
          /\ \A q \in Run : place[q] = "none" => place'[q] = "none"
      BY <2>12 DEF Summarise, Forget
    <3>2. topic[r] # None
      BY <3>1 DEF PastOK
    <3>3. Len(rows[r]) > 0
      <4>1. rows[r] = Stored(new[r]) /\ new[r] \in Seq(MessageSet) /\ Agree(r, context[r], new[r])
        BY <3>1 DEF ConversationInv, RunOK, Alive, WellFormed
      <4>2. Len(new[r]) \in Nat /\ Len(new[r]) > 0 /\ DOMAIN new[r] = 1..Len(new[r])
        BY <4>1 DEF Agree
      <4>3. Len(Stored(new[r])) = Len(new[r])
        BY <4>2 DEF Stored
      <4> QED
        BY <4>1, <4>2, <4>3
    <3>4. \A q \in summaries' : Len(rows'[q]) > 0
      BY <3>1, <3>3 DEF PastOK
    <3>5. \A q \in Run : topic'[q] = None => place'[q] = "none" /\ q \notin summaries'
      BY <3>1, <3>2 DEF PastOK
    <3>6. (\A q \in Run : topic'[q] # None => \A earlier \in 1..q - 1 : topic'[earlier] # None)
          /\ \A q \in Run : \A n \in 1..Len(rows'[q]) : rows'[q][n].run = q
      BY <3>1 DEF PastOK
    <3> QED
      BY <3>4, <3>5, <3>6 DEF PastOK
  <2>13. ASSUME UNCHANGED vars PROVE PastOK'
    BY <2>2, <2>13 DEF vars, loop
  <2> QED
    BY <2>3, <2>4, <2>5, <2>6, <2>7, <2>8, <2>9, <2>10, <2>11, <2>12, <2>13 DEF Next
<1> QED
  BY <1>1, <1>2, ConversationInductive, PTL DEF Spec

\* A run that begins is told what Remembers says.
LEMMA BeginRemembers ==
  ASSUME ConversationInv, PastOK, NEW r \in Run, NEW t \in Topic, Begin(r, t)
  PROVE  Remembers(r)'
<1> DEFINE done  == getCompletedRuns(t)
           F     == ToSet(FullRuns(done))
           O     == ToSet(SummaryRuns(done))
           c     == context'[r]
           past  == {q \in Run \ {r} : topic'[q] = topic'[r] /\ status'[q] = "done"}
           full  == {q \in past : PlacesOf(c, q) # {}}
           empty == {q \in past : rows'[q] = <<>>}
           old   == past \ full
           lines == IF PlacesOf(c, 0) = {} THEN <<>> ELSE c[1].ids
<1>1. /\ topic \in [Run -> Topic \cup {None}] /\ status \in [Run -> {"none", "running", "done", "stopped"}]
      /\ context \in [Run -> Seq(MessageSet)] /\ rows \in [Run -> Seq(MessageSet)] /\ summaries \subseteq Run
      /\ None \notin Topic /\ MaxRuns \in Nat /\ \A q \in Run : q \in Nat /\ q > 0 /\ q \in Int
  BY ConversationAssumption DEF ConversationInv, Typed, Run
<1>2. /\ topic[r] = None /\ topic' = [topic EXCEPT ![r] = t] /\ status' = [status EXCEPT ![r] = "running"]
      /\ rows' = rows /\ summaries' = summaries
  BY DEF Begin
<1>3. PICK history \in TopicHistory(SummaryRuns(done)) :
        c = history \o Messages(FullRuns(done)) \o <<Message("user", r, <<>>, FALSE)>>
  <2>1. PICK x \in buildContext(r, t) : context' = [context EXCEPT ![r] = x]
    BY DEF Begin
  <2>2. c = x
    BY <1>1, <2>1
  <2> QED
    BY <2>1, <2>2 DEF buildContext
\* The runs that are done.
<1>4. /\ done \in Seq(Run) /\ Increasing(done)
      /\ ToSet(done) = {q \in Run : topic[q] = t /\ status[q] = "done"}
  <2> DEFINE P == {q \in Run : topic[q] = t /\ status[q] = "done"}
  <2>1. done = InOrder(P)
    BY DEF getCompletedRuns
  <2> HIDE DEF done, P
  <2>2. OrderedUpTo(done, P, MaxRuns)
    BY <2>1, InOrderIs
  <2>3. done \in Seq(Run) /\ Increasing(done) /\ \A i \in 1..Len(done) : done[i] \in P
    BY <2>2 DEF OrderedUpTo
  <2>4. \A q \in P : q \in Run /\ q <= MaxRuns
    BY <1>1 DEF P, Run
  <2>5. \A q \in P : \E i \in 1..Len(done) : done[i] = q
    BY <2>2, <2>4 DEF OrderedUpTo
  <2>6. DOMAIN done = 1..Len(done)
    BY <2>3
  <2>7. ToSet(done) = P
    BY <2>3, <2>5, <2>6 DEF ToSet
  <2> QED
    BY <2>3, <2>7 DEF P
<1>5. past = ToSet(done) /\ topic'[r] = t /\ r \notin past
  <2>1. topic'[r] = t /\ t # None /\ \A q \in Run : q # r => topic'[q] = topic[q] /\ status'[q] = status[q]
    BY <1>1, <1>2
  <2>2. \A q \in Run : topic[q] = t => q # r
    BY <1>2, <2>1
  <2> QED
    BY <1>4, <2>1, <2>2
<1>6. past \subseteq Run /\ \A q \in past : topic[q] = t /\ q < r /\ q # r
  <2>1. ASSUME NEW q \in past PROVE q \in Run /\ topic[q] = t /\ q # r /\ topic[q] # None
    BY <1>1, <1>4, <1>5
  <2>2. ASSUME NEW q \in past, r < q PROVE FALSE
    <3>1. r \in 1..q - 1 /\ q \in Run /\ topic[q] # None
      BY <1>1, <2>1, <2>2
    <3>2. topic[r] # None
      BY <3>1 DEF PastOK
    <3> QED
      BY <1>2, <3>2
  <2>3. ASSUME NEW q \in past PROVE q < r
    <3>1. q \in Int /\ r \in Int /\ ~(r < q) /\ q # r
      BY <1>1, <2>1, <2>2
    <3> QED
      BY <3>1
  <2> QED
    BY <2>1, <2>3
<1> HIDE DEF past
<1>7. /\ FullRuns(done) \in Seq(Run) /\ Increasing(FullRuns(done)) /\ SummaryRuns(done) \in Seq(Run)
      /\ \E cut \in 0..Len(done) :
           /\ F = {done[i] : i \in cut + 1..Len(done)} /\ O = {done[i] : i \in 1..cut}
           /\ cut = 0 \/ Len(FullRuns(done)) = runWindowMin
  <2> HIDE DEF done
  <2> QED
    BY <1>4, Windows
<1> HIDE DEF F, O
\* Those of the window come after the others.
<1>8. past = F \cup O /\ (\A x \in O, y \in F : x < y) /\ (O = {} \/ Cardinality(F) = runWindowMin) /\ IsFiniteSet(F)
  <2> HIDE DEF done
  <2>1. PICK cut \in 0..Len(done) : /\ F = {done[i] : i \in cut + 1..Len(done)} /\ O = {done[i] : i \in 1..cut}
                                    /\ cut = 0 \/ Len(FullRuns(done)) = runWindowMin
    BY <1>7
  <2>2. Len(done) \in Nat /\ DOMAIN done = 1..Len(done)
    BY <1>4
  <2>3. /\ \A i \in 1..Len(done) : i \in 1..cut \/ i \in cut + 1..Len(done)
        /\ \A i \in 1..cut : i \in 1..Len(done) /\ \A j \in cut + 1..Len(done) : j \in 1..Len(done) /\ i < j
        /\ \A j \in cut + 1..Len(done) : j \in 1..Len(done)
    BY <2>2
  <2>4. past = {done[i] : i \in 1..Len(done)}
    BY <1>5, <2>2 DEF ToSet
  <2>5. past = F \cup O
    BY <2>1, <2>3, <2>4
  <2>6. \A x \in O, y \in F : x < y
    BY <1>4, <2>1, <2>3 DEF Increasing
  <2>7. IsFiniteSet(F) /\ Cardinality(F) = Len(FullRuns(done))
    BY <1>7, CountRuns DEF F
  <2>8. cut = 0 => O = {}
    BY <2>1
  <2> QED
    BY <2>1, <2>5, <2>6, <2>7, <2>8
\* The list of summaries.
<1>9. \/ history = <<>> /\ Summed(SummaryRuns(done)) = {}
      \/ \E l : Lists(l, SummaryRuns(done)) /\
           history = <<Message("user", 0, l, FALSE), Message("assistant", 0, <<>>, FALSE)>>
  BY <1>1, <1>7, HistoryTells
<1>10. history \in Seq(MessageSet) /\ \A n \in 1..Len(history) : history[n].run = 0
  <2>1. history \in Seq(MessageSet)
    BY <1>1, HistorySettled DEF WellFormed
  <2>2. CASE history = <<>>
    BY <2>2
  <2>3. ASSUME NEW l, history = <<Message("user", 0, l, FALSE), Message("assistant", 0, <<>>, FALSE)>>
        PROVE \A n \in 1..Len(history) : history[n].run = 0
    BY <2>3 DEF Message
  <2> QED
    BY <1>9, <2>1, <2>2, <2>3
<1> HIDE DEF c
<1>11. Tidy(c, {0} \cup F \cup {r}, Told(history, r))
  <2>1. \A q \in Run : rows[q] \in Seq(MessageSet) /\ \A n \in 1..Len(rows[q]) : rows[q][n].run = q
    BY <1>1 DEF PastOK
  <2>2. \A q \in F : q < r
    BY <1>6, <1>8
  <2> QED
    BY <1>3, <1>7, <1>10, <2>1, <2>2, ContextTidy DEF F
<1>12. /\ c \in Seq(MessageSet) /\ Sorted(c) /\ DOMAIN c = 1..Len(c) /\ Len(c) \in Nat
       /\ \A n \in 1..Len(c) : c[n].run \in {0} \cup F \cup {r}
       /\ Holds(c, 0, history) /\ \A q \in F : Holds(c, q, rows[q]) /\ rows[q] \in Seq(MessageSet)
  <2>1. F \subseteq Run /\ \A q \in F : q # r /\ q # 0
    BY <1>1, <1>6, <1>8
  <2>2. Told(history, r)[0] = history /\ \A q \in F : Told(history, r)[q] = rows[q]
    BY <2>1 DEF Told
  <2>3. c \in Seq(MessageSet) /\ Sorted(c) /\ \A n \in 1..Len(c) : c[n].run \in {0} \cup F \cup {r}
    BY <1>11 DEF Tidy
  <2>4. Holds(c, 0, history) /\ \A q \in F : Holds(c, q, rows[q])
    BY <1>11, <2>2 DEF Tidy
  <2>5. \A q \in F : rows[q] \in Seq(MessageSet)
    BY <1>1, <2>1
  <2> QED
    BY <2>3, <2>4, <2>5
\* Which runs are told in full.
<1>13. \A q \in past : q \in full <=> q \in F /\ rows[q] # <<>>
  <2> SUFFICES ASSUME NEW q \in past PROVE PlacesOf(c, q) # {} <=> q \in F /\ rows[q] # <<>>
    OBVIOUS
  <2>1. CASE q \notin F
    <3>1. q \notin {0} \cup F \cup {r}
      BY <1>1, <1>6, <2>1
    <3>2. PlacesOf(c, q) = {}
      BY <1>12, <3>1 DEF PlacesOf
    <3> QED
      BY <2>1, <3>2
  <2>2. CASE q \in F
    <3> DEFINE these == rows[q]
    <3>1. Holds(c, q, these) /\ these \in Seq(MessageSet)
      BY <1>12, <2>2
    <3> HIDE DEF these
    <3>2. PICK before \in 0..Len(c) : PlacesOf(c, q) = {before + n : n \in DOMAIN these}
      BY <3>1 DEF Holds
    <3>3. these # <<>> <=> DOMAIN these # {}
      <4>1. DOMAIN these = 1..Len(these) /\ Len(these) \in Nat /\ (these = <<>> <=> Len(these) = 0)
        BY <3>1, EmptySeq
      <4>2. CASE these = <<>>
        BY <4>2
      <4>3. CASE these # <<>>
        <5>1. 1 \in 1..Len(these)
          BY <4>1, <4>3
        <5> QED
          BY <4>1, <4>3, <5>1
      <4> QED
        BY <4>2, <4>3
    <3> QED
      BY <2>2, <3>2, <3>3 DEF these
  <2> QED
    BY <2>1, <2>2
<1>14. full \subseteq F /\ F \subseteq full \cup empty /\ full \cup empty \subseteq past
  BY <1>2, <1>8, <1>13
<1>15. \A q \in full : Holds(c, q, rows'[q]) /\ \A later \in past : later > q => later \in full \cup empty
  <2> SUFFICES ASSUME NEW q \in full
               PROVE  Holds(c, q, rows'[q]) /\ \A later \in past : later > q => later \in full \cup empty
    OBVIOUS
  <2>1. q \in F /\ Holds(c, q, rows'[q])
    BY <1>2, <1>12, <1>14
  <2>2. ASSUME NEW later \in past, later > q PROVE later \in F
    <3>1. later \in O => later < q
      BY <1>8, <2>1
    <3>2. later \in Int /\ q \in Int
      BY <1>1, <1>6, <1>8, <2>1
    <3> QED
      BY <1>8, <2>2, <3>1, <3>2
  <2> QED
    BY <1>14, <2>1, <2>2
<1>16. \A n \in DOMAIN c : c[n].run \in {0, r} \cup full
  <2> SUFFICES ASSUME NEW n \in 1..Len(c), c[n].run \in F PROVE c[n].run \in full
    BY <1>12
  <2>1. n \in PlacesOf(c, c[n].run)
    BY <1>12 DEF PlacesOf
  <2> QED
    BY <1>8, <2>1
<1>17. \A m, n \in DOMAIN c : m < n => c[m].run <= c[n].run
  BY <1>12 DEF Sorted
<1>18. Cardinality(full \cup empty) >= runWindowMin \/ past \subseteq full \cup empty
  <2>1. CASE O = {}
    BY <1>8, <1>14, <2>1
  <2>2. CASE O # {}
    <3>1. IsFiniteSet(full \cup empty)
      <4>1. IsFiniteSet(Run)
        BY <1>1, FS_Interval DEF Run
      <4> QED
        BY <1>6, <1>14, <4>1, FS_Subset
    <3>2. Cardinality(F) = runWindowMin /\ Cardinality(F) <= Cardinality(full \cup empty)
      BY <1>8, <1>14, <2>2, <3>1, FS_Subset
    <3>3. Cardinality(full \cup empty) \in Nat /\ runWindowMin \in Nat
      BY <3>1, FS_CardinalityType, ConversationAssumption
    <3> QED
      BY <3>2, <3>3
  <2> QED
    BY <2>1, <2>2
\* The lines are those of summaries of the topic.
<1>19. \/ lines = <<>> /\ Summed(SummaryRuns(done)) = {}
       \/ Lists(lines, SummaryRuns(done))
  <2>1. CASE history = <<>> /\ Summed(SummaryRuns(done)) = {}
    <3>1. PlacesOf(c, 0) = {}
      BY <1>12, <2>1 DEF Holds
    <3> QED
      BY <2>1, <3>1
  <2>2. ASSUME NEW l, Lists(l, SummaryRuns(done)),
               history = <<Message("user", 0, l, FALSE), Message("assistant", 0, <<>>, FALSE)>>
        PROVE  lines = l
    <3>1. DOMAIN history = {1, 2} /\ history[1] = Message("user", 0, l, FALSE)
      BY <2>2
    <3>2. PICK before \in 0..Len(c) : /\ PlacesOf(c, 0) = {before + n : n \in DOMAIN history}
                                      /\ \A n \in DOMAIN history : c[before + n] = history[n]
      BY <1>12 DEF Holds
    <3>3. before + 1 \in PlacesOf(c, 0) /\ c[before + 1].ids = l
      BY <3>1, <3>2 DEF Message
    <3>4. before = 0
      <4> SUFFICES ASSUME before # 0 PROVE FALSE
        OBVIOUS
      <4>1. before + 1 \in 1..Len(c) /\ c[before + 1].run = 0
        BY <1>12, <3>3 DEF PlacesOf
      <4>2. 1 \in 1..Len(c) /\ 1 < before + 1
        BY <1>12, <4>1
      <4>3. c[1].run <= 0 /\ c[1].run \in {0} \cup F \cup {r}
        BY <1>12, <4>1, <4>2 DEF Sorted
      <4>4. c[1].run = 0
        BY <1>1, <1>6, <1>8, <4>3
      <4>5. 1 \in PlacesOf(c, 0)
        BY <1>12, <4>2, <4>4 DEF PlacesOf
      <4>6. PICK n \in {1, 2} : 1 = before + n
        BY <3>1, <3>2, <4>5
      <4> QED
        BY <4>6
    <3> QED
      BY <3>3, <3>4
  <2> QED
    BY <1>9, <2>1, <2>2
<1>20. O \subseteq past /\ O \subseteq Run /\ O = ToSet(SummaryRuns(done))
  BY <1>6, <1>8 DEF O
<1>21. ASSUME NEW q \in O PROVE /\ \A s \in SummariesFor(q) : s \in summaries /\ topic[s] = t
                               /\ (q \in summaries => SummariesFor(q) = {q})
                               /\ ((\E s \in summaries : topic[s] = t) => q \in Summed(SummaryRuns(done)))
  <2>1. q \in Run /\ topic[q] = t
    BY <1>6, <1>20
  <2> QED
    BY <1>1, <1>20, <2>1, SummariesForIs DEF Summed
<1>22. Summed(SummaryRuns(done)) \subseteq O
  BY <1>20 DEF Summed
<1> HIDE DEF done, full, empty, old, lines
<1>23. \A n \in DOMAIN lines : topic'[lines[n][1]] = topic'[r]
  <2>1. CASE lines = <<>>
    BY <2>1
  <2>2. CASE Lists(lines, SummaryRuns(done))
    <3> SUFFICES ASSUME NEW n \in DOMAIN lines PROVE topic'[lines[n][1]] = t
      BY <1>5
    <3>1. n \in 1..Len(lines)
      BY <2>2 DEF Lists
    <3>2. PICK q \in Summed(SummaryRuns(done)) : \E s \in SummariesFor(q) : lines[n] = Line(s)
      BY <2>2, <3>1 DEF Lists
    <3>3. PICK s \in SummariesFor(q) : lines[n] = Line(s)
      BY <3>2
    <3>4. s \in Run /\ topic[s] = t
      BY <1>1, <1>21, <1>22, <3>2, <3>3
    <3>5. lines[n][1] = s
      BY <3>3 DEF Line
    <3>6. topic'[s] = t
      BY <1>1, <1>2, <3>4
    <3> QED
      BY <3>5, <3>6
  <2> QED
    BY <1>19, <2>1, <2>2
<1>24. ASSUME old \ empty # {}, \E q \in summaries' : topic'[q] = topic'[r]
       PROVE  {Line(q) : q \in old \cap summaries'} \subseteq ToSet(lines) /\ Len(lines) >= Cardinality(old \ empty)
  <2>1. old \ empty \subseteq O
    <3>1. \A q \in past : q \notin full /\ q \notin empty => q \notin F
      BY <1>14
    <3> QED
      BY <1>8, <3>1 DEF old
  <2>2. \E s \in summaries : topic[s] = t
    <3>1. PICK s \in summaries : topic'[s] = t
      BY <1>2, <1>5, <1>24
    <3>2. s # r /\ s \in Run
      BY <1>1, <1>2 DEF PastOK
    <3> QED
      BY <1>1, <1>2, <3>1, <3>2
  <2>3. Summed(SummaryRuns(done)) = O
    BY <1>21, <1>22, <2>2
  <2>4. Lists(lines, SummaryRuns(done))
    BY <1>19, <1>24, <2>1, <2>3
  <2>5. ASSUME NEW q \in old, q \in summaries' PROVE Line(q) \in ToSet(lines)
    <3>1. q \in past /\ q \notin full /\ Len(rows[q]) > 0 /\ q \in summaries
      BY <1>2, <2>5 DEF PastOK, old
    <3>2. rows[q] # <<>>
      BY <3>1
    <3>3. q \notin empty
      BY <1>2, <3>2 DEF empty
    <3>4. q \in O /\ SummariesFor(q) = {q}
      BY <1>21, <2>1, <2>5, <3>1, <3>3
    <3>5. PICK n \in 1..Len(lines) : lines[n] = Line(q)
      BY <2>3, <2>4, <3>4 DEF Lists
    <3>6. DOMAIN lines = 1..Len(lines)
      BY <2>4 DEF Lists
    <3> QED
      BY <3>5, <3>6 DEF ToSet
  <2>6. Len(lines) = Cardinality(O)
    BY <2>3, <2>4 DEF Lists
  <2>7. IsFiniteSet(O)
    <3>1. IsFiniteSet(Run)
      BY <1>1, FS_Interval DEF Run
    <3> QED
      BY <1>20, <3>1, FS_Subset
  <2>8. Cardinality(old \ empty) <= Cardinality(O) /\ Cardinality(O) \in Nat /\ Cardinality(old \ empty) \in Nat
    BY <2>1, <2>7, FS_Subset, FS_CardinalityType
  <2> QED
    BY <2>5, <2>6, <2>8
<1> QED
  BY <1>15, <1>16, <1>17, <1>18, <1>23, <1>24 DEF Remembers, past, full, empty, old, lines, c

\* Every run that begins is told the conversation so far: of every run of its
\* topic that was saved all messages, in order and once, or else a line of a
\* summary, and nothing of other topics.
THEOREM ConversationRememberedHolds ==
  Spec => ConversationRemembered
<1>1. ConversationInv /\ PastOK /\ [Next]_vars =>
        [\A r \in Run : topic[r] = None /\ topic'[r] # None => Remembers(r)']_vars
  <2> SUFFICES ASSUME ConversationInv, PastOK, [Next]_vars, NEW r \in Run, topic[r] = None, topic'[r] # None
               PROVE  Remembers(r)'
    OBVIOUS
  <2>1. PICK q \in Run, t \in Topic : Begin(q, t)
    <3>1. topic' # topic
      OBVIOUS
    <3> QED
      BY <3>1 DEF Next, Inject, Call, Answer, Save, Stop, AnswerWithCalls, Tool, Summarise, Die, vars, loop
  <2>2. q = r
    BY <2>1 DEF Begin, ConversationInv, Typed
  <2> QED
    BY <2>1, <2>2, BeginRemembers
<1> QED
  BY <1>1, ConversationInductive, PastInductive, PTL DEF Spec, ConversationRemembered

=============================================================================
