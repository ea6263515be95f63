--------------------------- MODULE AnalyzerProofs ---------------------------
(***************************************************************************)
(* Theorems about Analyzer: for any attempts, presses of the button,       *)
(* crashes and any of its providers.                                       *)
(***************************************************************************)
EXTENDS Analyzer, FiniteSetTheorems, TLAPS

\* The parts of TypeOK.
Pcs == {"idle", "reported", "scheduled", "unscheduled", "existing", "new", "inserted",
        "answered", "stored", "refused", "raised", "lost"}
Outcomes == {"none", "valid", "malformed", "notObject", "error"}
Call == [pc : Pcs, attempt : Attempts \cup {NoAttempt}, answer : Outcomes]
Row == [attempt : Attempts, status : {"completed", "invalid", "unavailable"}, by : Callers]

LEMMA Types == TypeOK <=> /\ attempt \in [Attempts -> Failed \cup {"RUNNING", "SUCCEEDED"}]
                          /\ stored \subseteq Row
                          /\ call \in [Callers -> Call]
                          /\ faults \in Nat
  BY DEF TypeOK, Row, Call, Pcs, Outcomes

LEMMA TypesThen == TypeOK' <=> /\ attempt' \in [Attempts -> Failed \cup {"RUNNING", "SUCCEEDED"}]
                               /\ stored' \subseteq Row
                               /\ call' \in [Callers -> Call]
                               /\ faults' \in Nat
  BY DEF TypeOK, Row, Call, Pcs, Outcomes

\* Whichever provider is configured, its answer is one that Conclude knows.
LEMMA AnswersAre == Answers \subseteq Outcomes
  <1>1. \A t : ParseAndValidate(t) \in Outcomes \/ ~(Cleaned(t).wrapped = "bare" => Cleaned(t).json \in {"object", "other", "none"})
    BY DEF ParseAndValidate, Outcomes
  <1>2. \A t \in Texts : Cleaned(t).json \in {"object", "other", "none"}
    BY DEF Texts, Cleaned
  <1>3. \A t \in Texts : ParseAndValidate(t) \in Outcomes
    BY <1>1, <1>2
  <1>4. MockTexts \subseteq Texts /\ "error" \in Outcomes
    BY DEF MockTexts, Outcomes
  <1>5. QED
    BY <1>3, <1>4, ProviderAssumption DEF Answers, AnthropicAnswers

\* A call that begins: it is with its attempt, and has not inserted anything.
LEMMA BeginIs ==
    ASSUME TypeOK, NEW c \in Callers, NEW a \in Attempts, Begin(c, a)
    PROVE  /\ call' \in [Callers -> Call]
           /\ call'[c].attempt = a /\ call'[c].pc \in {"existing", "new"}
           /\ \A d \in Callers : d # c => call'[d] = call[d]
  <1>1. call \in [Callers -> Call]
    BY Types
  <1>2. QED
    BY <1>1 DEF Begin, Call, Pcs, Outcomes


\* What a step may do to the rows: one call's insertion becomes a row, or ends without
\* one, or none does.
Quiet == /\ stored' = stored
         /\ \A c \in Callers : /\ call'[c].pc # "idle" => call'[c].attempt \in Attempts
                               /\ Inserts(c)' => Inserts(c) /\ call'[c].attempt = call[c].attempt
                               /\ call'[c].pc = "refused" =>
                                     call[c].pc = "refused" /\ call'[c].attempt = call[c].attempt

LEMMA QuietKeeps == OneRow /\ Quiet => OneRow'
  <1> SUFFICES ASSUME OneRow, Quiet PROVE OneRow'
    OBVIOUS
  <1>1. \A a : Analysed(a)' <=> Analysed(a)
    BY DEF Quiet, Analysed
  <1>2. \A c \in Callers : call'[c].pc # "idle" => call'[c].attempt \in Attempts
    BY DEF Quiet
  <1>3. \A r, q \in stored' : r.attempt = q.attempt => r = q
    BY DEF Quiet, OneRow
  <1>4. \A c, d \in Callers :
          Inserts(c)' /\ Inserts(d)' /\ call'[c].attempt = call'[d].attempt => c = d
    BY DEF Quiet, OneRow
  <1>5. \A c \in Callers : Inserts(c)' => ~Analysed(call[c].attempt)'
    <2> SUFFICES ASSUME NEW c \in Callers, Inserts(c)' PROVE ~Analysed(call[c].attempt)'
      OBVIOUS
    <2>1. Inserts(c) /\ call'[c].attempt = call[c].attempt
      BY DEF Quiet
    <2>2. ~Analysed(call[c].attempt)
      BY <2>1 DEF OneRow
    <2>3. QED
      BY <1>1, <2>1, <2>2
  <1>6. \A c \in Callers : call'[c].pc = "refused" => Analysed(call[c].attempt)'
    <2> SUFFICES ASSUME NEW c \in Callers, call'[c].pc = "refused" PROVE Analysed(call[c].attempt)'
      OBVIOUS
    <2>1. call[c].pc = "refused" /\ call'[c].attempt = call[c].attempt
      BY DEF Quiet
    <2>2. Analysed(call[c].attempt)
      BY <2>1 DEF OneRow
    <2>3. QED
      BY <1>1, <2>1, <2>2
  <1>7. QED
    BY <1>2, <1>3, <1>4, <1>5, <1>6 DEF OneRow

Safe == TypeOK /\ OneRow

LEMMA SafeInit == Init => Safe
  <1> SUFFICES ASSUME Init PROVE Safe
    OBVIOUS
  <1>1. NoCall \in Call /\ NoCall.pc = "idle"
    BY DEF NoCall, Call, Pcs, Outcomes
  <1>2. TypeOK
    BY <1>1, Types DEF Init
  <1>3. OneRow
    BY <1>1 DEF Init, OneRow, Inserts
  <1>4. QED
    BY <1>2, <1>3 DEF Safe

\* The row of an uncommitted insertion is one of the call's own.
LEMMA InsertSafe == ASSUME Safe, NEW c \in Callers, Insert(c) PROVE Safe'
  <1>t. /\ TypeOK /\ OneRow /\ call \in [Callers -> Call] /\ stored \subseteq Row /\ faults \in Nat
        /\ attempt \in [Attempts -> Failed \cup {"RUNNING", "SUCCEEDED"}]
    BY Types DEF Safe
  <1>1. /\ call[c].pc = "new" /\ Inserting(call[c].attempt) = {}
        /\ call' = [call EXCEPT ![c].pc = IF Analysed(call[c].attempt) THEN "refused" ELSE "inserted"]
        /\ UNCHANGED <<attempt, stored, faults>>
    BY DEF Insert
  <1>2. /\ call'[c].attempt = call[c].attempt /\ \A d \in Callers : d # c => call'[d] = call[d]
        /\ call'[c].pc = IF Analysed(call[c].attempt) THEN "refused" ELSE "inserted"
        /\ call' \in [Callers -> Call]
    BY <1>1, <1>t DEF Call, Pcs
  <1>3. TypeOK'
    BY <1>1, <1>2, <1>t, TypesThen
  <1>4. \A a : Analysed(a)' <=> Analysed(a)
    BY <1>1 DEF Analysed
  <1>5. \A d \in Callers : Inserts(d) => call[d].attempt # call[c].attempt
    BY <1>1 DEF Inserting, Inserts
  <1>6. call[c].attempt \in Attempts
    BY <1>1, <1>t DEF OneRow
  <1>7. \A d \in Callers : call'[d].pc # "idle" => call'[d].attempt \in Attempts
    BY <1>2, <1>6, <1>t DEF OneRow
  <1>8. \A r, q \in stored' : r.attempt = q.attempt => r = q
    BY <1>1, <1>t DEF OneRow
  <1>9. \A b, d \in Callers : Inserts(b)' /\ Inserts(d)' /\ call'[b].attempt = call'[d].attempt => b = d
    BY <1>2, <1>5, <1>t DEF OneRow, Inserts
  <1>10. \A d \in Callers : Inserts(d)' => ~Analysed(call[d].attempt)'
    BY <1>2, <1>4, <1>t DEF OneRow, Inserts
  <1>11. \A d \in Callers : call'[d].pc = "refused" => Analysed(call[d].attempt)'
    BY <1>2, <1>4, <1>t DEF OneRow
  <1>12. QED
    BY <1>3, <1>7, <1>8, <1>9, <1>10, <1>11 DEF Safe, OneRow

\* A commit turns the insertion of a call into the row it stands for.
LEMMA ConcludeSafe == ASSUME Safe, NEW c \in Callers, Conclude(c) PROVE Safe'
  <1>t. /\ TypeOK /\ OneRow /\ call \in [Callers -> Call] /\ stored \subseteq Row /\ faults \in Nat
        /\ attempt \in [Attempts -> Failed \cup {"RUNNING", "SUCCEEDED"}]
    BY Types DEF Safe
  <1> DEFINE own == [attempt |-> call[c].attempt, status |-> Status(call[c].answer), by |-> c]
             recorded == call[c].answer \in Recorded
  <1>1. /\ call[c].pc = "answered" /\ UNCHANGED <<attempt, faults>>
        /\ stored' = IF recorded THEN stored \cup {own} ELSE stored
        /\ call' = [call EXCEPT ![c].pc = IF recorded THEN "stored" ELSE "raised"]
    BY DEF Conclude
  <1>2. /\ call'[c].attempt = call[c].attempt /\ \A d \in Callers : d # c => call'[d] = call[d]
        /\ call'[c].pc \in {"stored", "raised"}
        /\ call' \in [Callers -> Call]
    BY <1>1, <1>t DEF Call, Pcs
  <1>3. Inserts(c) /\ call[c].attempt \in Attempts /\ ~Analysed(call[c].attempt)
    BY <1>1, <1>t DEF Inserts, OneRow
  <1>4. recorded => own \in Row
    BY <1>3 DEF Row, Recorded, Status
  <1>5. TypeOK'
    BY <1>1, <1>2, <1>4, <1>t, TypesThen
  <1>6. /\ \A a : Analysed(a) => Analysed(a)'
        /\ \A a : Analysed(a)' => Analysed(a) \/ a = call[c].attempt
    BY <1>1 DEF Analysed
  <1>7. \A d \in Callers : call'[d].pc # "idle" => call'[d].attempt \in Attempts
    BY <1>2, <1>3, <1>t DEF OneRow
  <1>8. \A r, q \in stored' : r.attempt = q.attempt => r = q
    <2>1. \A r \in stored : r.attempt # own.attempt
      BY <1>3 DEF Analysed
    <2>2. QED
      BY <1>1, <1>t, <2>1 DEF OneRow
  <1>9. \A b, d \in Callers : Inserts(b)' /\ Inserts(d)' /\ call'[b].attempt = call'[d].attempt => b = d
    BY <1>2, <1>t DEF OneRow, Inserts
  <1>10. \A d \in Callers : Inserts(d)' => ~Analysed(call[d].attempt)'
    <2> SUFFICES ASSUME NEW d \in Callers, Inserts(d)' PROVE ~Analysed(call[d].attempt)'
      OBVIOUS
    <2>1. d # c /\ call'[d] = call[d] /\ Inserts(d)
      BY <1>2 DEF Inserts
    <2>2. ~Analysed(call[d].attempt) /\ call[d].attempt # call[c].attempt
      BY <1>3, <1>t, <2>1 DEF OneRow
    <2>3. QED
      BY <1>6, <2>1, <2>2
  <1>11. \A d \in Callers : call'[d].pc = "refused" => Analysed(call[d].attempt)'
    BY <1>2, <1>6, <1>t DEF OneRow
  <1>12. QED
    BY <1>5, <1>7, <1>8, <1>9, <1>10, <1>11 DEF Safe, OneRow

LEMMA SafeStep == Safe /\ [Next]_vars => Safe'
  <1> SUFFICES ASSUME Safe, [Next]_vars PROVE Safe'
    OBVIOUS
  <1>t. /\ TypeOK /\ OneRow /\ call \in [Callers -> Call] /\ stored \subseteq Row /\ faults \in Nat
        /\ attempt \in [Attempts -> Failed \cup {"RUNNING", "SUCCEEDED"}]
        /\ \A c \in Callers : call[c].pc # "idle" => call[c].attempt \in Attempts
    BY Types DEF Safe, OneRow
  <1>c. Attempts \subseteq Callers /\ Triggers \subseteq Callers
    BY DEF Callers
  <1>q. TypeOK' /\ Quiet => Safe'
    BY <1>t, QuietKeeps DEF Safe
  <1>1. ASSUME NEW a \in Attempts, Complete(a) PROVE Safe'
    <2>1. /\ attempt' \in [Attempts -> Failed \cup {"RUNNING", "SUCCEEDED"}]
          /\ UNCHANGED <<stored, faults>>
          /\ \/ call' = call
             \/ call' = [call EXCEPT ![a] = [pc |-> "reported", attempt |-> a, answer |-> "none"]]
      BY <1>1, <1>t DEF Complete
    <2>2. call' \in [Callers -> Call]
      BY <1>c, <1>t, <2>1 DEF Call, Pcs, Outcomes
    <2>3. Quiet
      BY <1>c, <1>t, <2>1 DEF Quiet, Inserts
    <2>4. QED
      BY <1>q, <1>t, <2>1, <2>2, <2>3, TypesThen
  <1>2. ASSUME NEW a \in Attempts, Reap(a) PROVE Safe'
    <2>1. /\ attempt' \in [Attempts -> Failed \cup {"RUNNING", "SUCCEEDED"}]
          /\ UNCHANGED <<stored, call, faults>>
      BY <1>2, <1>t DEF Reap, Failed
    <2>2. Quiet
      BY <1>t, <2>1 DEF Quiet, Inserts
    <2>3. QED
      BY <1>q, <1>t, <2>1, <2>2, TypesThen
  <1>3. ASSUME NEW c \in Callers, NEW a \in Attempts, Begin(c, a), UNCHANGED <<attempt, stored, faults>>
        PROVE Safe'
    <2>1. Quiet
      BY <1>3, <1>t, BeginIs DEF Quiet, Inserts
    <2>2. QED
      BY <1>3, <1>q, <1>t, <2>1, BeginIs, TypesThen
  <1>4. ASSUME NEW c \in Callers, Answer(c) PROVE Safe'
    <2>1. /\ UNCHANGED <<attempt, stored, faults>> /\ call[c].pc = "inserted"
          /\ \E answer \in Outcomes : call' = [call EXCEPT ![c].pc = "answered", ![c].answer = answer]
      BY <1>4, AnswersAre DEF Answer
    <2>2. PICK answer \in Outcomes : call' = [call EXCEPT ![c].pc = "answered", ![c].answer = answer]
      BY <2>1
    <2>3. /\ call' \in [Callers -> Call] /\ call'[c].pc = "answered" /\ call'[c].attempt = call[c].attempt
          /\ \A d \in Callers : d # c => call'[d] = call[d]
      BY <1>t, <2>2 DEF Call, Pcs
    <2>4. Quiet
      BY <1>t, <2>1, <2>3 DEF Quiet, Inserts
    <2>5. QED
      BY <1>q, <1>t, <2>1, <2>3, <2>4, TypesThen
  <1>5. CASE ServerCrash
    <2>1. /\ faults' \in Nat /\ UNCHANGED <<attempt, stored>>
          /\ call' = [c \in Callers |-> IF call[c].pc \in InServer
                                        THEN [call[c] EXCEPT !.pc = "lost"] ELSE call[c]]
      BY <1>5, <1>t DEF ServerCrash
    <2>2. \A c \in Callers : /\ call'[c] \in Call /\ call'[c].attempt = call[c].attempt
                             /\ call'[c].pc = call[c].pc \/ (call'[c].pc = "lost" /\ call[c].pc # "idle")
      BY <1>t, <2>1 DEF Call, Pcs, InServer
    <2>3. call' \in [Callers -> Call]
      BY <2>1, <2>2
    <2>4. Quiet
      BY <1>t, <2>1, <2>2 DEF Quiet, Inserts
    <2>5. QED
      BY <1>q, <1>t, <2>1, <2>3, <2>4, TypesThen
  <1>6. CASE UNCHANGED vars
    <2>1. Quiet
      BY <1>6, <1>t DEF Quiet, Inserts, vars
    <2>2. QED
      BY <1>6, <1>q, <1>t, <2>1, TypesThen DEF vars
  <1>7. ASSUME NEW a \in Attempts, Schedule(a) \/ PublishFails(a) PROVE Safe'
    <2>1. /\ UNCHANGED <<attempt, stored>> /\ faults' \in Nat /\ call[a].pc = "reported"
          /\ \E pc \in {"scheduled", "unscheduled"} : call' = [call EXCEPT ![a].pc = pc]
      BY <1>7, <1>t DEF Schedule, PublishFails
    <2>2. /\ call' \in [Callers -> Call] /\ call'[a].pc \in {"scheduled", "unscheduled"}
          /\ call'[a].attempt = call[a].attempt
          /\ \A d \in Callers : d # a => call'[d] = call[d]
      BY <1>c, <1>t, <2>1 DEF Call, Pcs
    <2>3. Quiet
      BY <1>t, <2>1, <2>2 DEF Quiet, Inserts
    <2>4. QED
      BY <1>q, <1>t, <2>1, <2>2, <2>3, TypesThen
  <1>8. QED
    BY <1>1, <1>2, <1>3, <1>4, <1>5, <1>6, <1>7, <1>c, InsertSafe, ConcludeSafe DEF Next, Proceed, StartTask, Trigger

\* A set whose members are all the same has one of them at most.
LEMMA OneAtMost ==
    ASSUME NEW S, \A x, y \in S : x = y
    PROVE  Cardinality(S) \in Nat /\ Cardinality(S) <= 1 /\ (S = {} => Cardinality(S) = 0)
  <1>1. CASE S = {}
    BY <1>1, FS_EmptySet
  <1>2. CASE S # {}
    <2>1. PICK x \in S : TRUE
      BY <1>2
    <2>2. S = {x}
      BY <2>1
    <2>3. Cardinality(S) = 1
      BY <2>2, FS_Singleton
    <2>4. QED
      BY <1>2, <2>3
  <1>3. QED
    BY <1>1, <1>2

\* Types, for any attempts and calls.
THEOREM TypeCorrect == Spec => []TypeOK
  <1>1. Safe => TypeOK
    BY DEF Safe
  <1>2. QED
    BY <1>1, SafeInit, SafeStep, PTL DEF Spec

\* However many calls of analyze_attempt interleave, at any step: an attempt has one
\* analysis at most, and who is refused the row finds one that is committed.
THEOREM AnalysesAreUnique == Spec => []OneAnalysisPerAttempt
  <1>1. OneRow => OneAnalysisPerAttempt
    <2> SUFFICES ASSUME OneRow, NEW a \in Attempts
                 PROVE  Cardinality({row \in stored : row.attempt = a}) + Cardinality(Inserting(a)) <= 1
      BY DEF OneRow, OneAnalysisPerAttempt
    <2> DEFINE rows == {row \in stored : row.attempt = a}
    <2>1. \A r, q \in rows : r = q
      BY DEF OneRow
    <2>2. \A c, d \in Inserting(a) : c = d
      BY DEF OneRow, Inserting, Inserts
    <2>3. rows = {} \/ Inserting(a) = {}
      BY DEF OneRow, Inserting, Inserts, Analysed
    <2>4. Cardinality(rows) \in Nat /\ Cardinality(rows) <= 1 /\ (rows = {} => Cardinality(rows) = 0)
      BY <2>1, OneAtMost
    <2>5. /\ Cardinality(Inserting(a)) \in Nat /\ Cardinality(Inserting(a)) <= 1
          /\ Inserting(a) = {} => Cardinality(Inserting(a)) = 0
      BY <2>2, OneAtMost
    <2> HIDE DEF rows
    <2>6. Cardinality(rows) + Cardinality(Inserting(a)) <= 1
      BY <2>3, <2>4, <2>5
    <2>7. QED
      BY <2>6 DEF rows
  <1>2. Safe => OneAnalysisPerAttempt
    BY <1>1 DEF Safe
  <1>3. QED
    BY <1>2, SafeInit, SafeStep, PTL DEF Spec
=============================================================================
