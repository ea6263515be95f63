------------------------------ MODULE Analyzer ------------------------------
(***************************************************************************)
(* The AI failure analyzer: analyze_attempt (ai/analyzer.py) as the server *)
(* calls it, from the background task that complete leaves behind          *)
(* (_run_analysis in api/attempts.py) and from the dashboard's button      *)
(* (trigger_analysis in api/jobs.py).                                      *)
(*                                                                         *)
(* A call reads whether an analysis exists, inserts its row without        *)
(* committing it, waits for the provider and commits or raises; calls for  *)
(* the same attempt interleave between those steps.  attempt_id is unique: *)
(* Postgres makes an INSERT wait for another transaction's uncommitted row *)
(* and then refuses it, or lets it pass if that transaction rolled back.   *)
(* Prompt and log excerpt are left out.                                    *)
(* A definition marked (slip) is a wrong version of the one after it.      *)
(***************************************************************************)
EXTENDS Naturals, FiniteSets

CONSTANTS
    Attempts,   \* attempts that run
    Triggers,   \* bound: presses of the dashboard's button
    Provider,   \* settings.ai_provider, or a provider without its API key
    MaxFaults   \* bound: crashes of the server and reports that fail after the commit

ASSUME CallersAssumption == Attempts \cap Triggers = {} /\ MaxFaults \in Nat
ASSUME ProviderAssumption == Provider \in {"mock", "anthropic", "unconfigured"}

VARIABLES
    attempt,   \* attempt[a]: its status
    stored,    \* rows of table ai_analyses, with the call that wrote each
    call,      \* call[a]: a's background task; call[t]: the request of trigger t
    faults

vars == <<attempt, stored, call, faults>>

Callers == Attempts \cup Triggers
NoAttempt == "no attempt"
NoCall == [pc |-> "idle", attempt |-> NoAttempt, answer |-> "none"]
Failed == {"FAILED", "INFRA_ERROR"}
Analysed(a) == \E row \in stored : row.attempt = a

-----------------------------------------------------------------------------
(* The providers, and _parse_and_validate.                                  *)

\* A field of FailureAnalysisResult is absent, or its value is within its literals,
\* its lengths, its range, or is not.
Fields == {"failure_category", "root_cause", "explanation", "suggested_fix", "confidence"}
Objects == [Fields -> {"missing", "outside", "fits"}]
Analysis(object) == \A f \in Fields : object[f] = "fits"

\* A model's text: bare, in a fence alone (with or without "json"), or with anything
\* else around; what it holds is a JSON object, other JSON, or neither.
Texts == [wrapped : {"bare", "fenced", "annotated"}, json : {"object", "other", "none"}, object : Objects]

\* MockProvider.analyze dumps an object of its own, whichever rule the log matches.
MockTexts == {t \in Texts : t.wrapped = "bare" /\ t.json = "object" /\ Analysis(t.object)}

\* A fence is taken off, and nothing but a fence.
Cleaned(text) == IF text.wrapped = "fenced" THEN [text EXCEPT !.wrapped = "bare"] ELSE text

\* A JSONDecodeError or a ValidationError is "malformed"; other JSON than an object
\* is a TypeError, which is neither.
ParseAndValidate(text) ==
    LET t == Cleaned(text) IN
    CASE t.wrapped # "bare" \/ t.json = "none" -> "malformed"
      [] t.wrapped = "bare" /\ t.json = "other" -> "notObject"
      [] t.wrapped = "bare" /\ t.json = "object" -> IF Analysis(t.object) THEN "valid" ELSE "malformed"

\* AnthropicProvider.analyze: every exception of the client, its timeout's included, and
\* a response without a text block become an LLMProviderError.
AnthropicAnswers == {ParseAndValidate(t) : t \in Texts} \cup {"error"}

\* get_provider: so do an unknown provider and a missing key.
Answers == CASE Provider = "mock" -> {ParseAndValidate(t) : t \in MockTexts}
             [] Provider = "anthropic" -> AnthropicAnswers
             [] Provider = "unconfigured" -> {"error"}

-----------------------------------------------------------------------------
Init == /\ attempt = [a \in Attempts |-> "RUNNING"]
        /\ stored = {}
        /\ call = [c \in Callers |-> NoCall]
        /\ faults = 0

\* A report is accepted: the verdict is committed.
Complete(a) ==
    /\ attempt[a] = "RUNNING"
    /\ \E v \in Failed \cup {"SUCCEEDED"} :
          /\ attempt' = [attempt EXCEPT ![a] = v]
          /\ call' = IF v \in Failed
                     THEN [call EXCEPT ![a] = [pc |-> "reported", attempt |-> a, answer |-> "none"]]
                     ELSE call
    /\ UNCHANGED <<stored, faults>>

\* The rest of complete: publish_status, the task of a failed attempt, the response.
Schedule(a) ==
    /\ call[a].pc = "reported"
    /\ call' = [call EXCEPT ![a].pc = "scheduled"]
    /\ UNCHANGED <<attempt, stored, faults>>

\* The row is not refreshed or Redis refuses the publication: the exception leaves
\* complete before add_task.
PublishFails(a) ==
    /\ call[a].pc = "reported"
    /\ faults < MaxFaults /\ faults' = faults + 1
    /\ call' = [call EXCEPT ![a].pc = "unscheduled"]
    /\ UNCHANGED <<attempt, stored>>

\* The reaper ends the attempt.
Reap(a) ==
    /\ attempt[a] = "RUNNING"
    /\ attempt' = [attempt EXCEPT ![a] = "INFRA_ERROR"]
    /\ UNCHANGED <<stored, call, faults>>

-----------------------------------------------------------------------------
(* analyze_attempt.                                                         *)

\* attempt.ai_analysis is read: an analysis that exists is the result.  (An attempt that
\* has ended stays so: reading it and reading its analysis are one action.)
Begin(c, a) ==
    call' = [call EXCEPT ![c] = [pc |-> IF Analysed(a) THEN "existing" ELSE "new",
                                 attempt |-> a, answer |-> "none"]]

StartTask(a) ==
    /\ call[a].pc = "scheduled"
    /\ Begin(a, a)
    /\ UNCHANGED <<attempt, stored, faults>>

\* An attempt that has not failed is refused.
Trigger(t, a) ==
    /\ call[t].pc = "idle"
    /\ attempt[a] \in Failed
    /\ Begin(t, a)
    /\ UNCHANGED <<attempt, stored, faults>>

Inserting(a) == {c \in Callers : call[c].attempt = a /\ call[c].pc \in {"inserted", "answered"}}

\* (slip) no unique constraint on attempt_id
InsertAnother(c) ==
    /\ call[c].pc = "new"
    /\ call' = [call EXCEPT ![c].pc = "inserted"]
    /\ UNCHANGED <<attempt, stored, faults>>
\* db.flush(): IntegrityError, which nobody handles, if there is a row by now.
Insert(c) ==
    LET a == call[c].attempt IN
    /\ call[c].pc = "new"
    /\ Inserting(a) = {}
    /\ call' = [call EXCEPT ![c].pc = IF Analysed(a) THEN "refused" ELSE "inserted"]
    /\ UNCHANGED <<attempt, stored, faults>>

\* get_provider and provider.analyze, which has a timeout.
Answer(c) ==
    /\ call[c].pc = "inserted"
    /\ \E answer \in Answers : call' = [call EXCEPT ![c].pc = "answered", ![c].answer = answer]
    /\ UNCHANGED <<attempt, stored, faults>>

\* (slip) the status stays what it was at the insertion
StatusLeft(answer) == CASE answer = "valid" -> "completed" [] answer = "malformed" -> "invalid"
                        [] answer = "error" -> "pending"
Status(answer) == CASE answer = "valid" -> "completed" [] answer = "malformed" -> "invalid"
                    [] answer = "error" -> "unavailable"
Recorded == {"valid", "malformed", "error"}

\* (slip) the session is not closed when the call raises
ConcludeOnly(c) ==
    /\ call[c].pc = "answered"
    /\ call[c].answer \in Recorded
    /\ stored' = stored \cup {[attempt |-> call[c].attempt, status |-> Status(call[c].answer), by |-> c]}
    /\ call' = [call EXCEPT ![c].pc = "stored"]
    /\ UNCHANGED <<attempt, faults>>
\* (slip) the row of an unavailable provider is not committed
ConcludeUncommitted(c) ==
    /\ call[c].pc = "answered"
    /\ stored' = IF call[c].answer \in {"valid", "malformed"}
                 THEN stored \cup {[attempt |-> call[c].attempt, status |-> Status(call[c].answer), by |-> c]}
                 ELSE stored
    /\ call' = [call EXCEPT ![c].pc = IF call[c].answer = "notObject" THEN "raised" ELSE "stored"]
    /\ UNCHANGED <<attempt, faults>>
\* The commit.  JSON that is not an object makes FailureAnalysisResult(**data) raise
\* a TypeError, which is not among the errors handled: the row is rolled back.
Conclude(c) ==
    LET recorded == call[c].answer \in Recorded IN
    /\ call[c].pc = "answered"
    /\ stored' = IF recorded
                 THEN stored \cup {[attempt |-> call[c].attempt, status |-> Status(call[c].answer), by |-> c]}
                 ELSE stored
    /\ call' = [call EXCEPT ![c].pc = IF recorded THEN "stored" ELSE "raised"]
    /\ UNCHANGED <<attempt, faults>>

\* The server dies: the calls in it are gone, scheduled tasks too.
InServer == {"reported", "scheduled", "new", "inserted", "answered"}
ServerCrash ==
    /\ faults < MaxFaults
    /\ faults' = faults + 1
    /\ \E c \in Callers : call[c].pc \in InServer
    /\ call' = [c \in Callers |-> IF call[c].pc \in InServer
                                  THEN [call[c] EXCEPT !.pc = "lost"] ELSE call[c]]
    /\ UNCHANGED <<attempt, stored>>

Proceed(c) == Insert(c) \/ Answer(c) \/ Conclude(c)
Next == \/ \E a \in Attempts : Complete(a) \/ Schedule(a) \/ PublishFails(a) \/ Reap(a) \/ StartTask(a)
        \/ \E t \in Triggers, a \in Attempts : Trigger(t, a)
        \/ \E c \in Callers : Proceed(c)
        \/ ServerCrash

Spec == Init /\ [][Next]_vars

\* A report in the server is answered, tasks are run once the response is sent, and
\* calls that can go on do.  Nobody has to press the button.
FairSpec == /\ Spec
            /\ \A a \in Attempts : WF_vars(Schedule(a)) /\ WF_vars(StartTask(a))
            /\ \A c \in Callers : WF_vars(Proceed(c))

-----------------------------------------------------------------------------
(***************************************************************************)
(* Properties                                                              *)
(***************************************************************************)
TypeOK ==
    /\ attempt \in [Attempts -> Failed \cup {"RUNNING", "SUCCEEDED"}]
    /\ stored \subseteq [attempt : Attempts, status : {"completed", "invalid", "unavailable"}, by : Callers]
    /\ call \in [Callers -> [pc : {"idle", "reported", "scheduled", "unscheduled", "existing", "new", "inserted",
                                   "answered", "stored", "refused", "raised", "lost"},
                             attempt : Attempts \cup {NoAttempt},
                             answer : {"none", "valid", "malformed", "notObject", "error"}]]
    /\ faults \in Nat

\* However the background task and any number of presses of the button interleave,
\* an attempt never gets a second analysis, nor two on the way at the same time; and a
\* call that lost the race for the row (IntegrityError) lost it to an analysis that is
\* there to be read.
OneAnalysisPerAttempt ==
    /\ \A a \in Attempts : Cardinality({row \in stored : row.attempt = a}) + Cardinality(Inserting(a)) <= 1
    /\ \A c \in Callers : call[c].pc = "refused" => Analysed(call[c].attempt)

\* A call that has found no analysis comes to an end, also when another one holds the
\* row for as long as its provider takes, and when that one raises.
CallsEnd == \A c \in Callers : call[c].pc = "new" ~> call[c].pc \in {"stored", "refused", "raised", "lost"}

\* Every failure that a worker reports gets its analysis from the commit of its verdict
\* on, by the task or by a trigger that overtook it, if only to say that the provider is
\* not available; unless complete failed after that commit (publish_status raises when
\* Redis is gone), a call for it raised past every handler or the server died with it.
ReportedFailureIsAnalysed ==
    \A a \in Attempts : call[a].pc = "reported" ~>
        \/ Analysed(a)
        \/ \E c \in Callers : call[c].attempt = a /\ call[c].pc \in {"unscheduled", "raised", "lost"}

-----------------------------------------------------------------------------
(* Why OneAnalysisPerAttempt holds.                                         *)

Inserts(c) == call[c].pc \in {"inserted", "answered"}

\* One row of an attempt, committed or on its way; a call that was refused found one
\* that is committed.
OneRow ==
    /\ \A c \in Callers : call[c].pc # "idle" => call[c].attempt \in Attempts
    /\ \A r, q \in stored : r.attempt = q.attempt => r = q
    /\ \A c, d \in Callers :
          Inserts(c) /\ Inserts(d) /\ call[c].attempt = call[d].attempt => c = d
    /\ \A c \in Callers : Inserts(c) => ~Analysed(call[c].attempt)
    /\ \A c \in Callers : call[c].pc = "refused" => Analysed(call[c].attempt)

-----------------------------------------------------------------------------
(* What the documents say and the code does not keep.                       *)

\* analyzer.py:48-50: "Always returns an AIAnalysis row (creating one if needed) - it
\* degrades to status="unavailable"/"invalid" rather than raising".
NeverRaises == \A c \in Callers : call[c].pc \notin {"refused", "raised"}

\* README.md:84-87: "Anything that isn't valid JSON matching the schema is stored as
\* status=invalid".
BadAnswerIsStored ==
    \A c \in Callers : call[c].answer \in {"malformed", "notObject"} /\ call[c].pc \in {"stored", "raised"} =>
        \E row \in stored : row.by = c /\ row.status = "invalid"

\* README.md:74-88: "When an attempt finishes as failed or infra_error, the server
\* [...] Stores the result against the specific JobAttempt".
EveryFailureIsAnalysed == \A a \in Attempts : attempt[a] \in Failed ~> Analysed(a)

\* api/jobs.py:79-82: "Manually (re)trigger AI analysis for a failed attempt [...] lets
\* the dashboard offer a 're-analyze' button".
RetriggerAsksAgain ==
    [][\A t \in Triggers, a \in Attempts : Trigger(t, a) => call'[t].pc = "new"]_vars
=============================================================================
