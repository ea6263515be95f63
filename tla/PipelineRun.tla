---------------------------- MODULE PipelineRun ----------------------------
(***************************************************************************)
(* What run_pipeline promises its caller: the steps end one by one, the    *)
(* run ends at the first failure that is not allowed, and its result says  *)
(* which step that was and whether a retry may help.  Containers, streams, *)
(* threads and the clock are Executor's, which implements this.            *)
(***************************************************************************)
EXTENDS Naturals, Sequences

CONSTANTS
    MaxSteps,  \* bound: steps in a pipeline
    Code       \* the exit codes there are

VARIABLES
    pipeline,  \* its number of steps, and those with allow_failure
    codes,     \* the exit codes of the steps that have ended
    result     \* the ExecutionResult, or how the call ended without one

vars == <<pipeline, codes, result>>

Init == /\ pipeline \in {[n |-> n, allow |-> allow] : n \in 1..MaxSteps, allow \in SUBSET (1..MaxSteps)}
        /\ codes = << >>
        /\ result = [kind |-> "none", code |-> 0, failed |-> 0, permanent |-> FALSE]

Current == Len(codes) + 1
Runs == result.kind = "none"
Ends(code, failed, permanent) ==
    result' = [kind |-> "result", code |-> code, failed |-> failed, permanent |-> permanent]

\* The next step ends: with a failure that is not allowed the run is over, for good.
StepEnds(code) ==
    /\ Runs /\ Current <= pipeline.n
    /\ codes' = Append(codes, code)
    /\ IF code = 0 \/ Current \in pipeline.allow THEN UNCHANGED result ELSE Ends(code, Current, TRUE)
    /\ UNCHANGED pipeline

Succeed == Runs /\ Current > pipeline.n /\ Ends(0, 0, FALSE) /\ UNCHANGED <<pipeline, codes>>

\* No image, no container, no checkout, or no time left for the next step: the run may
\* be tried again.
GiveUp(code) ==
    /\ Runs /\ code # 0
    /\ \/ codes = << >> /\ Ends(code, 0, FALSE)
       \/ Current <= pipeline.n /\ Ends(code, Current, FALSE)
    /\ UNCHANGED <<pipeline, codes>>

\* An exception leaves run_pipeline, also while it cleans up, or the process dies.
Raise == result' = [kind |-> "raised", code |-> 0, failed |-> 0, permanent |-> FALSE]
         /\ UNCHANGED <<pipeline, codes>>

Next == (\E code \in Code : StepEnds(code) \/ GiveUp(code)) \/ Succeed \/ Raise

Spec == Init /\ [][Next]_vars
=============================================================================
