--------------------------- MODULE ExecutorProofs ---------------------------
(***************************************************************************)
(* Proofs about module Executor, for pipelines of any length and any       *)
(* faults.  Every step of the executor that ends a step of the pipeline    *)
(* goes through StepEnds, so what StepEnds does is stated once; then come  *)
(* the parts of the invariant, one after the other, and at last that the   *)
(* executor implements PipelineRun.                                        *)
(***************************************************************************)
EXTENDS Executor, TLAPS

Pcs == {"pull", "start", "next", "exec", "reading", "inspect", "kill", "remove", "done"}
InExec == pc \in {"exec", "reading", "inspect"}
ResultType == [kind : {"none", "result", "raised"}, code : Code, failed : Step, permanent : BOOLEAN]
ProcType == [Step -> {"none", "running", "ok", "failed", "killed"}]

\* The type invariant in the words of this module, without the log of faults.
LEMMA Types ==
    TypeOK <=> /\ pipeline \in Pipelines /\ pc \in Pcs /\ step \in 0..(MaxSteps + 1) /\ proc \in ProcType
               /\ container \in {"none", "created", "running", "exited", "removed"}
               /\ eos \in BOOLEAN /\ clock \in {"before", "late", "over"}
               /\ results \in Seq(Code) /\ Len(results) <= MaxSteps
               /\ result \in ResultType /\ faults \in Seq(Faults)
  BY DEF TypeOK, Pcs, ProcType, ResultType
LEMMA TypesThen ==
    TypeOK' <=> /\ pipeline' \in Pipelines /\ pc' \in Pcs /\ step' \in 0..(MaxSteps + 1) /\ proc' \in ProcType
                /\ container' \in {"none", "created", "running", "exited", "removed"}
                /\ eos' \in BOOLEAN /\ clock' \in {"before", "late", "over"}
                /\ results' \in Seq(Code) /\ Len(results') <= MaxSteps
                /\ result' \in ResultType /\ faults' \in Seq(Faults)
  BY DEF TypeOK, Pcs, ProcType, ResultType

LEMMA PipelineIs ==
    ASSUME pipeline \in Pipelines
    PROVE  pipeline.n \in 1..MaxSteps /\ pipeline.allow \subseteq 1..MaxSteps /\ MaxSteps \in Nat
  <1>1. PICK n \in 1..MaxSteps, allow \in SUBSET (1..MaxSteps) : pipeline = [n |-> n, allow |-> allow]
    BY DEF Pipelines
  <1>2. pipeline.n = n /\ pipeline.allow = allow
    BY <1>1
  <1>3. QED
    BY <1>2, StepsAssumption

\* The results there are.
LEMMA ResultIs ==
    \A code \in Code, failed \in Step, permanent \in BOOLEAN :
        /\ Returned(code, failed, permanent) \in ResultType
        /\ Returned(code, failed, permanent).kind = "result"
        /\ Returned(code, failed, permanent).code = code
        /\ Returned(code, failed, permanent).failed = failed
        /\ Returned(code, failed, permanent).permanent = permanent
  BY DEF Returned, ResultType

LEMMA RetryableIs ==
    \A code \in Code, failed \in Step :
        /\ Returned(code, failed, FALSE) \in ResultType
        /\ Returned(code, failed, FALSE).kind = "result"
        /\ Returned(code, failed, FALSE).code = code
        /\ Returned(code, failed, FALSE).permanent = FALSE
  BY DEF Returned, ResultType

LEMMA NoResultIs ==
    /\ NoResult \in ResultType /\ NoResult.kind = "none"
    /\ Raised \in ResultType /\ Raised.kind = "raised"
    /\ 0 \in Step /\ 0 \in Code /\ 1 \in Code /\ 124 \in Code
  <1>1. 0 \in Step /\ 0 \in Code /\ 1 \in Code /\ 124 \in Code
    BY StepsAssumption DEF Code, Step
  <1>2. NoResult \in ResultType /\ NoResult.kind = "none"
    BY <1>1 DEF NoResult, ResultType
  <1>3. Raised \in ResultType /\ Raised.kind = "raised"
    BY <1>1 DEF Raised, ResultType
  <1>4. QED
    BY <1>1, <1>2, <1>3

\* A fault is added to the log of faults, and the log never forgets one.
LEMMA FaultIs ==
    ASSUME NEW kind, faults \in Seq(Faults), Fault(kind)
    PROVE  /\ faults' \in Seq(Faults)
           /\ faults' # << >>
           /\ Happened(kind)'
           /\ \A k : Happened(k) => Happened(k)'
  <1>1. /\ kind \in Faults /\ faults' = Append(faults, kind)
        /\ Len(faults) \in Nat /\ Len(faults') = Len(faults) + 1
        /\ faults' \in Seq(Faults) /\ faults'[Len(faults) + 1] = kind
        /\ \A i \in 1..Len(faults) : faults'[i] = faults[i]
    BY DEF Fault
  <1>2. Happened(kind)'
    BY <1>1 DEF Happened
  <1>3. \A k : Happened(k) => Happened(k)'
    BY <1>1 DEF Happened
  <1>4. QED
    BY <1>1, <1>2, <1>3

-----------------------------------------------------------------------------
(***************************************************************************)
(* The end of a step                                                       *)
(***************************************************************************)
Shape == TypeOK /\ InPlace

\* Either the run goes on with the next step, or it stops at this one.
LEMMA StepEndsIs ==
    ASSUME Shape, InExec, NEW code \in Code, StepEnds(code)
    PROVE  /\ step \in 0..pipeline.n /\ step \in Step
           /\ results' \in Seq(Code) /\ Len(results') = step
           /\ results' = IF step = 0 THEN results ELSE Append(results, code)
           /\ \/ /\ code = 0 \/ step \in pipeline.allow
                 /\ pc' = "next" /\ step' = step + 1 /\ result' = result
              \/ /\ code # 0 /\ step \notin pipeline.allow
                 /\ pc' = "kill" /\ step' = step
                 /\ result' = Returned(code, step, step # 0)
                 /\ result' \in ResultType /\ result'.kind = "result"
                 /\ result'.code = code /\ result'.permanent = (step # 0)
  <1>1. /\ pipeline.n \in 1..MaxSteps /\ MaxSteps \in Nat /\ step \in 0..(MaxSteps + 1)
        /\ step <= pipeline.n /\ results \in Seq(Code)
        /\ Len(results) = IF step = 0 THEN 0 ELSE step - 1
    BY PipelineIs DEF Shape, TypeOK, InPlace, InExec
  <1>2. step \in 0..pipeline.n /\ step \in Step
    BY <1>1 DEF Step
  <1>3. results' = IF step = 0 THEN results ELSE Append(results, code)
    BY DEF StepEnds
  <1>4. results' \in Seq(Code) /\ Len(results') = step
    BY <1>1, <1>3
  <1>5. CASE code # 0 /\ step \notin pipeline.allow
    <2>1. pc' = "kill" /\ step' = step /\ result' = Returned(code, step, step # 0)
      BY <1>5 DEF StepEnds, Finally
    <2>2. QED
      BY <1>2, <1>3, <1>4, <1>5, <2>1, ResultIs
  <1>6. CASE code = 0 \/ step \in pipeline.allow
    <2>1. pc' = "next" /\ step' = step + 1 /\ result' = result
      BY <1>6 DEF StepEnds
    <2>2. QED
      BY <1>2, <1>3, <1>4, <1>6, <2>1
  <1>7. QED
    BY <1>5, <1>6

LEMMA StepEndsInPlace ==
    ASSUME Shape, InExec, NEW code \in Code, StepEnds(code), UNCHANGED pipeline
    PROVE  /\ pc' \in Pcs /\ step' \in 0..(MaxSteps + 1)
           /\ results' \in Seq(Code) /\ Len(results') <= MaxSteps /\ result' \in ResultType
           /\ InPlace'
  <1>1. /\ step \in 0..pipeline.n /\ results' \in Seq(Code) /\ Len(results') = step
        /\ \/ pc' = "next" /\ step' = step + 1 /\ result' = result
           \/ pc' = "kill" /\ step' = step /\ result' \in ResultType /\ result'.kind = "result"
    BY StepEndsIs
  <1>2. /\ pipeline.n \in 1..MaxSteps /\ MaxSteps \in Nat /\ result \in ResultType
        /\ pipeline.allow \subseteq 1..pipeline.n /\ result.kind = "none"
    BY PipelineIs, Types DEF Shape, TypeOK, InPlace, InExec
  <1>3. InPlace'
    BY <1>1, <1>2 DEF InPlace
  <1>4. QED
    BY <1>1, <1>2, <1>3 DEF Pcs

\* The code of a step that has ended is one of the codes there are.
LEMMA ExitCodeIs ==
    ASSUME TypeOK, step \in Step
    PROVE  ExitCode \in Code /\ (ExitCode = 0 <=> proc[step] = "ok")
  <1>1. proc[step] \in {"none", "running", "ok", "failed", "killed"}
    BY DEF TypeOK
  <1>2. QED
    BY <1>1 DEF ExitCode, Code

-----------------------------------------------------------------------------
(***************************************************************************)
(* Types, and where the run is                                             *)
(***************************************************************************)
LEMMA ShapeInit == Init => Shape
  <1> SUFFICES ASSUME Init PROVE Shape
    OBVIOUS
  <1>1. pipeline \in Pipelines /\ pipeline.allow \subseteq 1..pipeline.n
    BY DEF Init
  <1>2. proc \in ProcType
    BY DEF Init, ProcType
  <1>3. TypeOK
    BY <1>1, <1>2, NoResultIs, StepsAssumption, Types DEF Init, Pcs
  <1>4. InPlace
    BY <1>1, NoResultIs, PipelineIs DEF Init, InPlace
  <1>5. QED
    BY <1>3, <1>4 DEF Shape

\* The processes of a container that stops.
LEMMA KilledIs ==
    ASSUME proc \in ProcType
    PROVE  /\ Killed \in ProcType
           /\ \A i \in Step : /\ Killed[i] # "running"
                              /\ proc[i] # "running" => Killed[i] = proc[i]
                              /\ proc[i] = "running" => Killed[i] = "killed"
  BY DEF Killed, ProcType

LEMMA ShapeStep == Shape /\ [Next]_vars => Shape'
  <1> SUFFICES ASSUME Shape, [Next]_vars PROVE Shape'
    OBVIOUS
  <1>t. /\ pipeline \in Pipelines /\ pc \in Pcs /\ step \in 0..(MaxSteps + 1) /\ proc \in ProcType
        /\ container \in {"none", "created", "running", "exited", "removed"}
        /\ eos \in BOOLEAN /\ clock \in {"before", "late", "over"}
        /\ results \in Seq(Code) /\ Len(results) <= MaxSteps
        /\ result \in ResultType /\ faults \in Seq(Faults) /\ InPlace
    BY Types DEF Shape
  <1>n. pipeline.n \in 1..MaxSteps /\ MaxSteps \in Nat
    BY <1>t, PipelineIs
  <1>1. CASE Pull
    <2>1. /\ UNCHANGED <<pipeline, proc, container, clock, step, eos, results>> /\ pc = "pull"
          /\ \/ pc' = "start" /\ result' = result /\ faults' = faults
             \/ /\ pc' = "done" /\ (result' = Returned(1, 0, FALSE) \/ result' = Raised)
                /\ Fault("docker") \/ Fault("transport")
      BY <1>1 DEF Pull, world
    <2>2. faults' \in Seq(Faults)
      BY <1>t, <2>1, FaultIs
    <2>r. Returned(1, 0, FALSE) \in ResultType /\ Returned(1, 0, FALSE).kind = "result"
      BY RetryableIs, NoResultIs
    <2>3. result' \in ResultType /\ (pc' = "done" => result'.kind # "none")
      BY <1>t, <2>1, <2>r, NoResultIs
    <2>4. QED
      BY <1>t, <1>n, <2>1, <2>2, <2>3, TypesThen DEF Shape, InPlace, Pcs
  <1>2. CASE Start
    <2>1. /\ UNCHANGED <<pipeline, proc, clock, step, eos, results>> /\ pc = "start"
          /\ container' \in {"none", "created", "running"}
          /\ \/ pc' = "exec" /\ result' = result /\ faults' = faults
             \/ /\ pc' = "done" /\ (result' = Returned(1, 0, FALSE) \/ result' = Raised)
                /\ Fault("docker") \/ Fault("transport")
      BY <1>2 DEF Start
    <2>2. faults' \in Seq(Faults)
      BY <1>t, <2>1, FaultIs
    <2>r. Returned(1, 0, FALSE) \in ResultType /\ Returned(1, 0, FALSE).kind = "result"
      BY RetryableIs, NoResultIs
    <2>3. result' \in ResultType /\ (pc' = "done" => result'.kind # "none")
      BY <1>t, <2>1, <2>r, NoResultIs
    <2>4. TypeOK'
      BY <1>t, <2>1, <2>2, <2>3, TypesThen DEF Pcs
    <2>5. InPlace'
      <3>1. /\ step = 0 /\ step' = 0 /\ results' = results /\ pipeline' = pipeline
            /\ result.kind = "none" /\ Len(results) = 0
            /\ pipeline.allow \subseteq 1..pipeline.n
        BY <1>t, <2>1 DEF InPlace
      <3>2. \/ pc' = "exec" /\ result'.kind = "none"
            \/ pc' = "done" /\ result'.kind # "none"
        BY <2>1, <2>3, <3>1
      <3>3. QED
        BY <1>n, <3>1, <3>2 DEF InPlace
    <2>6. QED
      BY <2>4, <2>5 DEF Shape
  <1>3. CASE NextStep
    <2>1. /\ UNCHANGED <<pipeline, proc, container, clock, step, eos, results, faults>> /\ pc = "next"
          /\ \/ pc' = "exec" /\ result' = result /\ step <= pipeline.n
             \/ pc' = "kill" /\ result' = Returned(0, 0, FALSE)
             \/ pc' = "kill" /\ result' = Returned(124, step, FALSE) /\ step <= pipeline.n
      BY <1>3 DEF NextStep, world, Finally
    <2>2. step <= pipeline.n => step \in Step
      BY <1>t, <1>n DEF Step
    <2>3. result' \in ResultType /\ (pc' = "kill" => result'.kind # "none")
      <3>1. Returned(0, 0, FALSE) \in ResultType /\ Returned(0, 0, FALSE).kind = "result"
        BY RetryableIs, NoResultIs
      <3>2. step <= pipeline.n => /\ Returned(124, step, FALSE) \in ResultType
                                 /\ Returned(124, step, FALSE).kind = "result"
        BY <2>2, RetryableIs, NoResultIs
      <3>3. QED
        BY <1>t, <2>1, <3>1, <3>2
    <2>4. QED
      BY <1>t, <1>n, <2>1, <2>3, TypesThen DEF Shape, InPlace, Pcs
  <1>4. CASE ExecStart
    <2>1. /\ UNCHANGED <<pipeline, container, clock>> /\ pc = "exec" /\ eos' = FALSE
          /\ proc' \in {proc, [proc EXCEPT ![step] = "running"]}
          /\ \/ pc' = "reading" /\ UNCHANGED <<step, results, result, faults>>
             \/ StepEnds(1) /\ (faults' = faults \/ Fault("docker"))
             \/ /\ Fault("transport") /\ pc' = "kill" /\ result' = Raised
                /\ UNCHANGED <<step, results>>
      BY <1>4 DEF ExecStart, Raises, Finally
    <2>2. faults' \in Seq(Faults) /\ proc' \in ProcType
      BY <1>t, <2>1, FaultIs DEF ProcType
    <2>3. CASE StepEnds(1)
      <3>1. InExec
        BY <2>1 DEF InExec
      <3>2. QED
        BY <1>t, <2>1, <2>2, <2>3, <3>1, StepEndsInPlace, NoResultIs, TypesThen DEF Shape
    <2>4. CASE pc' = "reading" /\ UNCHANGED <<step, results, result, faults>>
      BY <1>t, <1>n, <2>1, <2>2, <2>4, TypesThen DEF Shape, InPlace, Pcs
    <2>5. CASE pc' = "kill" /\ result' = Raised /\ UNCHANGED <<step, results>>
      BY <1>t, <1>n, <2>1, <2>2, <2>5, NoResultIs, TypesThen DEF Shape, InPlace, Pcs
    <2>6. QED
      BY <2>1, <2>3, <2>4, <2>5
  <1>5. CASE ReadTimesOut
    <2>1. StepEnds(124) /\ InExec /\ UNCHANGED <<pipeline, proc, container, clock, eos, faults>>
      BY <1>5 DEF ReadTimesOut, InExec, world
    <2>2. QED
      BY <1>t, <2>1, StepEndsInPlace, NoResultIs, TypesThen DEF Shape
  <1>6. CASE ReadEnds
    BY <1>6, <1>t, <1>n, TypesThen DEF ReadEnds, world, Shape, InPlace, Pcs
  <1>7. CASE ExecInspect
    <2>1. /\ InExec /\ UNCHANGED <<pipeline, proc, container, clock, eos>>
          /\ faults' = faults \/ Fault("docker") \/ Fault("transport")
          /\ \/ StepEnds(ExitCode) \/ StepEnds(1)
             \/ pc' = "kill" /\ result' = Raised /\ UNCHANGED <<step, results>>
      BY <1>7 DEF ExecInspect, InExec, world, Raises, Finally
    <2>2. faults' \in Seq(Faults)
      BY <1>t, <2>1, FaultIs
    <2>3. ASSUME NEW code \in Code, StepEnds(code) PROVE Shape'
      BY <1>t, <2>1, <2>2, <2>3, StepEndsInPlace, TypesThen DEF Shape
    <2>4. ExitCode \in Code /\ 1 \in Code
      <3>1. step \in Step
        BY <1>t, <1>n, <2>1 DEF InPlace, InExec, Step
      <3>2. QED
        BY <3>1, ExitCodeIs, NoResultIs DEF Shape
    <2>5. CASE pc' = "kill" /\ result' = Raised /\ UNCHANGED <<step, results>>
      BY <1>t, <1>n, <2>1, <2>2, <2>5, NoResultIs, TypesThen DEF Shape, InPlace, Pcs
    <2>6. QED
      BY <2>1, <2>3, <2>4, <2>5
  <1>8. CASE Kill \/ Remove
    <2>1. /\ UNCHANGED <<pipeline, clock, step, eos, results>> /\ pc \in {"kill", "remove"}
          /\ container' \in {container, "exited", "removed"} /\ proc' \in {proc, Killed}
          /\ pc' \in {"remove", "done"} /\ result' \in {result, Raised}
          /\ faults' = faults \/ Fault("docker") \/ Fault("transport")
      BY <1>8 DEF Kill, Remove
    <2>2. faults' \in Seq(Faults) /\ proc' \in ProcType
      BY <1>t, <2>1, FaultIs, KilledIs
    <2>3. QED
      BY <1>t, <1>n, <2>1, <2>2, NoResultIs, TypesThen DEF Shape, InPlace, Pcs
  <1>9. CASE WorkerDies
    <2>1. /\ UNCHANGED <<pipeline, proc, container, clock, step, eos, results>> /\ Fault("worker")
          /\ pc' = "done" /\ result' = Raised
      BY <1>9 DEF WorkerDies, world
    <2>2. faults' \in Seq(Faults)
      BY <1>t, <2>1, FaultIs
    <2>3. QED
      BY <1>t, <1>n, <2>1, <2>2, NoResultIs, TypesThen DEF Shape, InPlace, Pcs
  <1>10. CASE ReaderEnds
    <2>1. /\ UNCHANGED <<pipeline, proc, container, clock, pc, step, results, result>> /\ eos' = TRUE
          /\ faults' = faults \/ Fault("docker") \/ Fault("transport")
      BY <1>10 DEF ReaderEnds, world
    <2>2. faults' \in Seq(Faults)
      BY <1>t, <2>1, FaultIs
    <2>3. QED
      BY <1>t, <1>n, <2>1, <2>2, TypesThen DEF Shape, InPlace
  <1>11. CASE Time
    <2>1. /\ UNCHANGED <<pipeline, pc, step, eos, results, result, faults>>
          /\ clock' \in {"late", "over"} /\ container' \in {container, "exited"} /\ proc' \in {proc, Killed}
      BY <1>11 DEF Time, DeadlinePasses, SleepEnds
    <2>2. QED
      BY <1>t, <1>n, <2>1, KilledIs, TypesThen DEF Shape, InPlace
  <1>12. CASE \E i \in Step : ProcessEnds(i)
    <2>1. /\ UNCHANGED <<pipeline, pc, step, container, eos, clock, results, result, faults>>
          /\ proc' \in ProcType
      BY <1>12, <1>t DEF ProcessEnds, ProcType
    <2>2. QED
      BY <1>t, <1>n, <2>1, TypesThen DEF Shape, InPlace
  <1>13. CASE Finished \/ UNCHANGED vars
    BY <1>13, <1>t, <1>n, TypesThen DEF Finished, vars, Shape, InPlace
  <1>14. QED
    BY <1>1, <1>2, <1>3, <1>4, <1>5, <1>6, <1>7, <1>8, <1>9, <1>10, <1>11, <1>12, <1>13 DEF Next, Call

-----------------------------------------------------------------------------
(***************************************************************************)
(* What a step of anybody may change                                       *)
(***************************************************************************)
Starting == {"pull", "start", "next", "exec"}

\* Of a process: it is started by the executor, and it ends.
ProcMove(i) ==
    \/ proc'[i] = proc[i]
    \/ proc[i] = "running" /\ proc'[i] \in {"ok", "failed", "killed"}
    \/ i = step /\ pc = "exec" /\ proc'[i] = "running" /\ (pc' \in {"reading", "kill"} \/ step' = step + 1)

\* Of the step the run is at: it is left when it has passed.
StepMove ==
    \/ step' = step
    \/ /\ InExec /\ step' = step + 1 /\ pc' = "next"
       /\ step \in pipeline.allow \/ (proc[step] = "ok" /\ proc' = proc)

\* Of the result: it is given once, unless an exception replaces it.
ResultMove ==
    \/ result' = result
    \/ result'.kind = "raised"
    \/ /\ step' = step
       /\ result'.code = 0 => step > pipeline.n
       /\ result'.permanent = TRUE \/ step = 0 \/ step > pipeline.n \/ (pc = "next" /\ proc' = proc)

Move == /\ pipeline' = pipeline
        /\ \A i \in Step : ProcMove(i)
        /\ StepMove
        /\ pc' \in Starting /\ step' = step => pc \in Starting
        /\ ResultMove

LEMMA StepEndsMove ==
    ASSUME Shape, InExec, NEW code \in Code, StepEnds(code), UNCHANGED pipeline,
           code = 0 => proc[step] = "ok" /\ proc' = proc,
           \A i \in Step : proc'[i] = proc[i] \/ (i = step /\ pc = "exec" /\ proc'[i] = "running")
    PROVE  Move
  <1>1. step \in 0..pipeline.n /\ pipeline.n \in Nat /\ pipeline.n \in 1..MaxSteps
    BY StepEndsIs, PipelineIs DEF Shape, TypeOK
  <1>2. CASE /\ code = 0 \/ step \in pipeline.allow
             /\ pc' = "next" /\ step' = step + 1 /\ result' = result
    <2>1. \A i \in Step : ProcMove(i)
      BY <1>2 DEF ProcMove
    <2>2. StepMove
      BY <1>2 DEF StepMove
    <2>3. QED
      BY <1>1, <1>2, <2>1, <2>2 DEF Move, ResultMove, Starting
  <1>3. CASE /\ code # 0 /\ pc' = "kill" /\ step' = step
             /\ result'.code = code /\ result'.permanent = (step # 0)
    <2>1. \A i \in Step : ProcMove(i)
      BY <1>3 DEF ProcMove
    <2>2. ResultMove
      <3>1. step # 0 => result'.permanent = TRUE
        BY <1>3
      <3>2. QED
        BY <1>3, <3>1 DEF ResultMove
    <2>3. QED
      BY <1>3, <2>1, <2>2 DEF Move, StepMove, Starting
  <1>4. QED
    BY <1>2, <1>3, StepEndsIs

LEMMA Moves == ASSUME Shape, [Next]_vars PROVE Move
  <1>t. /\ pipeline \in Pipelines /\ pc \in Pcs /\ step \in 0..(MaxSteps + 1) /\ proc \in ProcType
        /\ InPlace /\ pipeline.n \in 1..MaxSteps /\ MaxSteps \in Nat
    BY Types, PipelineIs DEF Shape
  <1>1. CASE Pull \/ Start
    <2>1. /\ UNCHANGED <<pipeline, proc, step>> /\ pc \in Starting
          /\ \/ result' = result
             \/ result' = Returned(1, 0, FALSE)
             \/ result' = Raised
      BY <1>1 DEF Pull, Start, world, Starting
    <2>2. step = 0
      BY <1>t, <1>1 DEF Pull, Start, InPlace
    <2>3. ResultMove
      <3>1. Returned(1, 0, FALSE).code = 1 /\ Raised.kind = "raised"
        BY RetryableIs, NoResultIs
      <3>2. result' = result \/ result'.kind = "raised" \/ result'.code = 1
        BY <2>1, <3>1
      <3>3. QED
        BY <2>1, <2>2, <3>2 DEF ResultMove
    <2>4. QED
      BY <2>1, <2>3 DEF Move, StepMove, ProcMove
  <1>2. CASE NextStep
    <2>1. /\ UNCHANGED <<pipeline, proc, step>> /\ pc = "next"
          /\ \/ result' = result
             \/ result' = Returned(0, 0, FALSE) /\ step > pipeline.n
             \/ result' = Returned(124, step, FALSE) /\ step <= pipeline.n
      BY <1>2 DEF NextStep, world
    <2>2. ResultMove
      <3>1. Returned(0, 0, FALSE).code = 0 /\ Returned(0, 0, FALSE).kind = "result"
        BY RetryableIs, NoResultIs
      <3>2. step <= pipeline.n => step \in Step
        BY <1>t DEF Step
      <3>3. step <= pipeline.n => Returned(124, step, FALSE).code = 124
        BY <3>2, RetryableIs, NoResultIs
      <3>4. \/ result' = result
            \/ result'.code = 0 /\ step > pipeline.n
            \/ result'.code = 124
        BY <2>1, <3>1, <3>3
      <3>5. QED
        BY <2>1, <3>4 DEF ResultMove
    <2>3. QED
      BY <2>1, <2>2 DEF Move, StepMove, ProcMove, Starting
  <1>3. CASE ExecStart
    <2>1. /\ UNCHANGED pipeline /\ pc = "exec" /\ InExec
          /\ proc' \in {proc, [proc EXCEPT ![step] = "running"]}
          /\ \/ pc' = "reading" /\ UNCHANGED <<step, result>>
             \/ StepEnds(1)
             \/ pc' = "kill" /\ result' = Raised /\ UNCHANGED step
      BY <1>3 DEF ExecStart, Raises, Finally, InExec
    <2>2. \A i \in Step : proc'[i] = proc[i] \/ (i = step /\ pc = "exec" /\ proc'[i] = "running")
      BY <1>t, <2>1 DEF ProcType
    <2>3. CASE StepEnds(1)
      BY <2>1, <2>2, <2>3, StepEndsMove, NoResultIs
    <2>4. CASE pc' = "reading" /\ UNCHANGED <<step, result>>
      BY <2>1, <2>2, <2>4 DEF Move, StepMove, ResultMove, ProcMove, Starting
    <2>5. CASE pc' = "kill" /\ result' = Raised /\ UNCHANGED step
      BY <2>1, <2>2, <2>5, NoResultIs DEF Move, StepMove, ResultMove, ProcMove, Starting
    <2>6. QED
      BY <2>1, <2>3, <2>4, <2>5
  <1>4. CASE ReadTimesOut
    <2>1. StepEnds(124) /\ InExec /\ UNCHANGED <<pipeline, proc>>
      BY <1>4 DEF ReadTimesOut, InExec, world
    <2>2. QED
      BY <2>1, StepEndsMove, NoResultIs
  <1>5. CASE ExecInspect
    <2>1. /\ InExec /\ UNCHANGED <<pipeline, proc>>
          /\ \/ StepEnds(ExitCode) \/ StepEnds(1)
             \/ pc' = "kill" /\ result' = Raised /\ UNCHANGED step
      BY <1>5 DEF ExecInspect, InExec, world, Raises, Finally
    <2>2. step \in Step
      BY <1>t, <2>1 DEF InPlace, InExec, Step
    <2>3. CASE StepEnds(ExitCode)
      BY <2>1, <2>2, <2>3, StepEndsMove, ExitCodeIs DEF Shape
    <2>4. CASE StepEnds(1)
      BY <2>1, <2>4, StepEndsMove, NoResultIs
    <2>5. CASE pc' = "kill" /\ result' = Raised /\ UNCHANGED step
      BY <2>1, <2>5, NoResultIs DEF Move, StepMove, ResultMove, ProcMove, Starting
    <2>6. QED
      BY <2>1, <2>3, <2>4, <2>5
  <1>6. CASE ReadEnds \/ ReaderEnds \/ WorkerDies \/ Finished \/ UNCHANGED vars
    <2>1. /\ UNCHANGED <<pipeline, proc, step>> /\ (pc' = pc \/ pc' \notin Starting)
          /\ result' = result \/ result' = Raised
      BY <1>6 DEF ReadEnds, ReaderEnds, WorkerDies, Finished, vars, world, Starting
    <2>2. QED
      BY <2>1, NoResultIs DEF Move, StepMove, ResultMove, ProcMove
  <1>7. CASE Kill \/ Remove \/ Time
    <2>1. /\ UNCHANGED <<pipeline, step>> /\ (pc' = pc \/ pc' \notin Starting)
          /\ proc' = proc \/ proc' = Killed
          /\ result' = result \/ result' = Raised
      BY <1>7 DEF Kill, Remove, Time, DeadlinePasses, SleepEnds, Starting
    <2>2. \A i \in Step : ProcMove(i)
      BY <1>t, <2>1, KilledIs DEF ProcMove
    <2>3. QED
      BY <2>1, <2>2, NoResultIs DEF Move, StepMove, ResultMove
  <1>8. CASE \E i \in Step : ProcessEnds(i)
    <2>1. /\ UNCHANGED <<pipeline, pc, step, result>>
          /\ \E k \in Step, end \in {"ok", "failed"} :
                proc[k] = "running" /\ proc' = [proc EXCEPT ![k] = end]
      BY <1>8 DEF ProcessEnds
    <2>2. \A i \in Step : ProcMove(i)
      BY <1>t, <2>1 DEF ProcMove, ProcType
    <2>3. QED
      BY <2>1, <2>2 DEF Move, StepMove, ResultMove
  <1>9. QED
    BY <1>1, <1>2, <1>3, <1>4, <1>5, <1>6, <1>7, <1>8 DEF Next, Call

-----------------------------------------------------------------------------
(***************************************************************************)
(* Steps pass one by one, and the result tells                             *)
(***************************************************************************)
LEMMA OneByOneInit == Init => OneByOne /\ Judged
  BY NoResultIs, StepsAssumption DEF Init, OneByOne, Judged, Step

LEMMA OneByOneStep == Shape /\ OneByOne /\ [Next]_vars => OneByOne'
  <1> SUFFICES ASSUME Shape, OneByOne, [Next]_vars PROVE OneByOne'
    OBVIOUS
  <1>m. Move
    BY Moves
  <1>t. step \in 0..(MaxSteps + 1) /\ MaxSteps \in Nat /\ step' \in {step, step + 1}
    BY <1>m, StepsAssumption DEF Shape, TypeOK, Move, StepMove
  <1>1. ASSUME NEW i \in Step, i < step' PROVE proc'[i] = "ok" \/ i \in pipeline'.allow
    <2>1. CASE i < step
      <3>1. proc[i] = "ok" \/ i \in pipeline.allow
        BY <2>1 DEF OneByOne
      <3>2. ProcMove(i) /\ i # step /\ pipeline' = pipeline
        BY <1>m, <1>t, <2>1 DEF Move, Step
      <3>3. QED
        BY <3>1, <3>2 DEF ProcMove
    <2>2. CASE i = step /\ step' = step + 1
      <3>1. step \in pipeline.allow \/ (proc[step] = "ok" /\ proc' = proc)
        BY <1>m, <1>t, <2>2 DEF Move, StepMove
      <3>2. QED
        BY <1>m, <2>2, <3>1 DEF Move
    <2>3. QED
      BY <1>1, <1>t, <2>1, <2>2 DEF Step
  <1>2. ASSUME NEW i \in Step, i > step' PROVE proc'[i] = "none"
    <2>1. i > step /\ i # step
      BY <1>2, <1>t DEF Step
    <2>2. proc[i] = "none" /\ ProcMove(i)
      BY <1>m, <2>1 DEF OneByOne, Move
    <2>3. QED
      BY <2>1, <2>2 DEF ProcMove
  <1>3. ASSUME pc' \in Starting, step' \in Step PROVE proc'[step'] = "none"
    <2>1. CASE step' = step + 1
      <3>1. step' > step /\ step' # step
        BY <1>t, <2>1
      <3>2. proc[step'] = "none" /\ ProcMove(step')
        BY <1>m, <1>3, <3>1 DEF OneByOne, Move
      <3>3. QED
        BY <3>1, <3>2 DEF ProcMove
    <2>2. CASE step' = step
      <3>1. pc \in Starting /\ proc[step] = "none" /\ ProcMove(step) /\ step # step + 1
        BY <1>m, <1>t, <1>3, <2>2 DEF OneByOne, Move, Starting
      <3>2. QED
        BY <1>3, <2>2, <3>1 DEF ProcMove, Starting
    <2>3. QED
      BY <1>t, <2>1, <2>2
  <1>4. QED
    BY <1>1, <1>2, <1>3 DEF OneByOne, Starting

LEMMA JudgedStep == Shape /\ OneByOne /\ Judged /\ [Next]_vars => Judged'
  <1> SUFFICES ASSUME Shape, OneByOne, Judged, [Next]_vars, result'.kind = "result"
               PROVE  /\ result'.code = 0 => step' > pipeline'.n
                      /\ result'.permanent \/ step' = 0 \/ step' > pipeline'.n \/ proc'[step'] = "none"
    BY DEF Judged
  <1>m. Move
    BY Moves
  <1>t. step \in 0..(MaxSteps + 1) /\ pipeline.n \in 1..MaxSteps /\ MaxSteps \in Nat /\ pipeline' = pipeline
    BY <1>m, PipelineIs DEF Shape, TypeOK, Move
  <1>1. CASE result' = result
    <2>1. pc \in {"kill", "remove", "done"}
      BY <1>1 DEF Shape, InPlace
    <2>2. step' = step
      BY <1>m, <2>1 DEF Move, StepMove, InExec
    <2>3. step \in Step /\ proc[step] = "none" => proc'[step] = "none"
      BY <1>m, <2>1 DEF Move, ProcMove
    <2>4. step # 0 /\ ~(step > pipeline.n) => step \in Step
      BY <1>t DEF Step
    <2>5. QED
      BY <1>1, <1>t, <2>2, <2>3, <2>4 DEF Judged
  <1>2. CASE /\ step' = step
             /\ result'.code = 0 => step > pipeline.n
             /\ result'.permanent = TRUE \/ step = 0 \/ step > pipeline.n \/ (pc = "next" /\ proc' = proc)
    <2>1. pc = "next" /\ ~(step > pipeline.n) => proc[step] = "none"
      BY <1>t DEF OneByOne, Step
    <2>2. QED
      BY <1>2, <1>t, <2>1
  <1>3. QED
    BY <1>m, <1>1, <1>2 DEF Move, ResultMove

LEMMA FaultsGrow ==
    ASSUME Shape, [Next]_vars
    PROVE  /\ \A k : Happened(k) => Happened(k)'
           /\ faults' = << >> => faults = << >>
           /\ faults' = faults \/ faults' # << >>
  <1>1. faults \in Seq(Faults)
    BY Types DEF Shape
  <1>2. faults' = faults \/ Fault("docker") \/ Fault("transport") \/ Fault("worker")
    <2>1. CASE Call
      BY <2>1 DEF Call, Pull, Start, NextStep, ExecStart, ReadTimesOut, ReadEnds, ExecInspect, Kill, Remove, Raises
    <2>2. CASE ReaderEnds \/ WorkerDies \/ Time \/ Finished \/ UNCHANGED vars \/ \E i \in Step : ProcessEnds(i)
      BY <2>2 DEF ReaderEnds, WorkerDies, Time, DeadlinePasses, SleepEnds, Finished, vars, ProcessEnds
    <2>3. QED
      BY <2>1, <2>2 DEF Next
  <1>3. CASE faults' = faults
    BY <1>3 DEF Happened
  <1>4. QED
    BY <1>1, <1>2, <1>3, FaultIs

-----------------------------------------------------------------------------
(***************************************************************************)
(* No process beside another, none left behind                             *)
(***************************************************************************)
Quiet == \A i \in Step : i < step => proc[i] # "running"

\* A step during which the run stays where it is, and no process is started.
LEMMA QuietStays ==
    ASSUME Shape, NoneLeftRunning, ~DaemonLost,
           UNCHANGED <<pc, step>>, clock' = "before" => clock = "before",
           \A i \in Step : proc'[i] = "running" => proc[i] = "running",
           pc = "reading" /\ eos' => eos \/ proc[step] # "running"
    PROVE  NoneLeftRunning'
  <1>1. pc \in {"reading", "inspect"} => step \in Step
    BY PipelineIs DEF Shape, TypeOK, InPlace, Step
  <1>2. QED
    BY <1>1 DEF NoneLeftRunning

LEMMA NoneLeftRunningStep ==
    Shape /\ OneByOne /\ NoneLeftRunning /\ [Next]_vars => NoneLeftRunning'
  <1> SUFFICES ASSUME Shape, OneByOne, NoneLeftRunning, [Next]_vars, ~DaemonLost'
               PROVE  NoneLeftRunning'
    BY DEF NoneLeftRunning
  <1>h. ~DaemonLost /\ ~Fault("docker") /\ ~Fault("transport")
    BY FaultsGrow, FaultIs, Types DEF Shape, DaemonLost
  <1>t. /\ pc \in Pcs /\ step \in 0..(MaxSteps + 1) /\ proc \in ProcType /\ MaxSteps \in Nat
        /\ pipeline.n \in 1..MaxSteps /\ InPlace
    BY Types, PipelineIs DEF Shape
  <1>q. InExec \/ (pc = "next" /\ clock = "before") => Quiet
    BY <1>h DEF NoneLeftRunning, Quiet, InExec
  <1>i. InExec => step \in Step /\ step \in 0..pipeline.n
    BY <1>t DEF InPlace, InExec, Step
  <1>e. ASSUME InExec, NEW code \in Code, StepEnds(code), UNCHANGED <<proc, clock>>,
               proc[step] # "running" \/ clock # "before"
        PROVE  NoneLeftRunning'
    <2>1. pc' = "kill" \/ (pc' = "next" /\ step' = step + 1)
      BY <1>e, StepEndsIs
    <2>2. clock' = "before" => \A i \in Step : i < step + 1 => proc'[i] # "running"
      BY <1>e, <1>q, <1>i, <1>t DEF Quiet, Step
    <2>3. QED
      BY <2>1, <2>2 DEF NoneLeftRunning
  <1>1. CASE Pull \/ Start
    <2>1. pc' \in {"start", "exec", "done"} /\ step' = 0
      BY <1>1, <1>t DEF Pull, Start, InPlace
    <2>2. QED
      BY <2>1 DEF NoneLeftRunning, Step
  <1>2. CASE NextStep
    <2>1. UNCHANGED <<proc, step>> /\ (pc' = "kill" \/ (pc' = "exec" /\ pc = "next" /\ clock = "before"))
      BY <1>2 DEF NextStep, world, PastDeadline, Finally
    <2>2. QED
      BY <1>q, <2>1 DEF NoneLeftRunning, Quiet
  <1>3. CASE ExecStart
    <2>1. /\ InExec /\ pc = "exec" /\ eos' = FALSE /\ UNCHANGED clock
          /\ \/ /\ pc' = "reading" /\ step' = step
                /\ proc' = [proc EXCEPT ![step] = "running"]
             \/ StepEnds(1) /\ proc' = proc
             \/ pc' = "kill"
      BY <1>3, <1>h DEF ExecStart, Raises, Finally, InExec
    <2>2. CASE pc' = "reading" /\ step' = step /\ proc' = [proc EXCEPT ![step] = "running"]
      <3>1. \A i \in Step : i < step => proc'[i] # "running"
        BY <1>q, <1>t, <1>i, <2>1, <2>2 DEF Quiet, ProcType, Step
      <3>2. QED
        BY <2>1, <2>2, <3>1 DEF NoneLeftRunning
    <2>3. CASE StepEnds(1) /\ proc' = proc
      <3>1. proc[step] # "running"
        BY <1>i, <2>1 DEF OneByOne
      <3>2. QED
        BY <1>e, <2>1, <2>3, <3>1, NoResultIs
    <2>4. CASE pc' = "kill"
      BY <2>4 DEF NoneLeftRunning
    <2>5. QED
      BY <2>1, <2>2, <2>3, <2>4
  <1>4. CASE ReadTimesOut
    BY <1>4, <1>e, NoResultIs DEF ReadTimesOut, InExec, world, TimeIsUp
  <1>5. CASE ReadEnds
    BY <1>5, <1>h DEF ReadEnds, world, NoneLeftRunning
  <1>6. CASE ExecInspect
    <2>1. /\ InExec /\ pc = "inspect" /\ UNCHANGED <<proc, clock>>
          /\ StepEnds(ExitCode) \/ pc' = "kill"
      BY <1>6, <1>h DEF ExecInspect, InExec, world, Raises, Finally
    <2>2. proc[step] # "running" /\ ExitCode \in Code
      BY <1>h, <1>i, <2>1, ExitCodeIs DEF NoneLeftRunning, Shape
    <2>3. CASE StepEnds(ExitCode)
      BY <1>e, <2>1, <2>2, <2>3
    <2>4. CASE pc' = "kill"
      BY <2>4 DEF NoneLeftRunning
    <2>5. QED
      BY <2>1, <2>3, <2>4
  <1>7. CASE ReaderEnds
    <2>1. UNCHANGED <<pc, step, proc, clock>> /\ proc[step] # "running"
      BY <1>7, <1>h DEF ReaderEnds, world
    <2>2. QED
      BY <1>h, <2>1, QuietStays
  <1>8. CASE Kill \/ Remove \/ WorkerDies
    <2>1. pc' \in {"remove", "done"}
      BY <1>8 DEF Kill, Remove, WorkerDies
    <2>2. QED
      BY <2>1 DEF NoneLeftRunning
  <1>9. CASE Time
    <2>1. UNCHANGED <<pc, step, eos>> /\ clock' # "before" /\ proc' \in {proc, Killed}
      BY <1>9 DEF Time, DeadlinePasses, SleepEnds
    <2>2. QED
      BY <1>h, <1>t, <2>1, QuietStays, KilledIs
  <1>10. CASE \E i \in Step : ProcessEnds(i)
    <2>1. /\ UNCHANGED <<pc, step, eos, clock>>
          /\ \E k \in Step, end \in {"ok", "failed"} : proc' = [proc EXCEPT ![k] = end]
      BY <1>10 DEF ProcessEnds
    <2>2. \A i \in Step : proc'[i] = "running" => proc[i] = "running"
      BY <1>t, <2>1 DEF ProcType
    <2>3. QED
      BY <1>h, <2>1, <2>2, QuietStays
  <1>11. CASE Finished \/ UNCHANGED vars
    BY <1>11, <1>h, QuietStays DEF Finished, vars
  <1>12. QED
    BY <1>1, <1>2, <1>3, <1>4, <1>5, <1>6, <1>7, <1>8, <1>9, <1>10, <1>11 DEF Next, Call

LEMMA NothingLeftBehindStep == Shape /\ NothingLeftBehind /\ [Next]_vars => NothingLeftBehind'
  <1> SUFFICES ASSUME Shape, NothingLeftBehind, [Next]_vars, pc' = "done", faults' = << >>
               PROVE  container' = "removed" /\ \A i \in Step : proc'[i] # "running"
    BY DEF NothingLeftBehind
  <1>t. proc \in ProcType
    BY Types DEF Shape
  <1>f. /\ faults = << >> /\ UNCHANGED faults
        /\ \A k : ~Fault(k)
    BY FaultsGrow, FaultIs, Types DEF Shape
  <1>1. CASE pc = "done"
    <2>1. container = "removed" /\ \A i \in Step : proc[i] # "running"
      BY <1>1, <1>f DEF NothingLeftBehind
    <2>2. container' = container /\ proc' = proc
      <3>1. CASE Call
        BY <3>1, <1>1 DEF Call, Pull, Start, NextStep, ExecStart, ReadTimesOut, ReadEnds, ExecInspect, Kill, Remove
      <3>2. CASE Time
        BY <3>2, <2>1 DEF Time, DeadlinePasses, SleepEnds
      <3>3. CASE \E i \in Step : ProcessEnds(i)
        BY <3>3, <2>1 DEF ProcessEnds
      <3>4. CASE ReaderEnds \/ WorkerDies \/ Finished \/ UNCHANGED vars
        BY <3>4 DEF ReaderEnds, WorkerDies, Finished, vars, world
      <3>5. QED
        BY <3>1, <3>2, <3>3, <3>4 DEF Next
    <2>3. QED
      BY <2>1, <2>2
  <1>2. CASE pc # "done"
    <2>1. CASE Remove
      <3>1. container' = "removed" /\ proc' = Killed
        BY <2>1, <1>f DEF Remove
      <3>2. QED
        BY <1>t, <3>1, KilledIs
    <2>2. CASE Pull \/ Start \/ NextStep \/ ReadEnds \/ Kill
      BY <2>2, <1>f, <1>2 DEF Pull, Start, NextStep, ReadEnds, Kill, Finally
    <2>3. CASE ExecStart \/ ReadTimesOut \/ ExecInspect
      BY <2>3, <1>f, <1>2 DEF ExecStart, ReadTimesOut, ExecInspect, StepEnds, Raises, Finally
    <2>4. CASE ReaderEnds \/ WorkerDies \/ Finished \/ UNCHANGED vars
      BY <2>4, <1>f, <1>2 DEF ReaderEnds, WorkerDies, Finished, vars
    <2>5. CASE Time \/ \E i \in Step : ProcessEnds(i)
      BY <2>5, <1>2 DEF Time, DeadlinePasses, SleepEnds, ProcessEnds
    <2>6. QED
      BY <2>1, <2>2, <2>3, <2>4, <2>5 DEF Next, Call
  <1>3. QED
    BY <1>1, <1>2

-----------------------------------------------------------------------------
(***************************************************************************)
(* The refinement                                                          *)
(***************************************************************************)
LEMMA RunInit == Init => Run!Init
  <1> SUFFICES ASSUME Init PROVE Run!Init
    OBVIOUS
  <1>1. pipeline \in {[n |-> n, allow |-> allow] : n \in 1..MaxSteps, allow \in SUBSET (1..MaxSteps)}
    BY DEF Init, Pipelines
  <1>2. results = << >> /\ result = [kind |-> "none", code |-> 0, failed |-> 0, permanent |-> FALSE]
    BY DEF Init, NoResult
  <1>3. QED
    BY <1>1, <1>2 DEF Run!Init

\* How each of the ends of a run looks from outside.
LEMMA RaiseIs ==
    ASSUME result' = Raised, UNCHANGED <<pipeline, results>>
    PROVE  Run!Next
  <1>1. Raised = [kind |-> "raised", code |-> 0, failed |-> 0, permanent |-> FALSE]
    BY DEF Raised
  <1>2. Run!Raise
    BY <1>1 DEF Run!Raise
  <1>3. QED
    BY <1>2 DEF Run!Next

LEMMA GiveUpIs ==
    ASSUME Shape, result.kind = "none", NEW code \in Code, code # 0, NEW failed \in Step,
           result' = Returned(code, failed, FALSE), UNCHANGED <<pipeline, results>>,
           failed = step, step = 0 \/ step <= pipeline.n
    PROVE  Run!Next
  <1>1. /\ results \in Seq(Code) /\ Len(results) = IF step = 0 THEN 0 ELSE step - 1
        /\ step \in 0..(MaxSteps + 1) /\ MaxSteps \in Nat
    BY StepsAssumption DEF Shape, TypeOK, InPlace
  <1>2. Run!Ends(code, failed, FALSE)
    BY DEF Run!Ends, Returned
  <1>3. CASE step = 0
    <2>1. results = << >>
      BY <1>1, <1>3
    <2>2. Run!GiveUp(code)
      BY <1>2, <1>3, <2>1 DEF Run!GiveUp, Run!Runs
    <2>3. QED
      BY <2>2 DEF Run!Next
  <1>4. CASE step # 0
    <2>1. Run!Current = step
      BY <1>1, <1>4 DEF Run!Current
    <2>2. Run!GiveUp(code)
      BY <1>2, <1>4, <2>1 DEF Run!GiveUp, Run!Runs
    <2>3. QED
      BY <2>2 DEF Run!Next
  <1>5. QED
    BY <1>3, <1>4

LEMMA StepEndsRefines ==
    ASSUME Shape, InExec, NEW code \in Code, StepEnds(code), UNCHANGED pipeline
    PROVE  Run!Next \/ UNCHANGED Run!vars
  <1>1. /\ results \in Seq(Code) /\ Len(results) = IF step = 0 THEN 0 ELSE step - 1
        /\ step \in 0..(MaxSteps + 1) /\ MaxSteps \in Nat /\ step <= pipeline.n
        /\ result.kind = "none" /\ pipeline.allow \subseteq 1..pipeline.n /\ pipeline.n \in Nat
    BY StepsAssumption, PipelineIs DEF Shape, TypeOK, InPlace, InExec
  <1>2. CASE step = 0
    <2>1. step \notin pipeline.allow /\ results' = results
      BY <1>1, <1>2, StepEndsIs
    <2>2. CASE code = 0
      <3>1. result' = result
        BY <2>1, <2>2, StepEndsIs
      <3>2. QED
        BY <2>1, <3>1 DEF Run!vars
    <2>3. CASE code # 0
      <3>1. result' = Returned(code, 0, FALSE)
        BY <1>2, <2>1, <2>3 DEF StepEnds
      <3>2. QED
        BY <1>1, <1>2, <2>1, <2>3, <3>1, GiveUpIs, NoResultIs
    <2>4. QED
      BY <2>2, <2>3
  <1>3. CASE step # 0
    <2>1. Run!Current = step /\ results' = Append(results, code)
      BY <1>1, <1>3, StepEndsIs DEF Run!Current
    <2>2. IF code = 0 \/ step \in pipeline.allow THEN result' = result
          ELSE result' = Returned(code, step, TRUE)
      BY <1>3 DEF StepEnds
    <2>3. Run!StepEnds(code)
      BY <1>1, <2>1, <2>2 DEF Run!StepEnds, Run!Runs, Run!Ends, Returned
    <2>4. QED
      BY <2>3 DEF Run!Next
  <1>4. QED
    BY <1>2, <1>3

LEMMA RunStep == Shape /\ [Next]_vars => [Run!Next]_(Run!vars)
  <1> SUFFICES ASSUME Shape, [Next]_vars PROVE Run!Next \/ UNCHANGED Run!vars
    OBVIOUS
  <1>t. /\ step \in 0..(MaxSteps + 1) /\ MaxSteps \in Nat /\ pipeline.n \in 1..MaxSteps /\ InPlace
        /\ results \in Seq(Code)
    BY Types, PipelineIs DEF Shape
  <1>s. UNCHANGED <<pipeline, results, result>> => UNCHANGED Run!vars
    BY DEF Run!vars
  <1>1. CASE Pull \/ Start
    <2>1. /\ UNCHANGED <<pipeline, results>> /\ result.kind = "none" /\ step = 0
          /\ result' = result \/ result' = Returned(1, 0, FALSE) \/ result' = Raised
      BY <1>1, <1>t DEF Pull, Start, world, InPlace
    <2>2. CASE result' = Returned(1, 0, FALSE)
      <3>1. 1 \in Code /\ 1 # 0 /\ 0 \in Step
        BY <1>t DEF Code, Step
      <3>2. QED
        BY <2>1, <2>2, <3>1, GiveUpIs
    <2>3. QED
      BY <1>s, <2>1, <2>2, RaiseIs
  <1>2. CASE NextStep
    <2>1. /\ UNCHANGED <<pipeline, results>> /\ result.kind = "none" /\ step # 0
          /\ \/ result' = result
             \/ result' = Returned(0, 0, FALSE) /\ step > pipeline.n
             \/ result' = Returned(124, step, FALSE) /\ step <= pipeline.n
      BY <1>2, <1>t DEF NextStep, world, InPlace
    <2>2. CASE result' = Returned(0, 0, FALSE) /\ step > pipeline.n
      <3>1. Run!Current = step
        BY <1>t, <2>1 DEF Run!Current, InPlace
      <3>2. Run!Succeed
        BY <2>1, <2>2, <3>1 DEF Run!Succeed, Run!Runs, Run!Ends, Returned
      <3>3. QED
        BY <3>2 DEF Run!Next
    <2>3. CASE result' = Returned(124, step, FALSE) /\ step <= pipeline.n
      <3>1. step \in Step /\ 124 \in Code /\ 124 # 0
        BY <1>t, <2>3 DEF Step, Code
      <3>2. QED
        BY <2>1, <2>3, <3>1, GiveUpIs
    <2>4. QED
      BY <1>s, <2>1, <2>2, <2>3
  <1>3. CASE ExecStart
    <2>1. /\ UNCHANGED pipeline /\ InExec
          /\ StepEnds(1) \/ UNCHANGED <<results, result>> \/ (result' = Raised /\ UNCHANGED results)
      BY <1>3 DEF ExecStart, Raises, InExec
    <2>2. CASE StepEnds(1)
      BY <2>1, <2>2, StepEndsRefines, NoResultIs
    <2>3. QED
      BY <1>s, <2>1, <2>2, RaiseIs
  <1>4. CASE ReadTimesOut
    <2>1. UNCHANGED pipeline /\ InExec /\ StepEnds(124)
      BY <1>4 DEF ReadTimesOut, InExec, world
    <2>2. QED
      BY <2>1, StepEndsRefines, NoResultIs
  <1>5. CASE ExecInspect
    <2>1. /\ UNCHANGED pipeline /\ InExec
          /\ StepEnds(ExitCode) \/ StepEnds(1) \/ (result' = Raised /\ UNCHANGED results)
      BY <1>5 DEF ExecInspect, Raises, InExec, world
    <2>2. ExitCode \in Code /\ 1 \in Code
      <3>1. step \in Step
        BY <1>t, <2>1 DEF InPlace, InExec, Step
      <3>2. QED
        BY <3>1, ExitCodeIs, NoResultIs DEF Shape
    <2>3. CASE StepEnds(ExitCode) \/ StepEnds(1)
      BY <2>1, <2>2, <2>3, StepEndsRefines
    <2>4. QED
      BY <2>1, <2>3, RaiseIs
  <1>6. CASE Kill \/ Remove \/ WorkerDies
    <2>1. UNCHANGED <<pipeline, results>> /\ (result' = result \/ result' = Raised)
      BY <1>6 DEF Kill, Remove, WorkerDies, world
    <2>2. QED
      BY <1>s, <2>1, RaiseIs
  <1>7. CASE ReadEnds \/ ReaderEnds \/ Time \/ Finished \/ UNCHANGED vars \/ \E i \in Step : ProcessEnds(i)
    <2>1. UNCHANGED <<pipeline, results, result>>
      BY <1>7 DEF ReadEnds, ReaderEnds, Time, DeadlinePasses, SleepEnds, Finished, vars, ProcessEnds, world
    <2>2. QED
      BY <1>s, <2>1
  <1>8. QED
    BY <1>1, <1>2, <1>3, <1>4, <1>5, <1>6, <1>7 DEF Next, Call

-----------------------------------------------------------------------------
(***************************************************************************)
(* The theorems                                                            *)
(***************************************************************************)
\* Types hold, and the executor is where its program counter says: a result is there from
\* finally on and no sooner, the codes recorded are those of the steps that have ended.
THEOREM TypeCorrect == Spec => [](TypeOK /\ InPlace)
  <1>1. Spec => []Shape
    BY ShapeInit, ShapeStep, PTL DEF Spec
  <1>2. QED
    BY <1>1, PTL DEF Shape

LEMMA PassedAlways == Spec => [](Shape /\ OneByOne /\ Judged)
  <1>1. Init => Shape /\ OneByOne /\ Judged
    BY ShapeInit, OneByOneInit
  <1>2. Shape /\ OneByOne /\ Judged /\ [Next]_vars => (Shape /\ OneByOne /\ Judged)'
    BY ShapeStep, OneByOneStep, JudgedStep
  <1>3. QED
    BY <1>1, <1>2, PTL DEF Spec

\* A success means that every step has ended with exit code 0, or was allowed to fail:
\* NextStep finds no step left, and the run gets past a step in no other way.
THEOREM SuccessIsEarned == Spec => []SuccessMeansStepsPassed
  <1>1. Shape /\ OneByOne /\ Judged => SuccessMeansStepsPassed
    <2> SUFFICES ASSUME Shape, OneByOne, Judged, result.kind = "result", result.code = 0,
                        NEW i \in 0..pipeline.n
                 PROVE  proc[i] = "ok" \/ i \in pipeline.allow
      BY DEF SuccessMeansStepsPassed
    <2>1. step > pipeline.n /\ pipeline.n \in 1..MaxSteps /\ MaxSteps \in Nat /\ step \in 0..(MaxSteps + 1)
      BY PipelineIs DEF Judged, Shape, TypeOK
    <2>2. i \in Step /\ i < step
      BY <2>1 DEF Step
    <2>3. QED
      BY <2>2 DEF OneByOne
  <1>2. QED
    BY <1>1, PassedAlways, PTL

\* A step that has failed is never retried: it is the one the run is at, and every way out
\* of it gives a permanent result.
THEOREM FailuresArePermanent == Spec => []RealFailureIsPermanent
  <1>1. Shape /\ OneByOne /\ Judged => RealFailureIsPermanent
    <2> SUFFICES ASSUME Shape, OneByOne, Judged, NEW i \in 1..pipeline.n, proc[i] = "failed",
                        i \notin pipeline.allow, result.kind = "result"
                 PROVE  result.permanent
      BY DEF RealFailureIsPermanent
    <2>1. pipeline.n \in 1..MaxSteps /\ MaxSteps \in Nat /\ step \in 0..(MaxSteps + 1)
      BY PipelineIs DEF Shape, TypeOK
    <2>2. i \in Step /\ ~(i < step) /\ ~(i > step)
      BY <2>1 DEF OneByOne, Step
    <2>3. i = step /\ step # 0 /\ ~(step > pipeline.n) /\ proc[step] # "none"
      BY <2>1, <2>2
    <2>4. QED
      BY <2>3 DEF Judged
  <1>2. QED
    BY <1>1, PassedAlways, PTL

\* An undisturbed run removes its container and with it its processes.
THEOREM UndisturbedRunsCleanUp == Spec => []NothingLeftBehind
  <1>1. Init => NothingLeftBehind
    BY DEF Init, NothingLeftBehind
  <1>2. Spec => [](Shape /\ NothingLeftBehind)
    BY <1>1, ShapeInit, ShapeStep, NothingLeftBehindStep, PTL DEF Spec
  <1>3. QED
    BY <1>2, PTL

\* No step is started beside a running one, except beside one that is allowed to fail and
\* after the daemon, or the connection to it, was lost: the process of a step that timed
\* out keeps the next one from being started.
THEOREM StepsDoNotOverlap == Spec => StepsRunOneAtATime
  <1>1. Init => Shape /\ OneByOne /\ NoneLeftRunning
    <2>1. Init => NoneLeftRunning
      BY DEF Init, NoneLeftRunning
    <2>2. QED
      BY <2>1, ShapeInit, OneByOneInit
  <1>2. Shape /\ OneByOne /\ NoneLeftRunning /\ [Next]_vars => (Shape /\ OneByOne /\ NoneLeftRunning)'
    BY ShapeStep, OneByOneStep, NoneLeftRunningStep
  <1>3. Shape /\ OneByOne /\ NoneLeftRunning /\ [Next]_vars =>
           [\A i, k \in Step :
              i < k /\ proc[i] = "running" /\ proc[k] = "none" /\ proc'[k] = "running" =>
                  i \in pipeline.allow /\ DaemonLost]_vars
    <2> SUFFICES ASSUME Shape, OneByOne, NoneLeftRunning, [Next]_vars, NEW i \in Step, NEW k \in Step,
                        i < k, proc[i] = "running", proc[k] = "none", proc'[k] = "running"
                 PROVE  i \in pipeline.allow /\ DaemonLost
      OBVIOUS
    <2>1. k = step /\ pc = "exec"
      BY Moves DEF Move, ProcMove
    <2>2. i \in pipeline.allow
      BY <2>1 DEF OneByOne
    <2>3. DaemonLost
      BY <2>1 DEF NoneLeftRunning
    <2>4. QED
      BY <2>2, <2>3
  <1>4. QED
    BY <1>1, <1>2, <1>3, PTL DEF Spec, StepsRunOneAtATime

\* The executor implements PipelineRun: whatever the calls to the daemon return or raise,
\* its caller sees steps that end in order, and one result that fits them.
THEOREM ExecutorImplementsRun == Spec => ImplementsRun
  <1>1. Spec => []Shape
    BY ShapeInit, ShapeStep, PTL DEF Spec
  <1>2. QED
    BY <1>1, RunInit, RunStep, PTL DEF Spec, ImplementsRun, Run!Spec
=============================================================================
