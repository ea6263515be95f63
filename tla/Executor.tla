------------------------------ MODULE Executor ------------------------------
(***************************************************************************)
(* One run of a pipeline: DockerExecutor.run_pipeline                      *)
(* (worker/docker_executor.py), the reader thread of its _exec, and the    *)
(* container it drives.                                                    *)
(*                                                                         *)
(* The executor sees the container only through API calls, each of which   *)
(* is an action, while processes in it, the stream reader and the clock    *)
(* go on by themselves.  Step 0 is the checkout.  A call fails with a      *)
(* DockerException, which the code handles, or with another exception (the *)
(* connection to the daemon is lost), which leaves run_pipeline and ends   *)
(* the worker process.  Log output is left out: LogStream models it.       *)
(* A definition marked (slip) is a wrong version of the one after it.      *)
(***************************************************************************)
EXTENDS Naturals, Sequences

CONSTANTS
    MaxSteps,   \* bound: steps in a pipeline
    Faults,     \* the kinds of fault that may happen
    MaxFaults   \* bound: faults in a run

ASSUME StepsAssumption == MaxSteps \in Nat \ {0}
ASSUME FaultKindsAssumption == Faults \subseteq {"docker", "transport", "worker"} /\ MaxFaults \in Nat

VARIABLES
    pipeline,   \* its number of steps, and those with allow_failure
    pc,         \* the executor's next call
    step,       \* the step it is at
    proc,       \* proc[i]: the process of step i in the container
    container,
    eos,        \* the reader thread has put its sentinel into the queue
    clock,      \* "before" or "late" for the deadline; "over" when sleep has ended too
    results,    \* step_results: the exit codes recorded so far
    result,     \* the ExecutionResult, or how the call ended without one
    faults      \* the faults so far

vars == <<pipeline, pc, step, proc, container, eos, clock, results, result, faults>>
world == <<pipeline, proc, container, clock>>

Step == 0..MaxSteps
Code == {0, 1, 124, 137}
NoResult == [kind |-> "none", code |-> 0, failed |-> 0, permanent |-> FALSE]
Returned(code, failed, permanent) ==
    [kind |-> "result", code |-> code, failed |-> failed, permanent |-> permanent]
Raised == [kind |-> "raised", code |-> 0, failed |-> 0, permanent |-> FALSE]

\* must_have_steps: a pipeline has at least one.
Pipelines == {[n |-> n, allow |-> allow] : n \in 1..MaxSteps, allow \in SUBSET (1..MaxSteps)}

Init == /\ pipeline \in {p \in Pipelines : p.allow \subseteq 1..p.n}
        /\ pc = "pull"
        /\ step = 0
        /\ proc = [i \in Step |-> "none"]
        /\ container = "none"
        /\ eos = FALSE
        /\ clock = "before"
        /\ results = << >>
        /\ result = NoResult
        /\ faults = << >>

Fault(kind) == kind \in Faults /\ Len(faults) < MaxFaults /\ faults' = Append(faults, kind)
Happened(kind) == \E i \in 1..Len(faults) : faults[i] = kind
DaemonLost == Happened("docker") \/ Happened("transport")

\* What is left of the processes when their container stops.
Killed == [i \in Step |-> IF proc[i] = "running" THEN "killed" ELSE proc[i]]

\* (slip) a return that is not inside the try
NoFinally == "done"
\* Every return, and every exception, from here on goes through finally.
Finally == "kill"

\* (slip) the deadline is looked at in _exec only
NeverPast == FALSE
\* time.monotonic() > deadline, at the head of the loop over the steps
PastDeadline == clock # "before"

-----------------------------------------------------------------------------
(* run_pipeline and _run_steps.                                             *)

Pull ==
    /\ pc = "pull"
    /\ \/ pc' = "start" /\ UNCHANGED <<result, faults>>
       \/ Fault("docker") /\ pc' = "done" /\ result' = Returned(1, 0, FALSE)
       \/ Fault("transport") /\ pc' = "done" /\ result' = Raised
    /\ UNCHANGED <<world, step, eos, results>>

\* containers.run creates the container, then starts it: one that could not be
\* started stays behind, and so does one whose start was not confirmed.
Start ==
    /\ pc = "start"
    /\ \/ pc' = "exec" /\ container' = "running" /\ UNCHANGED <<result, faults>>
       \/ /\ pc' = "done" /\ container' \in {"none", "created", "running"}
          /\ \/ Fault("docker") /\ result' = Returned(1, 0, FALSE)
             \/ Fault("transport") /\ result' = Raised
    /\ UNCHANGED <<pipeline, step, proc, eos, clock, results>>

\* The head of the loop over the steps.  The deadline is looked at once here, and
\* again by _exec.
NextStep ==
    /\ pc = "next"
    /\ \/ step > pipeline.n /\ pc' = Finally /\ result' = Returned(0, 0, FALSE)
       \/ /\ step <= pipeline.n /\ PastDeadline
          /\ pc' = Finally /\ result' = Returned(124, step, FALSE)
       \/ step <= pipeline.n /\ ~PastDeadline /\ pc' = "exec" /\ UNCHANGED result
    /\ UNCHANGED <<world, step, eos, results, faults>>

\* (slip) a timeout taken for a failure of the infrastructure
StepEndsUnlessTimeout(code) ==
    LET stop == code # 0 /\ step \notin pipeline.allow IN
    /\ results' = IF step = 0 THEN results ELSE Append(results, code)
    /\ pc' = IF stop THEN Finally ELSE "next"
    /\ result' = IF stop THEN Returned(code, step, step # 0 /\ code # 124) ELSE result
    /\ step' = IF stop THEN step ELSE step + 1
\* (slip) the code recorded only when the run goes on
StepEndsUnrecorded(code) ==
    LET stop == code # 0 /\ step \notin pipeline.allow IN
    /\ results' = IF step = 0 \/ stop THEN results ELSE Append(results, code)
    /\ pc' = IF stop THEN Finally ELSE "next"
    /\ result' = IF stop THEN Returned(code, step, step # 0) ELSE result
    /\ step' = IF stop THEN step ELSE step + 1

\* _exec has returned code: what the caller makes of it.  Any failure of a step of
\* the pipeline is permanent, a failed checkout is not.
StepEnds(code) ==
    LET stop == code # 0 /\ step \notin pipeline.allow IN
    /\ results' = IF step = 0 THEN results ELSE Append(results, code)
    /\ pc' = IF stop THEN Finally ELSE "next"
    /\ result' = IF stop THEN Returned(code, step, step # 0) ELSE result
    /\ step' = IF stop THEN step ELSE step + 1

\* Another exception than DockerException passes through finally.
Raises == Fault("transport") /\ pc' = Finally /\ result' = Raised /\ UNCHANGED <<step, results>>

-----------------------------------------------------------------------------
(* _exec.                                                                   *)

\* exec_create and exec_start.  They are refused when the container has stopped; a
\* failed call may have started the process all the same.
ExecStart ==
    /\ pc = "exec"
    /\ eos' = FALSE
    /\ \/ /\ container = "running"
          /\ proc' = [proc EXCEPT ![step] = "running"]
          /\ pc' = "reading"
          /\ UNCHANGED <<step, results, result, faults>>
       \/ /\ container # "running"
          /\ StepEnds(1)
          /\ UNCHANGED <<proc, faults>>
       \/ /\ proc' \in {proc, [proc EXCEPT ![step] = "running"]}
          /\ container = "running"
          /\ \/ Fault("docker") /\ StepEnds(1)
             \/ Raises
    /\ UNCHANGED <<pipeline, container, clock>>

\* read_stream: the stream ends with the process, with a DockerException that the
\* thread turns into a line of output, or with another exception that ends the thread.
\* In each case finally puts the sentinel: the executor cannot tell them apart.
ReaderEnds ==
    /\ pc = "reading" /\ ~eos
    /\ eos' = TRUE
    /\ \/ proc[step] # "running" /\ UNCHANGED faults
       \/ Fault("docker") \/ Fault("transport")
    /\ UNCHANGED <<world, pc, step, results, result>>

\* (slip) a get from the queue without a timeout
NeverUp == FALSE
\* remaining <= 0 at the head of the loop that empties the queue
TimeIsUp == clock # "before"

ReadTimesOut ==
    /\ pc = "reading" /\ TimeIsUp
    /\ StepEnds(124)
    /\ UNCHANGED <<world, eos, faults>>

ReadEnds ==
    /\ pc = "reading" /\ eos
    /\ pc' = "inspect"
    /\ UNCHANGED <<world, step, eos, results, result, faults>>

\* (slip) a missing exit code passed on (None, here 255)
ExitCodeOrNone == CASE proc[step] = "ok" -> 0 [] proc[step] = "failed" -> 1
                    [] proc[step] = "killed" -> 137 [] OTHER -> 255
\* (slip) a missing exit code taken for a success
ExitCodeOrZero == CASE proc[step] = "ok" -> 0 [] proc[step] = "failed" -> 1
                    [] proc[step] = "killed" -> 137 [] OTHER -> 0
\* The daemon reports no exit code while the process still runs.
ExitCode == CASE proc[step] = "ok" -> 0 [] proc[step] = "failed" -> 1
              [] proc[step] = "killed" -> 137 [] OTHER -> 1

ExecInspect ==
    /\ pc = "inspect"
    /\ \/ StepEnds(ExitCode) /\ UNCHANGED faults
       \/ Fault("docker") /\ StepEnds(1)
       \/ Raises
    /\ UNCHANGED <<world, eos>>

-----------------------------------------------------------------------------
(* finally: kill, then remove, each on its own; an exception other than     *)
(* DockerException from kill skips the removal.                             *)

Kill ==
    /\ pc = "kill"
    /\ \/ /\ container' = "exited" /\ proc' = Killed /\ pc' = "remove"
          /\ UNCHANGED <<result, faults>>
       \/ Fault("docker") /\ pc' = "remove" /\ UNCHANGED <<container, proc, result>>
       \/ Fault("transport") /\ pc' = "done" /\ result' = Raised /\ UNCHANGED <<container, proc>>
    /\ UNCHANGED <<pipeline, step, eos, clock, results>>

Remove ==
    /\ pc = "remove"
    /\ pc' = "done"
    /\ \/ container' = "removed" /\ proc' = Killed /\ UNCHANGED <<result, faults>>
       \/ Fault("docker") /\ UNCHANGED <<container, proc, result>>
       \/ Fault("transport") /\ result' = Raised /\ UNCHANGED <<container, proc>>
    /\ UNCHANGED <<pipeline, step, eos, clock, results>>

WorkerDies ==
    /\ Fault("worker")
    /\ pc # "done"
    /\ pc' = "done" /\ result' = Raised
    /\ UNCHANGED <<world, step, eos, results>>

-----------------------------------------------------------------------------
(* The container and the clock.                                             *)

ProcessEnds(i) ==
    /\ proc[i] = "running"
    /\ \E end \in {"ok", "failed"} : proc' = [proc EXCEPT ![i] = end]
    /\ UNCHANGED <<pipeline, pc, step, container, eos, clock, results, result, faults>>

DeadlinePasses ==
    /\ container # "none" /\ clock = "before"
    /\ clock' = "late"
    /\ UNCHANGED <<pipeline, pc, step, proc, container, eos, results, result, faults>>

\* (slip) a container that waits for ever
SleepsForever ==
    /\ clock = "late" /\ clock' = "over"
    /\ UNCHANGED <<pipeline, pc, step, proc, container, eos, results, result, faults>>

\* The container's command is a sleep of 30 seconds more than the timeout.
SleepEnds ==
    /\ clock = "late"
    /\ clock' = "over"
    /\ IF container = "running" THEN container' = "exited" /\ proc' = Killed
       ELSE UNCHANGED <<container, proc>>
    /\ UNCHANGED <<pipeline, pc, step, eos, results, result, faults>>

Finished == pc = "done" /\ container # "running" /\ UNCHANGED vars

Call == \/ Pull \/ Start \/ NextStep \/ ExecStart \/ ReadTimesOut \/ ReadEnds
        \/ ExecInspect \/ Kill \/ Remove
Time == DeadlinePasses \/ SleepEnds
Next == \/ Call \/ ReaderEnds \/ WorkerDies \/ Time
        \/ \E i \in Step : ProcessEnds(i)
        \/ Finished

Spec == Init /\ [][Next]_vars

\* Calls to the daemon return, time passes.  A process need not end, nor the stream
\* of one that runs.
FairSpec == Spec /\ WF_vars(Call) /\ WF_vars(DeadlinePasses) /\ WF_vars(SleepEnds)

-----------------------------------------------------------------------------
(***************************************************************************)
(* Properties                                                              *)
(***************************************************************************)
TypeOK ==
    /\ pipeline \in Pipelines
    /\ pc \in {"pull", "start", "next", "exec", "reading", "inspect", "kill", "remove", "done"}
    /\ step \in 0..(MaxSteps + 1)
    /\ proc \in [Step -> {"none", "running", "ok", "failed", "killed"}]
    /\ container \in {"none", "created", "running", "exited", "removed"}
    /\ eos \in BOOLEAN
    /\ clock \in {"before", "late", "over"}
    /\ results \in Seq(Code) /\ Len(results) <= MaxSteps
    /\ result \in [kind : {"none", "result", "raised"}, code : Code, failed : Step, permanent : BOOLEAN]
    /\ faults \in Seq(Faults)

\* A run that reports success has seen every step of the pipeline end with exit
\* code 0 in the container, except those that were allowed to fail, whatever the
\* reader thread, the deadline and the daemon did in between.
SuccessMeansStepsPassed ==
    result.kind = "result" /\ result.code = 0 =>
        \A i \in 0..pipeline.n : proc[i] = "ok" \/ i \in pipeline.allow

\* A step that really failed is never handed to the retry logic: once its process
\* has ended with an error code, no timeout, lost stream or failed inspection turns
\* the run into a success or into a failure of the infrastructure.
RealFailureIsPermanent ==
    \A i \in 1..pipeline.n :
        proc[i] = "failed" /\ i \notin pipeline.allow /\ result.kind = "result" => result.permanent

\* What the caller gets is what PipelineRun promises, through every call to the daemon and
\* every exception: the codes recorded are those of the steps in order, the run ends at
\* the first that is not allowed to fail and names it, and whatever else ends it may be
\* retried.
Run == INSTANCE PipelineRun WITH codes <- results
ImplementsRun == Run!Spec

\* Without a failure of the daemon or of the worker nothing is left on the host: the
\* container is gone when run_pipeline returns, and no process outlives it.
NothingLeftBehind ==
    pc = "done" /\ faults = << >> => container = "removed" /\ \A i \in Step : proc[i] # "running"

\* docker_executor.py:71-72: "Steps run one at a time [...] so we can report *which*
\* step failed and stream logs per-step."  No step is started while one before it
\* still runs in the container, not even after a timeout, with one exception: a step
\* that is allowed to fail, when the daemon has failed a call or the connection to it was
\* lost, also in the reader thread.  That is taken for the end of the step, and the next
\* one starts beside it.
StepsRunOneAtATime ==
    [][\A i, k \in Step :
          i < k /\ proc[i] = "running" /\ proc[k] = "none" /\ proc'[k] = "running" =>
              i \in pipeline.allow /\ DaemonLost]_vars

\* A run ends whatever the step's processes do: the deadline bounds each of them.
RunEnds == <>(pc = "done")

\* A container stops, even when kill fails or the worker is gone: its own command
\* ends soon after the deadline.
ContainerStops == container = "running" ~> container # "running"

-----------------------------------------------------------------------------
(* Why they hold: the parts of an inductive invariant.                      *)

\* Where the run is, and what it has recorded by then.
InPlace ==
    /\ pipeline.allow \subseteq 1..pipeline.n
    /\ result.kind = "none" <=> pc \notin {"kill", "remove", "done"}
    /\ pc \in {"pull", "start"} => step = 0
    /\ pc = "next" => step # 0
    /\ pc \in {"exec", "reading", "inspect"} => step <= pipeline.n
    /\ step <= pipeline.n + 1
    /\ result.kind = "none" => Len(results) = IF step = 0 THEN 0 ELSE step - 1

\* Steps before the current one have passed, those after it have not been started.
OneByOne ==
    /\ \A i \in Step : i < step => proc[i] = "ok" \/ i \in pipeline.allow
    /\ \A i \in Step : i > step => proc[i] = "none"
    /\ pc \in {"pull", "start", "next", "exec"} /\ step \in Step => proc[step] = "none"

\* What a result says of the step the run stopped at.
Judged ==
    result.kind = "result" =>
        /\ result.code = 0 => step > pipeline.n
        /\ result.permanent \/ step = 0 \/ step > pipeline.n \/ proc[step] = "none"

\* With a sound daemon a process is left behind only by a time-out, and then no other
\* is started.
NoneLeftRunning ==
    ~DaemonLost =>
        /\ pc = "inspect" \/ (pc = "reading" /\ eos) => proc[step] # "running"
        /\ pc \in {"exec", "reading", "inspect"} \/ (pc = "next" /\ clock = "before") =>
              \A i \in Step : i < step => proc[i] # "running"

-----------------------------------------------------------------------------
(* What the documents say and the code does not keep.                       *)

\* README.md:450-453: "Docker failure, checkout failure, timeout, and lease expiry are
\* infrastructure failures and are retryable."
TimeoutIsRetryable ==
    [][ReadTimesOut /\ result' # result => ~result'.permanent]_vars

\* The same line, of a Docker failure: a run blamed on a step has seen it fail.
PermanentMeansStepFailed ==
    result.permanent /\ clock = "before" => proc[result.failed] # "running"
=============================================================================
