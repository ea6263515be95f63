# A specification of the CI system

TLA+ models of the CI server, its worker, its executor and its dashboard as the
code in `src/` has them, what TLC checks of them on small instances and what TLAPS
proves of them for all. Code is cited as path:line below `src/backend/app/` unless
said otherwise.

## 1. The system

A PostgreSQL database holds jobs, attempts, workers and analyses; Redis holds a
queue, a set of delayed retries and Pub/Sub channels; a FastAPI server owns both.
Workers poll the server over HTTP and run a job's steps in a Docker container. A
React dashboard fetches over REST and listens on WebSockets. FastAPI runs each
synchronous handler in a thread and a session of its own; the reaper is a task of
the same process. No query locks a row it reads.

| Component | State | Operations | What makes it correct |
|---|---|---|---|
| Lease manager, reaper, job creation (`scheduler/`, `api/workers.py`, `api/attempts.py`) | tables jobs, job_attempts, workers; `ci:queue`, `ci:delayed_queue` | create, claim, renew, mark running, complete, reap dead workers, reap leases, promote, reconcile, heartbeat, register | a job runs at most `max_job_attempts` times and once at a time, is retried only after infrastructure failures, is never lost |
| Worker (`worker/worker.py`) | its row's id, the lease it holds, two timers, its log buffer | register, poll, renew, heartbeat, report, on_log | a worker that works is not given up and keeps its lease; what it abandons ends soon; no result of an abandoned lease counts |
| Executor (`worker/docker_executor.py`) | a container, its processes, a reader thread, a deadline | run_pipeline, _run_steps, _exec | success means that all steps passed; a verdict is permanent only for a step that failed; nothing is left behind |
| Log path (`on_log`, `append_log`, `complete`, `stream_logs`, `useLiveLogs`) | `JobAttempt.logs`, a channel, a browser's text | post, append, publish, snapshot, subscribe | nothing that was stored is lost, nothing shown that is not stored |
| Analyzer (`ai/analyzer.py`, `ai/schemas.py`, `ai/providers/`) | table ai_analyses | background task, trigger, provider call | one analysis per failed attempt, whatever the provider does |
| Job queue order (`redis_client.py`) | scores of `ci:queue` | enqueue, dequeue_one | priority first, then FIFO |
| Status stream (`publish_status`, `stream_status`, `useJobStatus`, `JobDetail`) | subscriptions, a page, its sockets and requests | publish, forward, fetch, reconnect, leave | an open page gets to know of a report; a page that was left holds nothing |
| Projects API, webhook, context extraction, rendering, configuration | none of their own, or plain rows | CRUD, parsing, formatting | not modelled, see section 8 |

Components meet in the tables (report and reaper both end attempts; `append_log` and
`complete` both write the log; task and trigger both insert an analysis), in Redis
(handlers write it before or after the commit it belongs to) and in HTTP calls that
may be lost, time out while the server goes on, or be answered late.

The hard behaviours: two sessions that read before either commits; Redis and
PostgreSQL changed in two steps with a crash or a rollback between them; a lease
that expires while its worker is alive; retries that meet the original; processes
that outlive the call that started them; snapshot and subscription that are not one
step. `PROJECT.json` lists them with their lines under "hazards".

## 2. Modules

| Module | Models | Lines | Checked by |
|---|---|---|---|
| `JobLifecycle` | what the server promises of a job (abstract) | 38 | `LifecycleUnlessOvertaken` |
| `LeaseManager` | lease manager, reaper, job creation, the worker as its client | 778 | `MCLeaseManager` |
| `LeaseManagerProofs` | theorems about it | 1750 | TLAPS |
| `LeaseHistory` | what goes wrong when its requests overlap | 109 | `MCLeaseHistory` |
| `LeaseHistoryProofs` | theorems that nothing else does | 1848 | TLAPS |
| `Worker` | the worker process and the server's deadlines, in time | 384 | `MCWorker` |
| `WorkerProofs` | theorems about it | 1755 | TLAPS |
| `PipelineRun` | what run_pipeline promises its caller (abstract) | 54 | `ImplementsRun` |
| `Executor` | one run of a pipeline, call by call | 369 | `MCExecutor` |
| `ExecutorProofs` | theorems about it | 1044 | TLAPS |
| `LogStream` | the log of one attempt | 269 | `MCLogStream` |
| `LogStreamProofs` | theorems about it | 706 | TLAPS |
| `Analyzer` | analyses, the providers and their answers | 282 | `MCAnalyzer` |
| `AnalyzerProofs` | theorems about it | 325 | TLAPS |
| `JobQueue` | the order of the queue | 153 | `MCJobQueue` |
| `JobQueueProofs` | theorems about it | 189 | TLAPS |
| `StatusStream` | the status of one job on one page | 258 | `MCStatusStream` |
| `StatusStreamProofs` | theorems about it | 291 | TLAPS |

### How state and actions correspond to the code

**LeaseManager.** `job`, `attempt` and `worker` are the tables as other sessions see
them; `queue` and `delayed` the two sorted sets; `creating` the jobs whose request is
between commit and enqueue; `hold` what a worker remembers of its lease; `claim`,
`renew`, `report` and `reaper` are what a handler has loaded and how far it is. A
handler is one action per point at which another session can get in: each read, each
Redis command and each commit. `ClaimPop`, `ClaimReadJob`, `ClaimReadAttempt`,
`ClaimCommit` are `claim_next_job`, line by line; `RenewRead`, `RenewCommit`,
`MarkRead`, `MarkCommit` are `renew`; `ReportRead`, `ReportReadJob`, `ReportFlush`,
`ReportCommit` are `complete_attempt`; a tick is `ReapDeadScan` to `ReconcileOne`. A
row a session has flushed is `"inserted"`: others do not see it, and wait if they
update what it updated. `OrmWrite` is SQLAlchemy's rule that an attribute set to the
value it was loaded with is not written. Time is a lease, a heartbeat and a backoff
that may lapse at any moment. Some reads of one handler are one action where no
other session can tell: the two queries of `reap_dead_workers`, and the read and the
commit of `heartbeat`.

**LeaseHistory.** The same steps and one more variable, `overtaken`, which no step reads.
A handler looks at a row and then writes a status in a commit that does not look again;
`overtaken` is set when another session has undone what it saw in between. There are
four such commits: `ClaimOvertaken` (the job no longer waits, or the row is not its
latest any more), `MarkOvertaken`, `ReportOvertaken` and `ReapOvertaken` (the attempt is
over).

**Worker.** The one module with a clock: `Tick` is one unit of time, and it waits for
every thread that is due, every request that has used up the client's timeout and a
reaper that is due; a request that is not slow takes no time. `main`, `beat` and
`renewer` are the main thread, the heartbeat thread and the renewal thread of each run;
`row` and `attempt` are what the server keeps of them, with the age of a heartbeat, the
time left of a lease and (`idle`) the time since anybody ran the attempt. `Register`,
`Claim`, `RunEnds`, `Report` are `register`, `_try_claim` with the head of `_execute`,
the end of `run_pipeline` and `_report`; `Beat` and `Renew` the two loops. The server
handles a registration and a claim at once or never, and its answer may be as late as
the client allows: meanwhile the main thread is `joining` or `claimed`, the row gets no
heartbeat and the lease runs, until `RegisterAnswered` and `ClaimAnswered`. A renewal
and a heartbeat may arrive late too, or have a late answer. `ReapDead` and
`ReapLeases` are the two sweeps. `slow` counts requests that were slow, lost or lost
their answer, by thread, so that a property may say which of them it survives.
Handlers are atomic here: LeaseManager has their interleavings and no clock.

**Executor.** One action per call to Docker; processes, the reader thread, the
deadline and the failures are on their own. A `"docker"` fault is a DockerException,
a `"transport"` fault any other exception of a call. The reader thread meets both:
the first it writes to the output, the second ends it, and its `finally` puts the
sentinel in each case, so the executor takes both for an end of the step
(`ReaderEnds`).

**PipelineRun** keeps of it what the caller sees: the exit codes so far and the
result; `ImplementsRun` maps `codes` to `results`.

**LogStream.** A chunk is a number, a log a sequence of them; `append_log` reads,
commits and publishes in three actions.

**Analyzer.** A report's request commits the verdict (`Complete`), then publishes
the status and leaves a background task (`Schedule`), unless Redis refuses the
publication (`PublishFails`). A call reads, inserts (an uncommitted row under a
unique constraint makes others wait), asks the provider, commits or rolls back. The
providers are the sets of what they may answer (`MockTexts`, `AnthropicAnswers`);
`ParseAndValidate` strips the fences, parses and applies the schema, where an answer
that is JSON but no object raises.

**JobQueue.** The clock is read before ZADD; the double's rounding is a multiple of
`Ulp`.

**StatusStream.** A job is a version number; every report counts it up and publishes
it in a second step, other changes are not published. A socket ends in three ways:
it drops (`SocketDrops`, a timer), the page is left, or the server closes it with a
close frame (`Close`: the handler met a Redis error, or the server shuts down),
which is a clean close and sets no timer.

A definition marked (slip) is a wrong version of the one after it. Nothing refers to
it; `PROJECT.json` names the property that tells the two apart.

## 3. Runs and what they show

| Run | Module | Bounds | Shows |
|---|---|---|---|
| `overlapping` | `MCLeaseHistory` | 1 job, 2 workers, 3 rows, 2 attempts allowed, 2 requests in progress, 1 server crash, failed tick or loss of Redis | types and `Consistent`; a waiting job has an unclaimed attempt; the budget; only claims take attempts; and until one of the four commits comes too late: one lease and one holder of a running job, no retry of a permanent failure, every step one of `JobLifecycle` |
| `every_job_ends` | `MCLeaseManager`, fair | 1 job, 2 workers, 4 rows, 1 request at a time, 1 fault of any kind | every job ends or is orphaned, retries are promoted, lapsed leases are handled |
| `worker` | `MCWorker` | 2 rows, 2 attempts, 2 slow requests; in units of 5 s the defaults: heartbeat 1, client timeout 6, lease 12, threshold 6, reaper 1 | a worker whose heartbeats go through stays ONLINE; a run keeps its lease over a late answer to its claim or one slow renewal; ONLINE means heard of; an abandoned attempt ends in time |
| `executor` | `MCExecutor`, fair | 3 steps, 2 faults | `PipelineRun` is implemented, verdicts are right, steps do not overlap, but beside one that may fail after the daemon or its connection was lost, nothing is left behind; a run ends and its container stops, even if the worker dies |
| `log_stream` | `MCLogStream` | 4 chunks, tail of 2, 2 faults of any kind | the stored log is in order and never shrinks, a run of no more chunks than the tail holds ends with all of them stored, a browser sees a part of it, in order |
| `analyzer` | `MCAnalyzer`, fair | 2 attempts, 2 triggers, 1 crash | one analysis per attempt, and a loser of the race lost to a stored analysis; calls end; a reported failure is analysed, from its commit on, unless its request failed after the commit, a call raised or the server died |
| `queue_order` | `MCJobQueue`, fair | 3 jobs, 2 priorities, 2 attempts, clock 0..3, `Ulp` 2 | higher priority first; FIFO up to one `Ulp`; no job starves behind retries |
| `status_stream` | `MCStatusStream`, fair | 3 versions, 2 faults | one socket per page, none after it was left; drops, not clean closes, are followed by a reconnection, a published report by a fetch |
| `finished_attempt_resurrected` | `MCLeaseManager` | violated | a renewal sets a finished attempt RUNNING |
| `permanent_failure_retried` | `MCLeaseManager` | violated | a report and a reaper tick both commit |
| `orphan_stays_queued` | `MCLeaseManager`, fair | violated | reconciliation re-enqueues nothing |
| `timeout_is_permanent` | `MCExecutor` | violated | a step's timeout counts as a real failure |

A violated run checks one sentence of a document or a comment that the code does not
keep; the finding in `PROJECT.json` quotes it. Section 6 lists the others.

**Faults.** A fault is a crash, a lost call, a dropped socket, a failed call to Docker:
the module's `Faults` says which may happen and `MaxFaults` how many. In Executor,
LogStream and StatusStream `faults` records their kinds, so that a property may say
which faults it survives: no log lost unless two posts overlapped after a timeout.
`slow` does the same in Worker for requests, and `overtaken` in LeaseHistory for
commits. Such conditions name what the code does not handle; section 6 has what
happens then.

**Why the bounds are enough.** Two attempts tell a first from a last; in
LeaseManager there is at least one row more than that, so a retry too many is
possible and would be seen. Two workers are two holders of one job. Two requests in
progress give every pair of handlers, the reaper included, in every interleaving;
what is proved holds for any number. Runs have one job: what the theorems say of
each holds for any number of jobs, and jobs share no row but that of their worker,
and the tick. Of `overlapping` the four conditional properties say nothing after a
commit that came too late. It is late only after two handlers have met; all pairs of
them that do not meet so, and all faults, are left in the run. Without the condition
the properties fail, and section 6 says how. In `every_job_ends` a fourth row lets a
job change hands once more than its budget allows. In Worker any two requests may be
slow: a heartbeat and a renewal, a claim and a renewal, two renewals in a row, or a
registration and what follows; a second row is one whose registration's answer was
lost. The unit of five seconds is the interval of heartbeat and reaper, so all
defaults are multiples of it; the theorems have other values. Three steps have a
first, a middle and a last one. Four chunks with a tail of two have chunks outside
the tail. Two triggers and a task are three calls for one attempt: a winner, a loser
and one that comes after. Four moments and a step of two have stamps that are
rounded together and stamps that are not. Two drops are a drop of a socket that was
itself a reconnection. `MaxRows`, `MaxAttempts` and `MaxSlow` of Worker, `Attempts`
(primary keys), `MaxOpen` and `MaxFaults` of LeaseManager, `MaxSteps` and
`MaxFaults` of Executor, `MaxChunks`, `MaxVersion` and `MaxTime` are the bounds;
each is named as such where it is declared.

`CHECK_DEADLOCK FALSE` is set where the system may come to rest: in Analyzer, JobQueue
and StatusStream every call, job or page ends for good; in the violated runs of
LeaseManager the primary keys are used up. All other runs check for deadlock.

## 4. Fairness

- `HandlerFairness`: a request the server has accepted goes on. Threads are
  scheduled, row locks are released at the end of a transaction. Nothing bounds how
  long a handler stands still between two steps.
- `ReaperFairness`: `reaper_loop` sleeps, catches every exception and starts the next
  tick. The start of a tick is strongly fair since a bounded number of requests in
  progress may keep it out for a while, which the code does not.
- `WorkerFairness`: `run_forever` polls, renews and reports in loops of its own.
- `TimePasses`: a silent worker's heartbeat and lease and a backoff lapse in the end.
- Executor: its own calls, the deadline and the container's `sleep` end; processes
  need not.
- Analyzer: tasks start, calls run on, and the provider's call has a timeout.
- LogStream, StatusStream, JobQueue: requests and handlers run on, timers fire, idle
  workers poll. No user action, no change of a job, no end of an attempt is assumed.

Worker states no fairness: it has a clock, and "in time" is a safety property of it.

Liveness of jobs is checked with requests one at a time: with two in progress a retry
may be lost (`ScheduledRetryIsPromoted`, section 6). A server that dies is started again.
Its crash, or a loss of Redis, may orphan a job (`orphan_stays_queued`); `EveryJobEnds`
and `ScheduledRetryIsPromoted` allow that (`LostForGood`), after a fault only, and no
other end. Without these two faults TLC finds no orphan in the 19 thousand states of the
run.

## 5. Proofs

Eight modules hold theorems, one for each module of the system. `LeaseManagerProofs`
proves, for all sets of jobs, workers and attempts, any `MaxAttempts`, any number of
requests in progress and any faults, under the module's assumptions (null values are no
elements; the bounds are naturals):

| Theorem | Property | Says |
|---|---|---|
| `TypeCorrect` | `TypeOK` | types |
| `HandlersStayConsistent` | `Consistent` | what handlers have loaded or flushed fits the tables; with the types, the inductive invariant |
| `QueuedJobsCanBeClaimed` | `QueuedJobHasUnclaimedAttempt` | a QUEUED job has a LEASED attempt without a worker |
| `RetriesStayInBudget` | `RetryBudget` | numbers are reached one lease after the other up to the maximum; ERRORED only after the last |
| `OnlyClaimsTakeAttempts` | `UnclaimedAttemptOnlyClaimed` | nothing but a claim changes a waiting attempt |

The argument. None of these is inductive alone, because handlers act on what they
loaded earlier. `Consistent` says what loaded data is still worth: a row a handler has
loaded is still committed and, except for a claim's, has been leased (`RequestOK`,
`TickOK`); a flushed row is its session's own and the successor of a leased row
(`FlushedOK`); a job status a tick will commit is backed by a flushed retry or by a
row that is out of budget (`TickOK`). It is preserved because committed rows are never
deleted and tokens never go back to null (`RowsKeptStep`), which is the one lemma the
others rest on. From it, `RequeueBringsAttempt` shows that a commit that makes a job
QUEUED makes its retry visible, `UnclaimedIsKept` that stale writes miss waiting
rows (they hold rows that have been leased), `NewRowFollowsLease` and
`GivenUpAfterLastAttempt` that numbers grow by one after a lease.

`LeaseHistoryProofs` proves of `LeaseHistory`, for the same constants, any number of
requests in progress and any faults:

| Theorem | Property | Says, until one of the four commits comes too late |
|---|---|---|
| `OneLeaseWhileRunning` | `OneLeaseUnlessOvertaken` | a job is RUNNING exactly while one of its attempts is leased |
| `PermanentFailuresStay` | `PermanentUnlessOvertaken` | an attempt that failed for good has no successor |
| `RequestsImplementLifecycle` | `LifecycleUnlessOvertaken` | every step of the lease manager is one of `JobLifecycle`, or none |
| `EndedAttemptStays` | `FinalUnlessOvertaken` | an attempt that is over is updated by nobody (README.md:437-439 of the repository) |
| `OneHolder` | `OneHolderUnlessOvertaken` | no two workers hold one job (tests/test_scheduler.py:39-40) |

Each of the five has a counterexample without the condition (section 6), so the condition
is needed; the theorems say that it is enough. Two handlers may read the same rows, flush
and roll back, the server may die in the middle of both, a tick that failed may have put
its retries into Redis, the job may be handed out twice, workers die and leases lapse
while a handler is in progress: none of it does harm but through the commit of a claim,
of `mark_running`, of a report or of a tick whose check has been undone. These are the
four updates that a repair would make conditional on the status they were decided from.

The argument. The invariant is `Steady` as long as nothing was overtaken: `Consistent`
and `InOrder`. Its parts: `RowsInTurn`, that a job's attempts are numbered from 1 on,
each leased before the next was made, and that only the last is active; `ReportKnows`
and `TickKnows`, what a report and a tick have decided from what they loaded, as far as
nobody has ended the attempt since; `LeaseIsOwn`, that the attempt a worker holds has
its name. None of them is inductive alone: that a tick makes one retry of a job rests on
the numbering, the numbering on a report's row being the last one, and this on the
commit not being too late. `EveryStepMoves` then shows that a step in time does one of
four things to the tables: nothing but a deadline or LEASED to RUNNING (`Quiet`), a job
(`Created`), a lease (`Claimed`), or the end of some attempts with the retries they get
(`Ended`), which a report does to one and a tick to many. Every property of the tables,
and what a handler in progress still knows of them, is proved of the four moves and not
of the thirty-odd actions. For the refinement a grant is a leased attempt: the numbers
of a job's leased attempts are 1 to their count (`GrantsAreNumbers`), so a claim adds
one to it, and being out of numbers is having had `MaxAttempts` grants.

`WorkerProofs` proves of `Worker`, for all values of the six times and bounds, any
number of registrations, attempts and slow requests:

| Theorem | Property | Assumes | Says |
|---|---|---|---|
| `TypeCorrect` | `TypeOK` | | types |
| `OnlineWorkersAreHeard` | `OnlineMeansHeard` | | a row that is ONLINE was heard of within the threshold and a turn of the reaper |
| `AbandonedAttemptsEnd` | `AbandonedAttemptEnds` | | an attempt nobody runs ends within lease, client timeout and a turn of the reaper |
| `PunctualWorkersStayOnline` | `PunctualWorkerIsOnline` | `Patient`: `HeartbeatInterval` and `RequestTimeout` are at most `DeadAfter` | a worker whose heartbeats go through is never marked dead |
| `RunsKeepTheirLeases` | `RunKeepsItsLease` | `Patient` and `Timely`: `2 * HeartbeatInterval + RequestTimeout <= LeaseSeconds` | a run keeps its lease over a late answer to its claim, or one slow renewal |

The argument. A bound on an age is inductive only together with the timer that ends it.
`Threads` says which threads there are in which state of the main thread, `InTurn` that
a later attempt starts when the one before has ended. `ReaperOnTime` adds to an age the
time until the reaper wakes up, and knows that between its two sweeps it has seen every
row; `LeaseOutlivesRun` adds to the time since the run what the lease has left or, when
a renewal is on its way, what its timeout has left. `BeatOnTime` and `LeaseInHand` do
the same for the worker's own timers: what is left of the lease minus what is left of
the pause or of the request under way, the claim's included (`Coming`: the lease of a
claim that is not answered yet runs already, and the first renewal is sent only after
the answer). The timeout is at most the threshold since a row whose registration is not
answered yet gets no heartbeat. The two assumptions are what the defaults (5, 30
and 60 seconds) keep; a change of `HEARTBEAT_INTERVAL` or of the settings that breaks
one breaks the theorem, and no unit test sees it, since the values are in two programs.

`ExecutorProofs` proves of `Executor`, for any number of steps and faults:

| Theorem | Property | Says |
|---|---|---|
| `TypeCorrect` | `TypeOK` | types, and `InPlace` |
| `SuccessIsEarned` | `SuccessMeansStepsPassed` | success means that each step ended with 0 in the container, or may fail |
| `FailuresArePermanent` | `RealFailureIsPermanent` | a step that failed is never retried |
| `UndisturbedRunsCleanUp` | `NothingLeftBehind` | without faults the container is gone and no process runs |
| `StepsDoNotOverlap` | `StepsRunOneAtATime` | one step at a time; but beside a step that may fail, once a call to the daemon or the connection to it was lost |
| `ExecutorImplementsRun` | `ImplementsRun` | every step of the executor is one of `PipelineRun`, or none |

The argument. `InPlace` ties the call the executor is at to the step and to the number of
exit codes recorded; with it alone the refinement holds, since the caller sees nothing
of the container. The verdicts need `OneByOne`, that steps before the current one have
passed (or may fail) and those after it were not started, and `Judged`, what a result
that is on its way through `finally` says of the step the run stopped at. `Move` sums up
what any step of the system may change, so that each of them is preserved by one case
instead of thirteen. `NoneLeftRunning` is the reason why steps do not overlap while the
daemon and the connection are sound (`DaemonLost` is false): a process is left behind
only by a time-out, and then the head of the loop starts no other. After a loss, in the
reader thread too, a process may run on, but a missing exit code counts as 1
(`OneByOne`): the run goes on only past a step that may fail.

The other four proof modules prove, for any number of attempts, chunks, jobs, changes
and faults, and each with the types of its module (`TypeCorrect`):

| Theorem | Property | Assumes | Says |
|---|---|---|---|
| `LogIsInOrder` | `LogStream!StoredInOrder` | no post has timed out | the stored log is what the worker wrote, in order with gaps, and the tail |
| `BrowsersShowTheLog` | `LogStream!ShownIsStored` | the same | a browser shows what is stored, in order |
| `LogOnlyGrows` | `LogStream!NothingErased` | the same | what is stored stays |
| `AnalysesAreUnique` | `Analyzer!OneAnalysisPerAttempt` | | one analysis per attempt; a refused call lost to a committed one |
| `QueueKeepsOrder` | `JobQueue!PoppedInOrder` | `MaxTime + 2 * Ulp < Base` | higher priority first, always; FIFO up to one step |
| `OneSocketAtMost` | `StatusStream!OneSocket` | | one socket at most, none on a page that was left |

`LogStream`: as long as no post has timed out, `InTurn` says that at most one request is
at work and that the log it has read is the one that is stored, so its commit only adds
to it (`Adds`, `AddsTail` in the proof); `NoneAhead` says that everything before the
tail is older than the chunk on its way. The condition is part of the properties, since
without it they are false (section 6). `Analyzer`: `OneRow` follows the unique constraint
through the flush: a call that has inserted excludes any other row of its attempt, on its
way or committed. `JobQueue`: rounding moves a time by half a step at most, two
priorities differ by a `Base` or more, and an entry has the score of its stamp
(`Scored`), so no rounding can lift a job over a priority. `StatusStream`: `OneSocket` is
inductive as it stands; every action opens a socket when there is none, in the place
of the timer, or closes one: by a drop, by the server or because the page is left.

Only model-checked: liveness, and the counterexamples. Liveness under fairness is out of
the prover's reach. Every invariant and every action property of the passing runs is the
statement of a theorem, `RunKeepsItsLease` and `PunctualWorkerIsOnline` for times that
fit.

## 6. What the code does not keep

Four sentences have a run: a finished attempt goes back to RUNNING and is then retried
(scheduler/lease_manager.py:108), a permanent failure is retried (:126), an orphaned job
is never re-enqueued (:292), and a timeout is permanent (worker/docker_executor.py:181).

The modules state more of them, each quoted above its definition. No run of the list keeps
these; TLC violates each with the constants given here (those not given are as in
`overlapping` with four rows, or as in the module's passing run) and
`CHECK_DEADLOCK FALSE` where a passing run of the module has it.

| Property | Specification, constants | What happens |
|---|---|---|
| `NoTwoWorkersHoldAJob` (of `LeaseManager`, like the next six) | Spec, `MaxOpen = 2`, no fault | a report and a tick that has read the same attempt commit a retry each, both are queued and both are claimed; or, with a `"server"` fault, a delayed entry outlives the commit that wrote it and its job is handed out twice |
| `RunningJobHasOneLease` | Spec, `MaxOpen = 2`, no fault | `mark_running` has read the attempt before a report ends it and writes RUNNING after it: the job is over and leased |
| `ImplementsLifecycle` | Spec, `MaxOpen = 2`, no fault | a report and a tick end the same attempt; the one that commits second moves a job that is no longer RUNNING |
| `RetryWaitsForBackoff` | Spec, `MaxOpen = 1`, one `"server"` fault | such an entry becomes due and lets the next retry be claimed at once |
| `ScheduledRetryIsPromoted` | FairSpec, `MaxOpen = 2`, no fault | a promotion removes the entry of a newer retry |
| `DeadWorkerDoesNotRenew` | Spec, `MaxOpen = 2`, one `"network"` fault | a DEAD worker's expired lease is renewed |
| `ReapedWorkerIsSilent` | Spec, `MaxOpen = 1`, one `"network"` fault | an attempt is reaped from an ONLINE worker |
| `PermanentMeansStepFailed` | Spec, 1 step, one `"docker"` fault | a lost call to the daemon counts as a failure of the step |
| `StepsRunOneAtATime` without its exception | Spec, 2 steps, one `"docker"` or one `"transport"` fault | a lost log stream lets the next step start beside one that may fail and still runs |
| `FullLogOnCompletion` | Spec, 3 chunks, tail of 2, one `"lost"` fault | the report carries the last chunks only |
| `ViewerMissesNothing` | Spec, 1 chunk, no fault | a chunk is published between snapshot and subscription |
| `TerminalLogIsFinal` | Spec, 1 chunk, one `"reaped"` fault | a late report writes to a reaped attempt's log, then is refused |
| `NothingErased` without its condition | Spec, 2 chunks, one `"timeout"` fault | overlapping posts overwrite each other |
| `LogViewReconnects` | FairSpec, 2 chunks, one `"dropped"` fault | log views do not reconnect |
| `NeverRaises` | Spec, 1 attempt, 1 trigger, `Provider = "mock"` | the loser of the race gets an IntegrityError |
| `BadAnswerIsStored` | Spec, 1 attempt, no trigger | an answer that is JSON but no object raises a TypeError |
| `EveryFailureIsAnalysed` | FairSpec, 1 attempt, no trigger, `Provider = "mock"` | reaped attempts are not analysed |
| `RetriggerAsksAgain` | Spec, 1 attempt, 1 trigger, `Provider = "unconfigured"` | the second trigger asks nobody |
| `EqualPriorityFIFO` | Spec, 2 jobs, priority 1, `Ulp = 4`, clock 0..5 | equal scores are ordered by job id |
| `ReportIsShown` | FairSpec, no fault | a report before the subscription, or an older answer that arrives later |
| `DisconnectIsNoticed` | FairSpec, 2 versions, one `"left"` fault | a handler whose browser is gone polls until the next message |
| `UnexpectedCloseReconnects` | FairSpec, 1 version, one `"closed"` fault | a clean close by the server is taken for the page's own: the page does not reconnect |
| `RunKeepsItsLease` with one slow claim and one slow renewal | Spec, as in `worker` | 30 seconds until the claim is answered and 30 more for the renewal: the lease of 60 is used up |
| `RunKeepsItsLease`, `PunctualWorkerIsOnline` with one slow heartbeat | Spec, as in `worker` | the worker is marked DEAD while the heartbeat hangs, and its lease is ended with it |
| `LeaseLapsesFirst` | Spec, as in `worker` | with a lease of 60 and a threshold of 30 seconds a silent worker's lease is cut short by the threshold, not the other way round |

Met on the way and known to the authors: README.md:445-448 and 494-497 of the repository
admit that pop and claim are not atomic and that Pub/Sub loses messages. Its lines
507-510 describe the analysis as part of `/complete`, while the code runs it as a
background task.

`NoTwoWorkersHoldAJob`, `RunningJobHasOneLease` and `ImplementsLifecycle`, and the
sentences of the runs `finished_attempt_resurrected` and `permanent_failure_retried`,
hold until a commit of `LeaseHistory` is overtaken (`LeaseHistoryProofs`). Requests
served one at a time, as the unit tests call them, overtake none: with `MaxOpen = 1`, 1
job, 4 rows and 2 faults of any kind TLC finds `overtaken` FALSE in all 68 thousand
states.

## 7. Plan

Done: the modules above, in the order of the table, the most important behaviour
first; all with theorems, two with an abstract specification. Left:

1. An abstract specification of the log (what the worker produced, with gaps) for
   `LogStream` and of the queue (a priority queue) for `JobQueue`, each shown to be
   implemented.
2. Larger compositions: `LogStream` across a re-lease, with the handlers of
   `LeaseManager` (its `Reap` stands for them now); `Executor` under `Worker`, with a
   container that goes on while the job is leased again.

## 8. Not modelled

- `api/projects.py`, the lists and queries of `api/jobs.py`: rows written and read as
  they are; nothing depends on an order. `api/webhooks.py` is a job creation
  (`LeaseManager`) behind a signature check and a filter of its input; it reads the
  project before it awaits the body.
- `pipeline.py`'s parsing (its outcome is an input of `Worker` and `Executor`),
  `ai/context_extractor.py`, the prompt and the wording of the mock's rules: functions
  of text. `analyze_attempt` is never called with a checkout path.
- `git clone` in `_checkout`: it fails or not, as an input of `Executor`.
- In `Worker`: a request the client has given up on reaches the server no more
  (`LeaseManager` lets it); httpx's timeouts of connect, write and read are one bound;
  clocks of server and database do not drift, the granularity is the unit.
- In `LeaseManager`: PostgreSQL's locks on several rows and its abort of one of two
  transactions that wait for each other. A session waits for one row that another has
  flushed.
- Docker, PostgreSQL, Redis and browsers are modelled as far as the code relies on
  them, and marked external.
- Rendering and polling of the other dashboard pages; configuration and start-up.
- More than one server process: compose starts one, and two reapers would be new
  behaviour.
