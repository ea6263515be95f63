---------------------------- MODULE LeaseManager ----------------------------
(***************************************************************************)
(* The lease and retry protocol of the CI server: job creation, claims,    *)
(* lease renewal, completion reports, delayed retries and the reaper       *)
(* (scheduler/lease_manager.py, scheduler/scheduler.py,                    *)
(* scheduler/job_manager.py, with the HTTP handlers of api/workers.py and  *)
(* api/attempts.py and the worker process of worker/worker.py that calls   *)
(* them).                                                                  *)
(*                                                                         *)
(* FastAPI runs every synchronous handler in a thread of its own, each     *)
(* with its own SQLAlchemy session, and nothing locks a row while it is    *)
(* read.  A handler is therefore several actions, split where another      *)
(* session can get in: at each database read, at each Redis command and at *)
(* the commit.  What a handler has loaded lives in its request slot        *)
(* (claim, renew, report, reaper).  MaxOpen = 1 serves one request at a    *)
(* time, which is how the unit tests drive the same functions.             *)
(*                                                                         *)
(* A definition marked (slip) is a wrong version of the one after it, kept *)
(* to show that a property tells the two apart; nothing refers to it.      *)
(***************************************************************************)
EXTENDS Naturals, FiniteSets

CONSTANTS
    Jobs,         \* jobs that may be triggered
    Workers,      \* worker registrations (a restarted process is a new one)
    Attempts,     \* primary keys of the job_attempts table
    MaxAttempts,  \* settings.max_job_attempts
    MaxOpen,      \* bound: requests (and reaper ticks) in progress at the same time
    Faults,       \* the kinds of fault that may happen
    MaxFaults     \* bound: faults per behaviour

FaultKinds == {"server", "redis", "reaper", "worker", "network"}

NoJob == "no job"
NoRow == "no row"
NoWorker == "no worker"

ASSUME NullAssumption == NoJob \notin Jobs /\ NoRow \notin Attempts /\ NoWorker \notin Workers
ASSUME MaxAttemptsAssumption == MaxAttempts \in Nat \ {0}
ASSUME MaxOpenAssumption == MaxOpen \in Nat \ {0}
ASSUME FaultsAssumption == Faults \subseteq FaultKinds /\ MaxFaults \in Nat

VARIABLES
    job,       \* job[j]: the status column of table jobs
    attempt,   \* attempt[a]: a row of table job_attempts
    worker,    \* worker[w]: a row of table workers, and whether w's process runs
    queue,     \* members of the sorted set ci:queue
    delayed,   \* delayed[j]: j's member of the sorted set ci:delayed_queue
    creating,  \* jobs committed by create_and_enqueue_job, not yet enqueued
    hold,      \* hold[w]: the lease worker w believes it has
    claim,     \* claim[w], renew[w], report[w]: w's request in the server
    renew,
    report,
    reaper,    \* the reaper tick
    tokens,    \* lease tokens generated so far
    faults     \* faults so far

vars == <<job, attempt, worker, queue, delayed, creating, hold, claim, renew,
          report, reaper, tokens, faults>>
server == <<claim, renew, report, reaper>>
env == <<tokens, faults>>

(***************************************************************************)
(* Tables                                                                  *)
(***************************************************************************)
JobStatus == {"QUEUED", "RUNNING", "SUCCEEDED", "FAILED", "ERRORED"}
Terminal == {"SUCCEEDED", "FAILED", "ERRORED"}
Active == {"LEASED", "RUNNING"}
Over == {"SUCCEEDED", "FAILED", "INFRA_ERROR"}
AttemptStatus == Active \cup {"SUCCEEDED", "FAILED", "INFRA_ERROR"}
Verdict == {"ok", "permanent", "infra"}

\* A row a transaction has flushed but not committed is "inserted": it has its
\* primary key, and no other session sees it.
Row == [job : Jobs \cup {NoJob}, number : Nat,
        status : AttemptStatus \cup {"absent", "inserted"},
        worker : Workers \cup {NoWorker}, token : Nat,
        lease : {"null", "valid", "expired"}, verdict : Verdict \cup {"null"}]

EmptyRow == [job |-> NoJob, number |-> 0, status |-> "absent", worker |-> NoWorker,
             token |-> 0, lease |-> "null", verdict |-> "null"]

\* models.JobAttempt(job_id, attempt_number, status=LEASED): worker_id,
\* lease_token (0 here) and lease_expires_at are NULL until a claim.
NewRow(j, n, s) == [EmptyRow EXCEPT !.job = j, !.number = n, !.status = s]

RowsOf(j) == {a \in Attempts : attempt[a].job = j /\ attempt[a].status \in AttemptStatus}
ActiveRows(j) == {a \in RowsOf(j) : attempt[a].status \in Active}
\* (slip: the attempts in the other order)
EarliestRows(j) == {a \in RowsOf(j) : \A b \in RowsOf(j) : attempt[a].number <= attempt[b].number}
LatestRows(j) == {a \in RowsOf(j) : \A b \in RowsOf(j) : attempt[b].number <= attempt[a].number}
Unclaimed(a) == attempt[a].status = "LEASED" /\ attempt[a].token = 0
FreeIds == {a \in Attempts : attempt[a].status = "absent"}
FreshId == CHOOSE a \in FreeIds : TRUE

\* (slip: one retry more than the budget)
RetryableOnceMore(a) == attempt[a].number <= MaxAttempts
Retryable(a) == attempt[a].number < MaxAttempts

\* A flush puts only the attributes in its UPDATE whose value differs from the
\* one the session loaded.
OrmWrite(loaded, new, current) == IF new = loaded THEN current ELSE new

(***************************************************************************)
(* Request slots                                                           *)
(***************************************************************************)
NoLease == [row |-> NoRow, token |-> 0]
NoClaim == [pc |-> "idle", job |-> NoJob, row |-> NoRow, seen |-> "absent"]
NoRenew == [pc |-> "idle", row |-> NoRow, token |-> 0, seen |-> "absent"]
NoReport == [pc |-> "idle", row |-> NoRow, verdict |-> "ok", seen |-> "absent", new |-> NoRow]
NoTick == [pc |-> "idle", stale |-> {}, rows |-> {}, done |-> {}, flushed |-> {},
           new |-> {}, seen |-> [j \in Jobs |-> "absent"], dirty |-> {}, jobs |-> {},
           entry |-> NoJob]

Open == Cardinality(creating) + Cardinality({w \in Workers : claim[w].pc # "idle"})
        + Cardinality({w \in Workers : renew[w].pc # "idle"})
        + Cardinality({w \in Workers : report[w].pc # "idle"})
        + (IF reaper.pc = "idle" THEN 0 ELSE 1)
MayStart == Open < MaxOpen

\* Rows and jobs an open transaction has flushed an UPDATE of: another session
\* that writes them waits for that transaction to end.
ReportLocksRow(a) == \E w \in Workers : report[w].pc = "flushed" /\ report[w].row = a
ReportLocksJob(j) == \E w \in Workers : /\ report[w].pc = "flushed"
                                        /\ attempt[report[w].row].job = j
                                        /\ report[w].seen # "QUEUED"
ReaperLocksRow(a) == a \in reaper.flushed
ReaperLocksJob(j) == j \in reaper.dirty /\ \E a \in reaper.flushed : attempt[a].job = j
RowLocked(a) == ReportLocksRow(a) \/ ReaperLocksRow(a)
JobLocked(j) == ReportLocksJob(j) \/ ReaperLocksJob(j)

Init == /\ job = [j \in Jobs |-> "absent"]
        /\ attempt = [a \in Attempts |-> EmptyRow]
        /\ worker = [w \in Workers |-> [status |-> "absent", beat |-> "fresh", up |-> TRUE]]
        /\ queue = {}
        /\ delayed = [j \in Jobs |-> "none"]
        /\ creating = {}
        /\ hold = [w \in Workers |-> NoLease]
        /\ claim = [w \in Workers |-> NoClaim]
        /\ renew = [w \in Workers |-> NoRenew]
        /\ report = [w \in Workers |-> NoReport]
        /\ reaper = NoTick
        /\ tokens = 0
        /\ faults = 0

Fault(kind) == kind \in Faults /\ faults < MaxFaults /\ faults' = faults + 1

-----------------------------------------------------------------------------
(* create_and_enqueue_job: the job and its first attempt are one commit,    *)
(* the Redis entry is written after it.                                     *)

CreateJob(j) ==
    /\ MayStart
    /\ job[j] = "absent"
    /\ FreeIds # {}
    /\ job' = [job EXCEPT ![j] = "QUEUED"]
    /\ attempt' = [attempt EXCEPT ![FreshId] = NewRow(j, 1, "LEASED")]
    /\ creating' = creating \cup {j}
    /\ UNCHANGED <<worker, queue, delayed, hold, server, env>>

EnqueueCreated(j) ==
    /\ j \in creating
    /\ creating' = creating \ {j}
    /\ queue' = queue \cup {j}
    /\ UNCHANGED <<job, attempt, worker, delayed, hold, server, env>>

-----------------------------------------------------------------------------
(* claim_next_job.  An empty queue, a worker that is not ONLINE and a       *)
(* worker unknown to the server change nothing.                             *)

ClaimPop(w) ==
    /\ MayStart
    /\ worker[w].up /\ hold[w] = NoLease
    /\ claim[w].pc = "idle" /\ report[w].pc = "idle"
    /\ worker[w].status = "ONLINE"
    /\ \E j \in queue :
          /\ queue' = queue \ {j}
          /\ claim' = [claim EXCEPT ![w].pc = "popped", ![w].job = j]
    /\ UNCHANGED <<job, attempt, worker, delayed, creating, hold, renew, report, reaper, env>>

\* db.get(Job, job_id): a job that is not QUEUED is dropped.
ClaimReadJob(w) ==
    /\ claim[w].pc = "popped"
    /\ claim' = [claim EXCEPT ![w] = IF job[claim[w].job] = "QUEUED"
                                    THEN [@ EXCEPT !.pc = "jobRead"] ELSE NoClaim]
    /\ UNCHANGED <<job, attempt, worker, queue, delayed, creating, hold, renew, report, reaper, env>>

\* The row with the highest attempt_number.  There always is one: a job and its
\* first attempt are committed together, and rows are never deleted.
ClaimReadAttempt(w) ==
    /\ claim[w].pc = "jobRead"
    /\ \E a \in LatestRows(claim[w].job) :
          claim' = [claim EXCEPT ![w].pc = "read", ![w].row = a, ![w].seen = attempt[a].status]
    /\ UNCHANGED <<job, attempt, worker, queue, delayed, creating, hold, renew, report, reaper, env>>

\* (slip: the job is left QUEUED)
ClaimCommitOfRow(w) ==
    LET a == claim[w].row IN
    /\ claim[w].pc = "read"
    /\ ~RowLocked(a)
    /\ tokens' = tokens + 1
    /\ attempt' = [attempt EXCEPT ![a].worker = w, ![a].token = tokens + 1, ![a].lease = "valid",
                                  ![a].status = OrmWrite(claim[w].seen, "LEASED", @)]
    /\ claim' = [claim EXCEPT ![w].pc = "committed"]
    /\ UNCHANGED <<job, worker, queue, delayed, creating, hold, renew, report, reaper, faults>>

ClaimCommit(w) ==
    LET a == claim[w].row  j == claim[w].job IN
    /\ claim[w].pc = "read"
    /\ ~RowLocked(a) /\ ~JobLocked(j)
    /\ tokens' = tokens + 1
    /\ attempt' = [attempt EXCEPT ![a].worker = w, ![a].token = tokens + 1, ![a].lease = "valid",
                                  ![a].status = OrmWrite(claim[w].seen, "LEASED", @)]
    /\ job' = [job EXCEPT ![j] = "RUNNING"]
    /\ claim' = [claim EXCEPT ![w].pc = "committed"]
    /\ UNCHANGED <<worker, queue, delayed, creating, hold, renew, report, reaper, faults>>

\* db.refresh(attempt): the token in the response is read again.
ClaimRespond(w) ==
    /\ claim[w].pc = "committed"
    /\ claim' = [claim EXCEPT ![w] = NoClaim]
    /\ hold' = [hold EXCEPT ![w] = IF worker[w].up
                                  THEN [row |-> claim[w].row, token |-> attempt[claim[w].row].token]
                                  ELSE NoLease]
    /\ UNCHANGED <<job, attempt, worker, queue, delayed, creating, renew, report, reaper, env>>

-----------------------------------------------------------------------------
(* POST /renew: renew_lease, its commit, then mark_running, which looks at  *)
(* the token only.  A refused renewal changes nothing, on either side: the  *)
(* worker does not read the response.                                       *)

Renewable(a, token) == attempt[a].token = token /\ attempt[a].status \in Active

RenewRead(w) ==
    LET a == hold[w].row IN
    /\ MayStart
    /\ worker[w].up /\ hold[w] # NoLease /\ renew[w].pc = "idle"
    /\ Renewable(a, hold[w].token)
    /\ renew' = [renew EXCEPT ![w] = [pc |-> "read", row |-> a, token |-> hold[w].token,
                                     seen |-> "absent"]]
    /\ UNCHANGED <<job, attempt, worker, queue, delayed, creating, hold, claim, report, reaper, env>>

RenewCommit(w) ==
    /\ renew[w].pc = "read"
    /\ ~RowLocked(renew[w].row)
    /\ attempt' = [attempt EXCEPT ![renew[w].row].lease = "valid"]
    /\ renew' = [renew EXCEPT ![w].pc = "renewed"]
    /\ UNCHANGED <<job, worker, queue, delayed, creating, hold, claim, report, reaper, env>>

MarkRead(w) ==
    LET a == renew[w].row IN
    /\ renew[w].pc = "renewed"
    /\ renew' = [renew EXCEPT ![w] =
                    IF attempt[a].token = @.token /\ attempt[a].status # "RUNNING"
                    THEN [@ EXCEPT !.pc = "marking", !.seen = attempt[a].status] ELSE NoRenew]
    /\ UNCHANGED <<job, attempt, worker, queue, delayed, creating, hold, claim, report, reaper, env>>

MarkCommit(w) ==
    LET a == renew[w].row IN
    /\ renew[w].pc = "marking"
    /\ ~RowLocked(a)
    /\ attempt' = [attempt EXCEPT ![a].status = OrmWrite(renew[w].seen, "RUNNING", @)]
    /\ renew' = [renew EXCEPT ![w] = NoRenew]
    /\ UNCHANGED <<job, worker, queue, delayed, creating, hold, claim, report, reaper, env>>

-----------------------------------------------------------------------------
(* Worker._report and complete_attempt.                                     *)

\* The report is sent, whatever the pipeline's result is, and the worker goes
\* on to claim again once it is answered.  A report the server refuses (another
\* token, an attempt that is not active, a lapsed lease) changes nothing there.
ReportRead(w, v) ==
    LET a == hold[w].row IN
    /\ MayStart
    /\ worker[w].up /\ hold[w] # NoLease /\ report[w].pc = "idle"
    /\ hold' = [hold EXCEPT ![w] = NoLease]
    /\ report' = [report EXCEPT ![w] =
                     IF /\ attempt[a].token = hold[w].token
                        /\ attempt[a].status \in Active
                        /\ attempt[a].lease = "valid"
                     THEN [NoReport EXCEPT !.pc = "accepted", !.row = a, !.verdict = v]
                     ELSE NoReport]
    /\ UNCHANGED <<job, attempt, worker, queue, delayed, creating, claim, renew, reaper, env>>

\* db.get(Job, attempt.job_id)
ReportReadJob(w) ==
    /\ report[w].pc = "accepted"
    /\ report' = [report EXCEPT ![w].pc = "read", ![w].seen = job[attempt[report[w].row].job]]
    /\ UNCHANGED <<job, attempt, worker, queue, delayed, creating, hold, claim, renew, reaper, env>>

\* httpx.HTTPError in _report: logged, never sent again.  A claim whose response
\* is lost comes to the same thing: the worker has no use for the lease.
ReportLost(w) ==
    /\ Fault("network")
    /\ worker[w].up /\ hold[w] # NoLease /\ report[w].pc = "idle"
    /\ hold' = [hold EXCEPT ![w] = NoLease]
    /\ UNCHANGED <<job, attempt, worker, queue, delayed, creating, server, tokens>>

\* (slip: a test failure retried as well)
RetriesAnyFailure(w) == report[w].verdict # "ok" /\ Retryable(report[w].row)
Retries(w) == report[w].verdict = "infra" /\ Retryable(report[w].row)

\* _maybe_retry: the next attempt is flushed and the delayed entry written to
\* Redis before the caller's commit.
ReportFlush(w) ==
    LET a == report[w].row  j == attempt[a].job IN
    /\ report[w].pc = "read"
    /\ Retries(w)
    /\ FreeIds # {}
    /\ ~RowLocked(a) /\ (report[w].seen # "QUEUED" => ~JobLocked(j))
    /\ attempt' = [attempt EXCEPT ![FreshId] = NewRow(j, attempt[a].number + 1, "inserted")]
    /\ report' = [report EXCEPT ![w].pc = "flushed", ![w].new = FreshId]
    /\ delayed' = [delayed EXCEPT ![j] = "waiting"]
    /\ UNCHANGED <<job, worker, queue, creating, hold, claim, renew, reaper, env>>

\* The statuses complete_attempt leaves behind: the attempt's, and the job's.
\* (slip: the status of the job written to the attempt)
AttemptVerdictOfJob(v) == CASE v = "ok" -> "SUCCEEDED" [] v = "permanent" -> "FAILED" [] v = "infra" -> "ERRORED"
AttemptVerdict(v) == CASE v = "ok" -> "SUCCEEDED" [] v = "permanent" -> "FAILED" [] v = "infra" -> "INFRA_ERROR"
\* (slip: a job that will be retried is left as it is)
JobVerdictKept(v, retry) == CASE v = "ok" -> "SUCCEEDED" [] v = "permanent" -> "FAILED"
                              [] v = "infra" -> IF retry THEN "RUNNING" ELSE "ERRORED"
\* (slip: requeued with the budget exhausted)
JobVerdictRequeues(v, retry) == CASE v = "ok" -> "SUCCEEDED" [] v = "permanent" -> "FAILED" [] v = "infra" -> "QUEUED"
JobVerdict(v, retry) == CASE v = "ok" -> "SUCCEEDED" [] v = "permanent" -> "FAILED"
                          [] v = "infra" -> IF retry THEN "QUEUED" ELSE "ERRORED"

ReportCommit(w) ==
    LET a == report[w].row  j == attempt[a].job  v == report[w].verdict IN
    /\ \/ report[w].pc = "flushed"
       \/ report[w].pc = "read" /\ ~Retries(w) /\ ~RowLocked(a) /\ ~JobLocked(j)
    /\ attempt' = [b \in Attempts |->
         CASE b = a -> [attempt[a] EXCEPT !.status = AttemptVerdict(v), !.verdict = v]
           [] b = report[w].new -> [attempt[b] EXCEPT !.status = "LEASED"]
           [] OTHER -> attempt[b]]
    /\ job' = [job EXCEPT ![j] = OrmWrite(report[w].seen, JobVerdict(v, Retries(w)), @)]
    /\ report' = [report EXCEPT ![w] = NoReport]
    /\ UNCHANGED <<worker, queue, delayed, creating, hold, claim, renew, reaper, env>>

-----------------------------------------------------------------------------
(* run_reaper_once: one session, four passes in this order.                 *)

\* reap_dead_workers: ONLINE workers with a stale heartbeat, and their attempts.
ReapDeadScan ==
    LET stale == {w \in Workers : worker[w].status = "ONLINE" /\ worker[w].beat = "stale"} IN
    /\ MayStart
    /\ reaper.pc = "idle"
    /\ reaper' = IF stale = {} THEN [reaper EXCEPT !.pc = "leases"]
                 ELSE [reaper EXCEPT !.pc = "dead", !.stale = stale,
                         !.rows = {a \in Attempts : /\ attempt[a].status \in Active
                                                    /\ attempt[a].worker \in stale}]
    /\ UNCHANGED <<job, attempt, worker, queue, delayed, creating, hold, claim, renew, report, env>>

ReapDeadCommit ==
    /\ reaper.pc = "dead"
    /\ \A a \in reaper.rows : ~RowLocked(a)
    /\ worker' = [w \in Workers |-> IF w \in reaper.stale THEN [worker[w] EXCEPT !.status = "DEAD"]
                                    ELSE worker[w]]
    /\ attempt' = [a \in Attempts |-> IF a \in reaper.rows THEN [attempt[a] EXCEPT !.lease = "expired"]
                                      ELSE attempt[a]]
    /\ reaper' = [NoTick EXCEPT !.pc = "leases"]
    /\ UNCHANGED <<job, queue, delayed, creating, hold, claim, renew, report, env>>

\* reap_expired_leases: lease_expires_at < now() is not true of NULL.
\* (slip: a missing deadline taken for an expired one)
LapsedOrNull(a) == attempt[a].status \in Active /\ attempt[a].lease # "valid"
Lapsed(a) == attempt[a].status \in Active /\ attempt[a].lease = "expired"
\* (slip: leases of workers that are still ONLINE are left alone)
ExpiredOfDeadWorkers == {a \in Attempts : Lapsed(a) /\ worker[attempt[a].worker].status = "DEAD"}
\* (slip: attempts that never got to RUNNING are left alone)
ExpiredRunning == {a \in Attempts : Lapsed(a) /\ attempt[a].status = "RUNNING"}
Expired == {a \in Attempts : Lapsed(a)}

ReapScan ==
    /\ reaper.pc = "leases"
    /\ reaper' = IF Expired = {} THEN [reaper EXCEPT !.pc = "promote"]
                 ELSE [reaper EXCEPT !.pc = "reaping", !.rows = Expired]
    /\ UNCHANGED <<job, attempt, worker, queue, delayed, creating, hold, claim, renew, report, env>>

\* One turn of the loop.  The session loads a job once and then sees its own
\* writes; a retry flushes everything pending and writes Redis, before the
\* commit that follows the loop.
ReapOne(a) ==
    LET j == attempt[a].job
        loaded == IF reaper.seen[j] = "absent" THEN job[j] ELSE reaper.seen[j]
        status == IF Retryable(a) THEN "QUEUED" ELSE "ERRORED"
        dirty == IF status = loaded THEN reaper.dirty ELSE reaper.dirty \cup {j}
        done == reaper.done \cup {a}
        turn == [reaper EXCEPT !.rows = @ \ {a}, !.done = done, !.seen[j] = status, !.dirty = dirty]
    IN
    /\ reaper.pc = "reaping" /\ a \in reaper.rows
    /\ IF Retryable(a)
       THEN /\ FreeIds # {}
            /\ \A b \in done : ~ReportLocksRow(b)
            /\ \A k \in dirty : ~ReportLocksJob(k)
            /\ attempt' = [attempt EXCEPT ![FreshId] = NewRow(j, attempt[a].number + 1, "inserted")]
            /\ delayed' = [delayed EXCEPT ![j] = "waiting"]
            /\ reaper' = [turn EXCEPT !.new = @ \cup {FreshId}, !.flushed = done]
       ELSE /\ reaper' = turn
            /\ UNCHANGED <<attempt, delayed>>
    /\ UNCHANGED <<job, worker, queue, creating, hold, claim, renew, report, env>>

ReapCommit ==
    /\ reaper.pc = "reaping" /\ reaper.rows = {}
    /\ \A a \in reaper.done : ~ReportLocksRow(a)
    /\ \A j \in reaper.dirty : ~ReportLocksJob(j)
    /\ attempt' = [a \in Attempts |->
         CASE a \in reaper.done -> [attempt[a] EXCEPT !.status = "INFRA_ERROR"]
           [] a \in reaper.new -> [attempt[a] EXCEPT !.status = "LEASED"]
           [] OTHER -> attempt[a]]
    /\ job' = [j \in Jobs |-> IF j \in reaper.dirty THEN reaper.seen[j] ELSE job[j]]
    /\ reaper' = [NoTick EXCEPT !.pc = "promote"]
    /\ UNCHANGED <<worker, queue, delayed, creating, hold, claim, renew, report, env>>

\* promote_delayed_jobs: ZRANGEBYSCORE, then a ZADD and a ZREM for each entry.
\* (slip: entries of jobs with an active attempt, be it unclaimed, are passed over)
ReadyAndFree == {j \in Jobs : delayed[j] = "due" /\ ActiveRows(j) = {}}
Ready == {j \in Jobs : delayed[j] = "due"}

PromoteScan ==
    /\ reaper.pc = "promote"
    /\ reaper' = IF Ready = {} THEN [reaper EXCEPT !.pc = "reconcile"]
                 ELSE [reaper EXCEPT !.pc = "promoting", !.jobs = Ready]
    /\ UNCHANGED <<job, attempt, worker, queue, delayed, creating, hold, claim, renew, report, env>>

PromoteEnqueue(j) ==
    /\ reaper.pc = "promoting" /\ reaper.entry = NoJob /\ j \in reaper.jobs
    /\ queue' = queue \cup {j}
    /\ reaper' = [reaper EXCEPT !.entry = j]
    /\ UNCHANGED <<job, attempt, worker, delayed, creating, hold, claim, renew, report, env>>

PromoteRemove ==
    LET j == reaper.entry  rest == reaper.jobs \ {j} IN
    /\ reaper.pc = "promoting" /\ j # NoJob
    /\ delayed' = [delayed EXCEPT ![j] = "none"]
    /\ reaper' = IF rest = {} THEN [NoTick EXCEPT !.pc = "reconcile"]
                 ELSE [reaper EXCEPT !.entry = NoJob, !.jobs = rest]
    /\ UNCHANGED <<job, attempt, worker, queue, creating, hold, claim, renew, report, env>>

\* reconcile_orphaned_jobs: QUEUED jobs, then for each the query of its active
\* attempts (unclaimed ones included) and the ZADD if there are none.
ReconcileScan ==
    LET queued == {j \in Jobs : job[j] = "QUEUED"} IN
    /\ reaper.pc = "reconcile"
    /\ reaper' = IF queued = {} THEN NoTick
                 ELSE [reaper EXCEPT !.pc = "reconciling", !.jobs = queued]
    /\ UNCHANGED <<job, attempt, worker, queue, delayed, creating, hold, claim, renew, report, env>>

ReconcileOne(j) ==
    LET rest == reaper.jobs \ {j} IN
    /\ reaper.pc = "reconciling" /\ j \in reaper.jobs
    /\ queue' = IF ActiveRows(j) = {} THEN queue \cup {j} ELSE queue
    /\ reaper' = IF rest = {} THEN NoTick ELSE [reaper EXCEPT !.jobs = rest]
    /\ UNCHANGED <<job, attempt, worker, delayed, creating, hold, claim, renew, report, env>>

-----------------------------------------------------------------------------
(* Workers, time and faults.                                                *)

Register(w) ==
    /\ worker[w].status = "absent" /\ worker[w].up
    /\ worker' = [worker EXCEPT ![w].status = "ONLINE"]
    /\ UNCHANGED <<job, attempt, queue, delayed, creating, hold, server, env>>

Heartbeat(w) ==
    /\ worker[w].status # "absent" /\ worker[w].up
    /\ worker' = [worker EXCEPT ![w].beat = "fresh",
                                ![w].status = IF @ = "DEAD" THEN "ONLINE" ELSE @]
    /\ worker' # worker
    /\ UNCHANGED <<job, attempt, queue, delayed, creating, hold, server, env>>

\* worker_dead_after_seconds pass without a heartbeat: the worker is gone, or the
\* network is.
HeartbeatLapses(w) ==
    /\ worker[w].status = "ONLINE" /\ worker[w].beat = "fresh"
    /\ IF worker[w].up THEN Fault("network") ELSE UNCHANGED faults
    /\ worker' = [worker EXCEPT ![w].beat = "stale"]
    /\ UNCHANGED <<job, attempt, queue, delayed, creating, hold, server, tokens>>

\* job_lease_seconds pass without a renewal: no worker holds the lease any more,
\* or its renewals do not arrive.
Abandoned(a) == \A w \in Workers : /\ hold[w].row # a \/ hold[w].token # attempt[a].token
                                   /\ claim[w].pc # "committed" \/ claim[w].row # a

LeaseLapses(a) ==
    /\ attempt[a].lease = "valid" /\ attempt[a].status \in Active
    /\ IF Abandoned(a) THEN UNCHANGED faults ELSE Fault("network")
    /\ attempt' = [attempt EXCEPT ![a].lease = "expired"]
    /\ UNCHANGED <<job, worker, queue, delayed, creating, hold, server, tokens>>

BackoffElapses(j) ==
    /\ delayed[j] = "waiting"
    /\ delayed' = [delayed EXCEPT ![j] = "due"]
    /\ UNCHANGED <<job, attempt, worker, queue, creating, hold, server, env>>

RolledBack(rows) == [a \in Attempts |-> IF a \in rows THEN EmptyRow ELSE attempt[a]]

\* The worker process dies; its requests in the server go on.
WorkerCrash(w) ==
    /\ Fault("worker")
    /\ worker[w].up
    /\ worker' = [worker EXCEPT ![w].up = FALSE]
    /\ hold' = [hold EXCEPT ![w] = NoLease]
    /\ UNCHANGED <<job, attempt, queue, delayed, creating, server, tokens>>

\* The server process dies: open transactions roll back, the requests are gone,
\* Postgres, Redis and the workers stay.
ServerCrash ==
    /\ Fault("server")
    /\ Open > 0
    /\ attempt' = RolledBack({a \in Attempts : attempt[a].status = "inserted"})
    /\ creating' = {}
    /\ claim' = [w \in Workers |-> NoClaim]
    /\ renew' = [w \in Workers |-> NoRenew]
    /\ report' = [w \in Workers |-> NoReport]
    /\ reaper' = NoTick
    /\ UNCHANGED <<job, worker, queue, delayed, hold, tokens>>

\* An exception in the tick (a Redis error, a deadlock victim) is logged by
\* reaper_loop; the session is closed, which rolls back what it flushed.
ReaperAborts ==
    /\ Fault("reaper")
    /\ reaper.pc # "idle"
    /\ attempt' = RolledBack(reaper.new)
    /\ reaper' = NoTick
    /\ UNCHANGED <<job, worker, queue, delayed, creating, hold, claim, renew, report, tokens>>

RedisFlush ==
    /\ Fault("redis")
    /\ queue # {} \/ \E j \in Jobs : delayed[j] # "none"
    /\ queue' = {}
    /\ delayed' = [j \in Jobs |-> "none"]
    /\ UNCHANGED <<job, attempt, worker, creating, hold, server, tokens>>

-----------------------------------------------------------------------------
ClaimSteps(w) == \/ ClaimPop(w) \/ ClaimReadJob(w) \/ ClaimReadAttempt(w)
                 \/ ClaimCommit(w) \/ ClaimRespond(w)
RenewSteps(w) == RenewRead(w) \/ RenewCommit(w) \/ MarkRead(w) \/ MarkCommit(w)
ReportSteps(w) == \/ (\E v \in Verdict : ReportRead(w, v)) \/ ReportReadJob(w)
                  \/ ReportFlush(w) \/ ReportCommit(w)
ReaperSteps == \/ ReapDeadScan \/ ReapDeadCommit
               \/ ReapScan \/ (\E a \in Attempts : ReapOne(a)) \/ ReapCommit
               \/ PromoteScan \/ (\E j \in Jobs : PromoteEnqueue(j)) \/ PromoteRemove
               \/ ReconcileScan \/ (\E j \in Jobs : ReconcileOne(j))
JobSteps(j) == CreateJob(j) \/ EnqueueCreated(j) \/ BackoffElapses(j)
WorkerSteps(w) == \/ Register(w) \/ Heartbeat(w) \/ HeartbeatLapses(w)
                  \/ ReportLost(w) \/ WorkerCrash(w)

Next == \/ \E j \in Jobs : JobSteps(j)
        \/ \E w \in Workers : ClaimSteps(w) \/ RenewSteps(w) \/ ReportSteps(w) \/ WorkerSteps(w)
        \/ \E a \in Attempts : LeaseLapses(a)
        \/ ReaperSteps
        \/ ServerCrash \/ ReaperAborts \/ RedisFlush

Spec == Init /\ [][Next]_vars

(***************************************************************************)
(* Fairness.  A handler that has started runs to its end; Uvicorn's thread *)
(* pool serves waiting requests in order, so one that keeps being possible *)
(* is started in the end (SF); reaper_loop ticks for ever; workers poll,   *)
(* heartbeat and, the executor's steps all having a timeout, report; time  *)
(* passes.  No fault, job creation or renewal has to happen.               *)
(***************************************************************************)
HandlerFairness ==
    /\ \A j \in Jobs : WF_vars(EnqueueCreated(j))
    /\ \A w \in Workers :
         /\ WF_vars(ClaimReadJob(w) \/ ClaimReadAttempt(w) \/ ClaimCommit(w) \/ ClaimRespond(w))
         /\ WF_vars(RenewCommit(w) \/ MarkRead(w) \/ MarkCommit(w))
         /\ WF_vars(ReportReadJob(w) \/ ReportFlush(w) \/ ReportCommit(w))

ReaperFairness == SF_vars(ReapDeadScan) /\ WF_vars(reaper.pc # "idle" /\ ReaperSteps)

WorkerFairness ==
    /\ \A w \in Workers :
         /\ SF_vars(ClaimPop(w)) /\ SF_vars(\E v \in Verdict : ReportRead(w, v))
         /\ WF_vars(Register(w)) /\ WF_vars(Heartbeat(w))

TimePasses ==
    /\ \A j \in Jobs : WF_vars(BackoffElapses(j))
    /\ \A w \in Workers : WF_vars(~worker[w].up /\ HeartbeatLapses(w))
    /\ \A a \in Attempts : WF_vars(Abandoned(a) /\ LeaseLapses(a))

SweepSpec == Spec /\ HandlerFairness /\ ReaperFairness
FairSpec == SweepSpec /\ WorkerFairness /\ TimePasses

-----------------------------------------------------------------------------
(***************************************************************************)
(* Properties of every interleaving                                        *)
(***************************************************************************)
Rows == Attempts \cup {NoRow}
ClaimSlot == [pc : {"idle", "popped", "jobRead", "read", "committed"}, job : Jobs \cup {NoJob},
              row : Rows, seen : AttemptStatus \cup {"absent"}]
RenewSlot == [pc : {"idle", "read", "renewed", "marking"}, row : Rows, token : Nat,
              seen : AttemptStatus \cup {"absent"}]
ReportSlot == [pc : {"idle", "accepted", "read", "flushed"}, row : Rows, verdict : Verdict,
               seen : JobStatus \cup {"absent"}, new : Rows]
Tick == [pc : {"idle", "dead", "leases", "reaping", "promote", "promoting", "reconcile", "reconciling"},
         stale : SUBSET Workers, rows : SUBSET Attempts, done : SUBSET Attempts,
         flushed : SUBSET Attempts, new : SUBSET Attempts,
         seen : [Jobs -> JobStatus \cup {"absent"}], dirty : SUBSET Jobs, jobs : SUBSET Jobs,
         entry : Jobs \cup {NoJob}]

\* The types of the tables, of Redis and of what the handlers have loaded.
TypeOK ==
    /\ job \in [Jobs -> JobStatus \cup {"absent"}]
    /\ attempt \in [Attempts -> Row]
    /\ worker \in [Workers -> [status : {"absent", "ONLINE", "DEAD"}, beat : {"fresh", "stale"},
                               up : BOOLEAN]]
    /\ queue \subseteq Jobs
    /\ delayed \in [Jobs -> {"none", "waiting", "due"}]
    /\ creating \subseteq Jobs
    /\ hold \in [Workers -> [row : Rows, token : Nat]]
    /\ claim \in [Workers -> ClaimSlot]
    /\ renew \in [Workers -> RenewSlot]
    /\ report \in [Workers -> ReportSlot]
    /\ reaper \in Tick
    /\ tokens \in Nat /\ faults \in Nat

\* A job that waits always has an attempt for the worker that will claim it:
\* claim_next_job never has to create one, and never takes over a row that has
\* been leased because the one for the retry is missing.
QueuedJobHasUnclaimedAttempt ==
    \A j \in Jobs : job[j] = "QUEUED" => \E a \in RowsOf(j) : Unclaimed(a)

\* The retry budget: an attempt number is only reached through a lease of the
\* number before it, no number exceeds the maximum, and a job is ERRORED only
\* after its last attempt was leased.  No race of a report with the reaper, or
\* of two claims, skips an attempt or grants one too many numbers.
RetryBudget ==
    \A j \in Jobs :
      /\ \A a \in RowsOf(j) :
           /\ attempt[a].number \in 1..MaxAttempts
           /\ attempt[a].number = 1 \/ \E b \in RowsOf(j) : /\ attempt[b].number = attempt[a].number - 1
                                                         /\ attempt[b].token # 0
      /\ job[j] = "ERRORED" => \E a \in RowsOf(j) : /\ attempt[a].number = MaxAttempts
                                                    /\ attempt[a].token # 0

\* An attempt that waits for its worker is changed by a claim and by nothing
\* else: the reaper, a late report or a late renewal never touches it.
UnclaimedAttemptOnlyClaimed ==
    [][\A a \in Attempts : Unclaimed(a) /\ attempt'[a] # attempt[a] =>
         attempt'[a].token = tokens' /\ tokens' # tokens /\ job'[attempt[a].job] = "RUNNING"]_vars

\* What a handler in progress relies on, whatever the others do: the rows it has
\* loaded are still there and have been leased, the rows it has flushed are its
\* own, and the statuses it is about to commit are backed by those rows.
Committed(a) == a \in Attempts /\ attempt[a].status \in AttemptStatus
WasLeased(a) == Committed(a) /\ attempt[a].token # 0
Successor(n, a) == attempt[n].job = attempt[a].job /\ attempt[n].number = attempt[a].number + 1
Flushed(n) == n \in Attempts /\ attempt[n].status = "inserted"

RowOK(a) ==
    attempt[a].status # "absent" =>
        /\ attempt[a].job \in Jobs
        /\ attempt[a].number \in 1..MaxAttempts
        /\ attempt[a].status = "inserted" => attempt[a].token = 0
        /\ attempt[a].token = 0 => attempt[a].lease = "null" /\ attempt[a].worker = NoWorker

RequestOK(w) ==
    /\ hold[w] # NoLease => WasLeased(hold[w].row)
    /\ claim[w].pc # "idle" => claim[w].job \in Jobs
    /\ claim[w].pc \in {"read", "committed"} =>
          Committed(claim[w].row) /\ attempt[claim[w].row].job = claim[w].job
    /\ claim[w].pc = "committed" => WasLeased(claim[w].row)
    /\ renew[w].pc # "idle" => WasLeased(renew[w].row)
    /\ report[w].pc # "idle" => WasLeased(report[w].row)

RequestsOK == \A w \in Workers : RequestOK(w)

RowsOK == \A a \in Attempts : RowOK(a)

FlushedOK ==
    /\ \A w \in Workers :
         /\ report[w].pc = "flushed" => /\ Retries(w)
                                        /\ Flushed(report[w].new)
                                        /\ Successor(report[w].new, report[w].row)
         /\ report[w].pc # "flushed" => report[w].new = NoRow
         /\ report[w].new \notin reaper.new
    /\ \A v, w \in Workers : v # w /\ report[v].new = report[w].new => report[v].new = NoRow
    /\ \A n \in reaper.new : Flushed(n) /\ \E a \in Attempts : WasLeased(a) /\ Successor(n, a)

TickOK ==
    /\ \A a \in reaper.rows \cup reaper.done : WasLeased(a)
    /\ \A j \in reaper.dirty :
         \/ reaper.seen[j] = "QUEUED" /\ \E n \in reaper.new : attempt[n].job = j
         \/ reaper.seen[j] = "ERRORED" /\ \E a \in reaper.done : attempt[a].job = j /\ ~Retryable(a)

Consistent == RowsOK /\ RequestsOK /\ FlushedOK /\ TickOK

-----------------------------------------------------------------------------
(***************************************************************************)
(* Properties that requests which overlap can break, and how they do:      *)
(* LeaseHistory                                                            *)
(***************************************************************************)
LeasesOf(j) == {a \in ActiveRows(j) : attempt[a].token # 0}

\* A job is RUNNING exactly while one of its attempts is leased: it is never
\* run twice at once, and never left RUNNING with no lease the reaper can find.
RunningJobHasOneLease ==
    \A j \in Jobs : IF job[j] = "RUNNING" THEN \E a \in Attempts : LeasesOf(j) = {a}
                    ELSE LeasesOf(j) = {}

\* A permanent failure is never retried.
PermanentFailureNotRetried ==
    \A a, b \in Attempts : attempt[a].verdict = "permanent" /\ b \in RowsOf(attempt[a].job) =>
                          attempt[b].number <= attempt[a].number

\* The requests implement JobLifecycle: a grant is a leased attempt, and no job is
\* granted, retried or given up out of turn.
Lifecycle == INSTANCE JobLifecycle WITH
    status <- job,
    granted <- [j \in Jobs |-> Cardinality({a \in RowsOf(j) : attempt[a].token # 0})]
ImplementsLifecycle == Lifecycle!Spec

-----------------------------------------------------------------------------
(***************************************************************************)
(* What happens in the end, with requests served one at a time             *)
(***************************************************************************)
\* A job that waits and is nowhere in Redis, nor in a request that will put it there
\* or that has just taken it.
Orphaned(j) == /\ job[j] = "QUEUED" /\ j \notin queue \cup creating /\ delayed[j] = "none"
               /\ \A w \in Workers : claim[w].job # j
\* So it stays, after a fault: no race of requests is excused.
LostForGood(j) == faults > 0 /\ []Orphaned(j)

\* Every job that was triggered ends, whichever worker dies or falls silent, whichever
\* tick fails and wherever the server dies: there is no other way to get stuck than
\* to be orphaned (by a crash or a loss of Redis, see OrphanedJobIsRequeued).
EveryJobEnds == \A j \in Jobs : job[j] = "QUEUED" ~> job[j] \in Terminal \/ LostForGood(j)

\* An expired lease never goes unnoticed: its attempt is reaped, reported or, by
\* a late renewal, live again, also when the server dies in the middle of the sweep.
LapsedLeaseIsHandled == \A a \in Attempts : Lapsed(a) ~> ~Lapsed(a)

\* A delayed retry reaches the live queue once its backoff is over, also when the
\* server dies between the commands of a promotion; unless Redis has lost it.
ScheduledRetryIsPromoted ==
    \A j \in Jobs : delayed[j] = "waiting" ~> j \in queue \/ LostForGood(j)

-----------------------------------------------------------------------------
(***************************************************************************)
(* What the docs, comments and tests say, and the code does not do         *)
(***************************************************************************)

\* README.md:437-439: "Renewal, log writes, and completion require the matching
\* token, so a stale worker cannot update a reassigned or terminal attempt."
TerminalAttemptIsFinal ==
    [][\A a \in Attempts : attempt[a].status \in Over => attempt'[a].status = attempt[a].status]_vars

\* tests/test_scheduler.py:39-40: "Two workers racing to claim from the queue
\* must never end up both holding the same job".
HasLease(w) == /\ hold[w] # NoLease
               /\ attempt[hold[w].row].token = hold[w].token
               /\ attempt[hold[w].row].status \in Active
NoTwoWorkersHoldAJob ==
    \A v, w \in Workers : v # w /\ HasLease(v) /\ HasLease(w) =>
                         attempt[hold[v].row].job # attempt[hold[w].row].job

\* lease_manager.py:271-284: "If the server crashes between those two operations,
\* the job stays in QUEUED status in Postgres but has no entry in Redis [...] This
\* function scans for QUEUED jobs [...] and re-enqueues them."
OrphanedJobIsRequeued == \A j \in Jobs : Orphaned(j) ~> ~Orphaned(j)

\* lease_manager.py:173-174: "next_attempt is materialized now but only becomes
\* claimable once its backoff delay elapses".
RetryWaitsForBackoff ==
    [][\A w \in Workers : ClaimCommit(w) => delayed[claim[w].job] # "waiting"]_vars

\* api/workers.py:39-41: a worker marked dead that comes back "should NOT resume
\* any attempt it previously held".
DeadWorkerDoesNotRenew ==
    [][\A w \in Workers : RenewCommit(w) => worker[w].status # "DEAD"]_vars

\* lease_manager.py:8-10: the reaper "scans for attempts whose lease has expired
\* and whose worker is not heartbeating".
ReapedWorkerIsSilent ==
    [][\A a \in Attempts : ReapOne(a) => LET w == attempt[a].worker IN
         worker[w].status = "DEAD" \/ worker[w].beat = "stale"]_vars
=============================================================================
