---------------------------- MODULE LeaseHistory ----------------------------
(***************************************************************************)
(* LeaseManager with a history variable that tells what goes wrong when    *)
(* requests overlap.  A handler checks something, and writes a status that *)
(* depends on it in a commit that does not look again: claim_next_job      *)
(* (lease_manager.py:65-84), renew_lease and mark_running (:94-110),       *)
(* complete_attempt (:126-161) and reap_expired_leases (:211-231).         *)
(* overtaken says that once such a commit came too late.  It only watches: *)
(* the steps are those of LeaseManager, and so are the behaviours.         *)
(***************************************************************************)
EXTENDS LeaseManager

VARIABLE overtaken   \* a commit has written a status after another session had undone its check

historyVars == <<vars, overtaken>>

\* What each of the four has checked: the job waits and the row is its latest; the
\* attempt is active.
ClaimOvertaken(w) ==
    /\ ClaimCommit(w)
    /\ job[claim[w].job] # "QUEUED" \/ claim[w].row \notin LatestRows(claim[w].job)
MarkOvertaken(w) == MarkCommit(w) /\ attempt[renew[w].row].status \notin Active
ReportOvertaken(w) == ReportCommit(w) /\ attempt[report[w].row].status \notin Active
ReapOvertaken == ReapCommit /\ \E a \in reaper.done : attempt[a].status \notin Active

Overtakes == \/ \E w \in Workers : ClaimOvertaken(w) \/ MarkOvertaken(w) \/ ReportOvertaken(w)
             \/ ReapOvertaken

HistoryInit == Init /\ overtaken = FALSE
HistoryNext == Next /\ overtaken' = (overtaken \/ Overtakes)
HistorySpec == HistoryInit /\ [][HistoryNext]_historyVars

-----------------------------------------------------------------------------
(***************************************************************************)
(* Properties.  However requests, ticks and faults interleave, the four    *)
(* commits are the only ones that break them.                              *)
(***************************************************************************)

\* A job is RUNNING exactly while one of its attempts is leased: it is never run
\* twice at once, and never left RUNNING with no lease the reaper can find; reads and
\* flushes, Redis commands, roll-backs and crashes in any order do no harm to it.
OneLeaseUnlessOvertaken == ~overtaken => RunningJobHasOneLease

\* lease_manager.py:15-17: "Permanent failures (compile/test failures) are never
\* retried".  The retry of a permanent failure takes a commit that comes too late.
PermanentUnlessOvertaken == ~overtaken => PermanentFailureNotRetried

\* tests/test_scheduler.py:39-40: no two workers hold one job, though it was handed
\* out twice, or a retry was promoted before it was committed.
OneHolderUnlessOvertaken == ~overtaken => NoTwoWorkersHoldAJob

\* Every step is one of JobLifecycle, or none: no job is granted, retried or given up
\* out of turn.
LifecycleUnlessOvertaken ==
    Lifecycle!Init /\ [][~overtaken' => Lifecycle!Next]_historyVars

\* README.md:437-439: an attempt that is over is not updated any more.
FinalUnlessOvertaken ==
    [][\A a \in Attempts : attempt[a].status \in Over /\ ~overtaken' =>
         attempt'[a].status = attempt[a].status]_historyVars

-----------------------------------------------------------------------------
(***************************************************************************)
(* Why they hold                                                           *)
(***************************************************************************)
\* A job's attempts have the numbers from 1 on, each leased before the next was made;
\* only the last may be active, and a verdict is that of an attempt that is over.
NoRowsYet == \A j \in Jobs : job[j] = "absent" => RowsOf(j) = {}
OnlyLastIsActive ==
    \A j \in Jobs : \A a, b \in RowsOf(j) :
      /\ attempt[a].number = attempt[b].number => a = b
      /\ attempt[a].status \in Active => attempt[b].number <= attempt[a].number
NoneSkipped ==
    \A j \in Jobs : \A a \in RowsOf(j), n \in 1..MaxAttempts :
      n < attempt[a].number => \E b \in RowsOf(j) : attempt[b].number = n /\ attempt[b].token # 0
NoVerdictYet == \A a \in Attempts : attempt[a].verdict # "null" => attempt[a].status \in Over
RowsInTurn == NoRowsYet /\ OnlyLastIsActive /\ NoneSkipped /\ NoVerdictYet

\* A report has loaded the job as RUNNING, unless somebody has ended its attempt since.
ReportKnows ==
    \A w \in Workers :
      report[w].pc \in {"read", "flushed"} /\ attempt[report[w].row].status \in Active =>
        report[w].seen = "RUNNING"

\* A tick has one attempt of a job, decides by its number, makes one retry for it, and
\* writes its job's status unless somebody has ended it since.
TickKnows ==
    /\ reaper.pc # "reaping" => /\ reaper.done = {} /\ reaper.new = {} /\ reaper.dirty = {}
                                /\ reaper.seen = [j \in Jobs |-> "absent"]
    /\ reaper.pc = "reaping" =>
         /\ reaper.rows \cap reaper.done = {}
         /\ \A a, b \in reaper.rows \cup reaper.done : attempt[a].job = attempt[b].job => a = b
         /\ \A j \in Jobs : reaper.seen[j] # "absent" => \E a \in reaper.done : attempt[a].job = j
         /\ \A a \in reaper.done :
              /\ reaper.seen[attempt[a].job] = (IF Retryable(a) THEN "QUEUED" ELSE "ERRORED")
              /\ attempt[a].status \in Active => attempt[a].job \in reaper.dirty
         /\ \A j \in reaper.dirty : reaper.seen[j] # "absent"
         /\ \A n \in reaper.new : \E a \in reaper.done : Retryable(a) /\ Successor(n, a)
         /\ \A m, n \in reaper.new : attempt[m].job = attempt[n].job => m = n

\* The attempt a worker holds has its name: no other claim has taken it over.
LeaseIsOwn ==
    \A w \in Workers : /\ hold[w] # NoLease => attempt[hold[w].row].worker = w
                       /\ claim[w].pc = "committed" => attempt[claim[w].row].worker = w

InOrder == RunningJobHasOneLease /\ PermanentFailureNotRetried /\ RowsInTurn
           /\ ReportKnows /\ TickKnows /\ LeaseIsOwn
InOrderUnlessOvertaken == ~overtaken => InOrder
=============================================================================
