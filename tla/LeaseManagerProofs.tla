------------------------- MODULE LeaseManagerProofs -------------------------
(***************************************************************************)
(* Proofs about LeaseManager, for any jobs, workers, attempts and budget,  *)
(* any number of requests in progress and any faults.                      *)
(*                                                                         *)
(* The inductive invariant is TypeOK /\ Consistent.  Its parts:            *)
(*   RowsOK      what every row satisfies (its number is in the budget, an *)
(*               unleased row has no deadline and no worker);              *)
(*   RequestsOK  what a request slot refers to is committed, and leased;   *)
(*   FlushedOK   the rows a report or a tick has flushed are its own, and  *)
(*               follow a leased row;                                      *)
(*   TickOK      what the tick has decided is backed by rows it holds.     *)
(* RowsKept and FlushedRowKept say what one step may do to a committed and *)
(* to a flushed row; every part is proved from them.  The theorems follow: *)
(* TypeCorrect, HandlersStayConsistent, QueuedJobsCanBeClaimed,            *)
(* RetriesStayInBudget and OnlyClaimsTakeAttempts.                         *)
(***************************************************************************)
EXTENDS LeaseManager, TLAPS

USE NullAssumption, MaxAttemptsAssumption, MaxOpenAssumption, FaultsAssumption

\* Empty tables and an idle server are well typed and consistent.
LEMMA InitInv == Init => TypeOK /\ Consistent
<1> SUFFICES ASSUME Init PROVE TypeOK /\ Consistent
  OBVIOUS
<1> USE DEF Init, NoLease, NoClaim, NoRenew, NoReport, NoTick, EmptyRow
<1>1. TypeOK
  BY DEF TypeOK, Row, Rows, ClaimSlot, RenewSlot, ReportSlot, Tick, Verdict
<1>2. Consistent
  BY DEF Consistent, RowsOK, RowOK, RequestsOK, RequestOK, FlushedOK, TickOK
<1>3. QED
  BY <1>1, <1>2

\* A primary key the database hands out is one no row has.
LEMMA FreshIdIsFree == FreeIds # {} => FreshId \in FreeIds
  BY DEF FreshId

\* Writing the deadline or the status of a row leaves a row.
LEMMA RowUpdates ==
  ASSUME NEW r \in Row
  PROVE  /\ \A l \in {"valid", "expired"} : [r EXCEPT !.lease = l] \in Row
         /\ \A s \in AttemptStatus : [r EXCEPT !.status = s] \in Row
  BY DEF Row

\* The type of each variable is preserved by each action that changes it.
LEMMA TypeStep == TypeOK /\ Consistent /\ [Next]_vars => TypeOK'
<1> SUFFICES ASSUME TypeOK, Consistent, [Next]_vars PROVE TypeOK'
  OBVIOUS
<1> USE DEF server, env, Fault
<1> DEFINE SlotType == [row : Rows, token : Nat]
           WorkerType == [status : {"absent", "ONLINE", "DEAD"}, beat : {"fresh", "stale"}, up : BOOLEAN]
<1>1. ASSUME NEW j \in Jobs, CreateJob(j) PROVE TypeOK'
  <2>1. NewRow(j, 1, "LEASED") \in Row
    BY DEF NewRow, EmptyRow, Row, AttemptStatus, Active, Verdict
  <2>2. QED
    BY <1>1, <2>1 DEF CreateJob, TypeOK, JobStatus
<1>2. ASSUME NEW j \in Jobs, EnqueueCreated(j) PROVE TypeOK'
  BY <1>2 DEF EnqueueCreated, TypeOK
<1>3. ASSUME NEW w \in Workers, ClaimPop(w) PROVE TypeOK'
  <2>1. claim' \in [Workers -> ClaimSlot]
    <3>1. PICK j \in queue : claim' = [claim EXCEPT ![w].pc = "popped", ![w].job = j]
      BY <1>3 DEF ClaimPop
    <3>2. claim[w] \in ClaimSlot /\ j \in Jobs
      BY DEF TypeOK
    <3>3. [claim[w] EXCEPT !.pc = "popped", !.job = j] \in ClaimSlot
      BY <3>2 DEF ClaimSlot
    <3>4. QED
      BY <3>1, <3>3 DEF TypeOK
  <2>2. QED
    BY <1>3, <2>1 DEF ClaimPop, TypeOK
<1>4. ASSUME NEW w \in Workers, ClaimReadJob(w) PROVE TypeOK'
  <2>1. claim' \in [Workers -> ClaimSlot]
    <3>1. claim[w] \in ClaimSlot
      BY DEF TypeOK
    <3>2. [claim[w] EXCEPT !.pc = "jobRead"] \in ClaimSlot /\ NoClaim \in ClaimSlot
      BY <3>1 DEF ClaimSlot, NoClaim, Rows
    <3>3. QED
      BY <1>4, <3>2 DEF ClaimReadJob, TypeOK
  <2>2. QED
    BY <1>4, <2>1 DEF ClaimReadJob, TypeOK
<1>5. ASSUME NEW w \in Workers, ClaimReadAttempt(w) PROVE TypeOK'
  <2>1. PICK a \in LatestRows(claim[w].job) :
          claim' = [claim EXCEPT ![w].pc = "read", ![w].row = a, ![w].seen = attempt[a].status]
    BY <1>5 DEF ClaimReadAttempt
  <2>2. a \in Attempts /\ attempt[a].status \in AttemptStatus
    BY <2>1 DEF LatestRows, RowsOf
  <2>3. claim' \in [Workers -> ClaimSlot]
    <3>1. claim[w] \in ClaimSlot
      BY DEF TypeOK
    <3>2. [claim[w] EXCEPT !.pc = "read", !.row = a, !.seen = attempt[a].status] \in ClaimSlot
      BY <2>2, <3>1 DEF ClaimSlot, Rows
    <3>3. QED
      BY <2>1, <3>2 DEF TypeOK
  <2>4. QED
    BY <1>5, <2>3 DEF ClaimReadAttempt, TypeOK
<1>6. ASSUME NEW w \in Workers, ClaimCommit(w) PROVE TypeOK'
  <2>0. claim' \in [Workers -> ClaimSlot]
    <3>1. claim[w] \in ClaimSlot /\ claim \in [Workers -> ClaimSlot]
      BY DEF TypeOK
    <3>2. [claim[w] EXCEPT !.pc = "committed"] \in ClaimSlot
      BY <3>1 DEF ClaimSlot
    <3>3. claim' = [claim EXCEPT ![w] = [claim[w] EXCEPT !.pc = "committed"]]
      BY <1>6 DEF ClaimCommit
    <3>4. QED
      BY <3>1, <3>2, <3>3
  <2>1. job' \in [Jobs -> JobStatus \cup {"absent"}]
    BY <1>6 DEF ClaimCommit, JobStatus, TypeOK
  <2>2. OrmWrite(claim[w].seen, "LEASED", attempt[claim[w].row].status)
          \in AttemptStatus \cup {"absent", "inserted"}
    BY <1>6 DEF ClaimCommit, Consistent, RequestsOK, RequestOK, Committed, OrmWrite, AttemptStatus, Active
  <2>3. attempt' \in [Attempts -> Row]
    <3> DEFINE a == claim[w].row
               r == [attempt[a] EXCEPT !.worker = w, !.token = tokens + 1, !.lease = "valid",
                       !.status = OrmWrite(claim[w].seen, "LEASED", attempt[a].status)]
    <3>1. a \in Attempts /\ attempt[a] \in Row /\ tokens + 1 \in Nat
      BY <1>6 DEF ClaimCommit, Consistent, RequestsOK, RequestOK, Committed, TypeOK
    <3>2. r \in Row
      BY <2>2, <3>1 DEF Row
    <3>3. attempt' = [attempt EXCEPT ![a] = r]
      BY <1>6, <3>1 DEF ClaimCommit, TypeOK
    <3>4. QED
      BY <3>2, <3>3 DEF TypeOK
  <2>4. QED
    BY <1>6, <2>0, <2>1, <2>3 DEF ClaimCommit, TypeOK
<1>7. ASSUME NEW w \in Workers, ClaimRespond(w) PROVE TypeOK'
  <2>1. claim' \in [Workers -> ClaimSlot]
    BY <1>7 DEF ClaimRespond, ClaimSlot, NoClaim, Rows, TypeOK
  <2>2. hold' \in [Workers -> SlotType]
    BY <1>7 DEF ClaimRespond, NoLease, Rows, Row, Consistent, RequestsOK, RequestOK, Committed, TypeOK
  <2>3. QED
    BY <1>7, <2>1, <2>2 DEF ClaimRespond, TypeOK
<1>8. ASSUME NEW w \in Workers, RenewRead(w) PROVE TypeOK'
  <2>1. renew' \in [Workers -> RenewSlot]
    BY <1>8 DEF RenewRead, RenewSlot, TypeOK
  <2>2. QED
    BY <1>8, <2>1 DEF RenewRead, TypeOK
<1>9. ASSUME NEW w \in Workers, RenewCommit(w) PROVE TypeOK'
  <2>1. renew' \in [Workers -> RenewSlot]
    <3>1. renew[w] \in RenewSlot /\ renew \in [Workers -> RenewSlot]
      BY DEF TypeOK
    <3>2. [renew[w] EXCEPT !.pc = "renewed"] \in RenewSlot
      BY <3>1 DEF RenewSlot
    <3>3. renew' = [renew EXCEPT ![w] = [renew[w] EXCEPT !.pc = "renewed"]]
      BY <1>9 DEF RenewCommit
    <3>4. QED
      BY <3>1, <3>2, <3>3
  <2>2. attempt' \in [Attempts -> Row]
    <3> DEFINE r == [attempt[renew[w].row] EXCEPT !.lease = "valid"]
    <3>1. attempt[renew[w].row] \in Row
      BY <1>9 DEF RenewCommit, Consistent, RequestsOK, RequestOK, WasLeased, Committed, TypeOK
    <3>2. r \in Row
      BY <3>1 DEF Row
    <3>3. attempt' = [attempt EXCEPT ![renew[w].row] = r]
      BY <1>9 DEF RenewCommit, TypeOK
    <3>4. QED
      BY <3>2, <3>3 DEF TypeOK
  <2>3. QED
    BY <1>9, <2>1, <2>2 DEF RenewCommit, TypeOK
<1>10. ASSUME NEW w \in Workers, MarkRead(w) PROVE TypeOK'
  <2>1. renew[w].row \in Attempts /\ attempt[renew[w].row].status \in AttemptStatus
    BY <1>10 DEF MarkRead, Consistent, RequestsOK, RequestOK, WasLeased, Committed
  <2>2. renew' \in [Workers -> RenewSlot]
    <3> DEFINE m == [renew[w] EXCEPT !.pc = "marking", !.seen = attempt[renew[w].row].status]
    <3>1. renew \in [Workers -> RenewSlot]
      BY DEF TypeOK
    <3>2. m \in RenewSlot
      BY <2>1, <3>1 DEF RenewSlot
    <3>3. NoRenew \in RenewSlot
      BY DEF NoRenew, RenewSlot, Rows
    <3>4. renew' = [renew EXCEPT ![w] = m] \/ renew' = [renew EXCEPT ![w] = NoRenew]
      BY <1>10, <3>1 DEF MarkRead
    <3> HIDE DEF m
    <3>5. QED
      BY <3>1, <3>2, <3>3, <3>4
  <2>3. QED
    BY <1>10, <2>2 DEF MarkRead, TypeOK
<1>11. ASSUME NEW w \in Workers, MarkCommit(w) PROVE TypeOK'
  <2>1. renew' \in [Workers -> RenewSlot]
    BY <1>11 DEF MarkCommit, RenewSlot, NoRenew, Rows, TypeOK
  <2>2. renew[w].row \in Attempts /\ attempt[renew[w].row].status \in AttemptStatus
    BY <1>11 DEF MarkCommit, Consistent, RequestsOK, RequestOK, WasLeased, Committed
  <2>3. attempt' \in [Attempts -> Row]
    <3> DEFINE a == renew[w].row
               s == OrmWrite(renew[w].seen, "RUNNING", attempt[a].status)
    <3>1. s \in AttemptStatus /\ attempt[a] \in Row
      BY <2>2 DEF OrmWrite, AttemptStatus, Active, TypeOK
    <3>2. [attempt[a] EXCEPT !.status = s] \in Row
      BY <3>1 DEF Row
    <3>3. attempt' = [attempt EXCEPT ![a] = [attempt[a] EXCEPT !.status = s]]
      BY <1>11, <2>2 DEF MarkCommit, TypeOK
    <3>4. QED
      BY <3>2, <3>3 DEF TypeOK
  <2>4. QED
    BY <1>11, <2>1, <2>3 DEF MarkCommit, TypeOK
<1>12. ASSUME NEW w \in Workers, NEW v \in Verdict, ReportRead(w, v) PROVE TypeOK'
  <2>1. hold[w].row \in Attempts /\ attempt[hold[w].row].job \in Jobs
    BY <1>12 DEF ReportRead, Consistent, RequestsOK, RequestOK, RowsOK, RowOK, WasLeased, Committed, AttemptStatus, Active
  <2>2. report' \in [Workers -> ReportSlot]
    BY <1>12, <2>1 DEF ReportRead, ReportSlot, NoReport, Rows, Verdict, TypeOK
  <2>3. hold' \in [Workers -> SlotType]
    BY <1>12 DEF ReportRead, NoLease, Rows, TypeOK
  <2>4. QED
    BY <1>12, <2>2, <2>3 DEF ReportRead, TypeOK
<1>12a. ASSUME NEW w \in Workers, ReportReadJob(w) PROVE TypeOK'
  <2>1. report[w] \in ReportSlot /\ job[attempt[report[w].row].job] \in JobStatus \cup {"absent"}
    BY <1>12a DEF ReportReadJob, TypeOK, Consistent, RequestsOK, RequestOK, RowsOK, RowOK, WasLeased,
       Committed, AttemptStatus, Active
  <2>2. [report[w] EXCEPT !.pc = "read", !.seen = job[attempt[report[w].row].job]] \in ReportSlot
    BY <2>1 DEF ReportSlot
  <2>3. QED
    BY <1>12a, <2>2 DEF ReportReadJob, TypeOK
<1>13. ASSUME NEW w \in Workers, ReportFlush(w) PROVE TypeOK'
  <2>1. FreshId \in Attempts
    BY <1>13, FreshIdIsFree DEF ReportFlush, FreeIds
  <2>2. report[w].row \in Attempts /\ attempt[report[w].row].job \in Jobs
    BY <1>13 DEF ReportFlush, Consistent, RequestsOK, RequestOK, RowsOK, RowOK, WasLeased, Committed, AttemptStatus, Active
  <2>3. attempt[report[w].row].number + 1 \in Nat
    BY <2>2 DEF Row, TypeOK
  <2>4. NewRow(attempt[report[w].row].job, attempt[report[w].row].number + 1, "inserted") \in Row
    BY <2>2, <2>3 DEF NewRow, EmptyRow, Row
  <2>5. report' \in [Workers -> ReportSlot]
    <3>1. report[w] \in ReportSlot
      BY DEF TypeOK
    <3>2. [report[w] EXCEPT !.pc = "flushed", !.new = FreshId] \in ReportSlot
      BY <2>1, <3>1 DEF ReportSlot, Rows
    <3>3. QED
      BY <1>13, <3>2 DEF ReportFlush, TypeOK
  <2>6. QED
    BY <1>13, <2>2, <2>4, <2>5 DEF ReportFlush, TypeOK
<1>14. ASSUME NEW w \in Workers, ReportCommit(w) PROVE TypeOK'
  <2>1. report[w].verdict \in Verdict
    BY DEF TypeOK, ReportSlot
  <2>2. AttemptVerdict(report[w].verdict) \in AttemptStatus
    BY <2>1 DEF AttemptVerdict, Verdict, AttemptStatus, Active
  <2>3. JobVerdict(report[w].verdict, Retries(w)) \in JobStatus
    BY <2>1 DEF JobVerdict, Verdict, JobStatus
  <2>4. job' \in [Jobs -> JobStatus \cup {"absent"}]
    BY <1>14, <2>3 DEF ReportCommit, OrmWrite, TypeOK
  <2>5. attempt' \in [Attempts -> Row]
    <3> DEFINE v == report[w].verdict
    <3>1. SUFFICES ASSUME NEW b \in Attempts PROVE attempt'[b] \in Row
      BY <1>14 DEF ReportCommit
    <3>2. attempt[b] \in Row
      BY DEF TypeOK
    <3>3. [attempt[b] EXCEPT !.status = AttemptVerdict(v), !.verdict = v] \in Row
      BY <2>1, <2>2, <3>2 DEF Row
    <3>4. [attempt[b] EXCEPT !.status = "LEASED"] \in Row
      BY <3>2 DEF Row, AttemptStatus, Active
    <3>5. QED
      BY <1>14, <3>2, <3>3, <3>4 DEF ReportCommit
  <2>6. report' \in [Workers -> ReportSlot]
    BY <1>14 DEF ReportCommit, ReportSlot, NoReport, Rows, Verdict, TypeOK
  <2>7. QED
    BY <1>14, <2>4, <2>5, <2>6 DEF ReportCommit, TypeOK
<1>15. ASSUME ReapDeadScan PROVE TypeOK'
  <2>1. reaper' \in Tick
    BY <1>15 DEF ReapDeadScan, Tick, TypeOK
  <2>2. QED
    BY <1>15, <2>1 DEF ReapDeadScan, TypeOK
<1>16. ASSUME ReapDeadCommit PROVE TypeOK'
  <2>1. reaper' \in Tick
    BY <1>16 DEF ReapDeadCommit, NoTick, Tick
  <2>2. attempt' \in [Attempts -> Row]
    <3>1. \A a \in Attempts : [attempt[a] EXCEPT !.lease = "expired"] \in Row
      BY RowUpdates DEF TypeOK
    <3>2. QED
      BY <1>16, <3>1 DEF ReapDeadCommit, TypeOK
  <2>3. worker' \in [Workers -> WorkerType]
    <3>1. \A w \in Workers : /\ worker[w] \in WorkerType
                             /\ [worker[w] EXCEPT !.status = "DEAD"] \in WorkerType
      BY DEF TypeOK
    <3>2. QED
      BY <1>16, <3>1 DEF ReapDeadCommit
  <2>4. QED
    BY <1>16, <2>1, <2>2, <2>3 DEF ReapDeadCommit, TypeOK
<1>17. ASSUME ReapScan PROVE TypeOK'
  <2>1. reaper' \in Tick
    BY <1>17 DEF ReapScan, Expired, Tick, TypeOK
  <2>2. QED
    BY <1>17, <2>1 DEF ReapScan, TypeOK
<1>18. ASSUME NEW a \in Attempts, ReapOne(a) PROVE TypeOK'
  <2> DEFINE j == attempt[a].job
             loaded == IF reaper.seen[j] = "absent" THEN job[j] ELSE reaper.seen[j]
             status == IF Retryable(a) THEN "QUEUED" ELSE "ERRORED"
             dirty == IF status = loaded THEN reaper.dirty ELSE reaper.dirty \cup {j}
             turn == [reaper EXCEPT !.rows = @ \ {a}, !.done = reaper.done \cup {a},
                                    !.seen[j] = status, !.dirty = dirty]
  <2>1. j \in Jobs /\ attempt[a].number + 1 \in Nat
    BY <1>18 DEF ReapOne, Consistent, TickOK, RowsOK, RowOK, WasLeased, Committed, AttemptStatus, Active,
                Row, TypeOK
  <2>2. reaper \in Tick
    BY DEF TypeOK
  <2>3. reaper' = IF Retryable(a)
                  THEN [turn EXCEPT !.new = @ \cup {FreshId}, !.flushed = reaper.done \cup {a}]
                  ELSE turn
    BY <1>18 DEF ReapOne
  <2>4. Retryable(a) => FreshId \in Attempts
    BY <1>18, FreshIdIsFree DEF ReapOne, FreeIds
  <2>5. reaper' \in Tick
    <3>1. dirty \in SUBSET Jobs /\ reaper.done \cup {a} \in SUBSET Attempts
      BY <2>1, <2>2 DEF Tick
    <3>2. turn \in Tick
      <4> HIDE DEF dirty
      <4>1. QED
        BY <2>1, <2>2, <3>1 DEF Tick, JobStatus
    <3> HIDE DEF turn
    <3>3. Retryable(a) => [turn EXCEPT !.new = @ \cup {FreshId}, !.flushed = reaper.done \cup {a}] \in Tick
      BY <2>4, <3>1, <3>2 DEF Tick
    <3>4. QED
      BY <2>3, <3>2, <3>3
  <2>6. NewRow(j, attempt[a].number + 1, "inserted") \in Row
    BY <2>1 DEF NewRow, EmptyRow, Row
  <2>7. attempt' \in [Attempts -> Row] /\ delayed' \in [Jobs -> {"none", "waiting", "due"}]
    <3>1. CASE Retryable(a)
      <4>1. /\ attempt' = [attempt EXCEPT ![FreshId] = NewRow(j, attempt[a].number + 1, "inserted")]
            /\ delayed' = [delayed EXCEPT ![j] = "waiting"]
        BY <1>18, <3>1 DEF ReapOne
      <4>2. QED
        BY <2>6, <4>1 DEF TypeOK
    <3>2. CASE ~Retryable(a)
      BY <1>18, <3>2 DEF ReapOne, TypeOK
    <3>3. QED
      BY <3>1, <3>2
  <2>8. QED
    BY <1>18, <2>5, <2>7 DEF ReapOne, TypeOK
<1>19. ASSUME ReapCommit PROVE TypeOK'
  <2>1. reaper' \in Tick
    BY <1>19 DEF ReapCommit, NoTick, Tick
  <2>2. attempt' \in [Attempts -> Row]
    <3>1. SUFFICES ASSUME NEW a \in Attempts PROVE attempt'[a] \in Row
      BY <1>19 DEF ReapCommit
    <3>2. attempt[a] \in Row /\ {"INFRA_ERROR", "LEASED"} \subseteq AttemptStatus
      BY DEF TypeOK, AttemptStatus, Active
    <3>3. /\ [attempt[a] EXCEPT !.status = "INFRA_ERROR"] \in Row
          /\ [attempt[a] EXCEPT !.status = "LEASED"] \in Row
      BY <3>2, RowUpdates
    <3>4. QED
      BY <1>19, <3>2, <3>3 DEF ReapCommit
  <2>3. job' \in [Jobs -> JobStatus \cup {"absent"}]
    BY <1>19 DEF ReapCommit, Tick, TypeOK
  <2>4. QED
    BY <1>19, <2>1, <2>2, <2>3 DEF ReapCommit, TypeOK
<1>20. ASSUME PromoteScan PROVE TypeOK'
  <2>1. reaper' \in Tick
    BY <1>20 DEF PromoteScan, Ready, Tick, TypeOK
  <2>2. QED
    BY <1>20, <2>1 DEF PromoteScan, Ready, TypeOK
<1>21. ASSUME NEW j \in Jobs, PromoteEnqueue(j) PROVE TypeOK'
  <2>1. reaper' \in Tick
    BY <1>21 DEF PromoteEnqueue, Tick, TypeOK
  <2>2. QED
    BY <1>21, <2>1 DEF PromoteEnqueue, TypeOK
<1>22. ASSUME PromoteRemove PROVE TypeOK'
  <2>1. reaper' \in Tick
    BY <1>22 DEF PromoteRemove, NoTick, Tick, TypeOK
  <2>2. delayed' \in [Jobs -> {"none", "waiting", "due"}]
    BY <1>22 DEF PromoteRemove, TypeOK
  <2>3. QED
    BY <1>22, <2>1, <2>2 DEF PromoteRemove, TypeOK
<1>23. ASSUME ReconcileScan PROVE TypeOK'
  <2>1. reaper' \in Tick
    BY <1>23 DEF ReconcileScan, NoTick, Tick, TypeOK
  <2>2. QED
    BY <1>23, <2>1 DEF ReconcileScan, TypeOK
<1>24. ASSUME NEW j \in Jobs, ReconcileOne(j) PROVE TypeOK'
  <2>1. reaper' \in Tick
    BY <1>24 DEF ReconcileOne, NoTick, Tick, TypeOK
  <2>2. QED
    BY <1>24, <2>1 DEF ReconcileOne, TypeOK
<1>25. ASSUME NEW w \in Workers, WorkerSteps(w) PROVE TypeOK'
  <2>0. worker[w] \in WorkerType /\ worker \in [Workers -> WorkerType]
    BY DEF TypeOK
  <2>1. CASE Register(w)
    <3>1. [worker[w] EXCEPT !.status = "ONLINE"] \in WorkerType
      BY <2>0
    <3>2. worker' = [worker EXCEPT ![w] = [worker[w] EXCEPT !.status = "ONLINE"]]
      BY <2>1 DEF Register
    <3>3. worker' \in [Workers -> WorkerType]
      BY <2>0, <3>1, <3>2
    <3>4. QED
      BY <2>1, <3>3 DEF Register, TypeOK
  <2>2. CASE Heartbeat(w)
    <3> DEFINE r == [worker[w] EXCEPT !.beat = "fresh",
                                      !.status = IF worker[w].status = "DEAD" THEN "ONLINE" ELSE worker[w].status]
    <3>2. r \in WorkerType
      BY <2>0
    <3>3. worker' = [worker EXCEPT ![w] = r]
      BY <2>2, <2>0 DEF Heartbeat
    <3>4. worker' \in [Workers -> WorkerType]
      BY <2>0, <3>2, <3>3
    <3>5. QED
      BY <2>2, <3>4 DEF Heartbeat, TypeOK
  <2>3. CASE HeartbeatLapses(w)
    <3>1. [worker[w] EXCEPT !.beat = "stale"] \in WorkerType
      BY <2>0
    <3>2. worker' = [worker EXCEPT ![w] = [worker[w] EXCEPT !.beat = "stale"]]
      BY <2>3 DEF HeartbeatLapses
    <3>3. worker' \in [Workers -> WorkerType]
      BY <2>0, <3>1, <3>2
    <3>4. QED
      BY <2>3, <3>3 DEF HeartbeatLapses, TypeOK
  <2>4. CASE ReportLost(w)
    BY <2>4 DEF ReportLost, NoLease, Rows, TypeOK
  <2>5. CASE WorkerCrash(w)
    <3>0. [worker[w] EXCEPT !.up = FALSE] \in WorkerType
      BY <2>0
    <3>0a. worker' = [worker EXCEPT ![w] = [worker[w] EXCEPT !.up = FALSE]]
      BY <2>5 DEF WorkerCrash
    <3>1. worker' \in [Workers -> WorkerType]
      BY <2>0, <3>0, <3>0a
    <3>2. hold' \in [Workers -> SlotType]
      BY <2>5 DEF WorkerCrash, NoLease, Rows, TypeOK
    <3>3. QED
      BY <2>5, <3>1, <3>2 DEF WorkerCrash, TypeOK
  <2>6. QED
    BY <1>25, <2>1, <2>2, <2>3, <2>4, <2>5 DEF WorkerSteps
<1>26. ASSUME NEW a \in Attempts, LeaseLapses(a) PROVE TypeOK'
  <2>1. attempt' \in [Attempts -> Row]
    <3>1. [attempt[a] EXCEPT !.lease = "expired"] \in Row
      BY RowUpdates DEF TypeOK
    <3>2. attempt' = [attempt EXCEPT ![a] = [attempt[a] EXCEPT !.lease = "expired"]]
      BY <1>26 DEF LeaseLapses, TypeOK
    <3>3. QED
      BY <3>1, <3>2 DEF TypeOK
  <2>2. QED
    BY <1>26, <2>1 DEF LeaseLapses, TypeOK
<1>27. ASSUME NEW j \in Jobs, BackoffElapses(j) PROVE TypeOK'
  BY <1>27 DEF BackoffElapses, TypeOK
<1>28. ASSUME ServerCrash \/ ReaperAborts \/ RedisFlush PROVE TypeOK'
  <2>1. NoTick \in Tick /\ NoClaim \in ClaimSlot /\ NoRenew \in RenewSlot /\ NoReport \in ReportSlot
    BY DEF NoTick, Tick, NoClaim, ClaimSlot, NoRenew, RenewSlot, NoReport, ReportSlot, Rows, Verdict
  <2>2. \A rows : RolledBack(rows) \in [Attempts -> Row]
    BY DEF RolledBack, EmptyRow, Row, TypeOK
  <2>3. CASE ServerCrash
    BY <2>1, <2>2, <2>3 DEF ServerCrash, TypeOK
  <2>4. CASE ReaperAborts
    BY <2>1, <2>2, <2>4 DEF ReaperAborts, TypeOK
  <2>5. CASE RedisFlush
    BY <2>5 DEF RedisFlush, TypeOK
  <2>6. QED
    BY <1>28, <2>3, <2>4, <2>5
<1>29. CASE UNCHANGED vars
  BY <1>29 DEF vars, TypeOK
<1>30. QED
  BY <1>1, <1>2, <1>3, <1>4, <1>5, <1>6, <1>7, <1>8, <1>9, <1>10, <1>11, <1>12, <1>12a, <1>13, <1>14,
     <1>15, <1>16, <1>17, <1>18, <1>19, <1>20, <1>21, <1>22, <1>23, <1>24, <1>25, <1>26, <1>27,
     <1>28, <1>29
  DEF Next, JobSteps, ClaimSteps, RenewSteps, ReportSteps, ReaperSteps

\* The tick's session is changed by the reaper and by crashes, a report's slot by the
\* report itself.
LEMMA StepsFrame ==
    [Next]_vars => \/ report' = report /\ reaper' = reaper
                   \/ ServerCrash \/ ReaperSteps \/ ReaperAborts \/ \E w \in Workers : ReportSteps(w)
<1> SUFFICES ASSUME [Next]_vars
             PROVE  \/ report' = report /\ reaper' = reaper
                    \/ ServerCrash \/ ReaperSteps \/ ReaperAborts \/ \E w \in Workers : ReportSteps(w)
  OBVIOUS
<1> USE DEF server
<1>1. ASSUME NEW j \in Jobs, JobSteps(j) PROVE report' = report /\ reaper' = reaper
  BY <1>1 DEF JobSteps, CreateJob, EnqueueCreated, BackoffElapses
<1>2. ASSUME NEW w \in Workers, ClaimSteps(w) PROVE report' = report /\ reaper' = reaper
  BY <1>2 DEF ClaimSteps, ClaimPop, ClaimReadJob, ClaimReadAttempt, ClaimCommit, ClaimRespond
<1>3. ASSUME NEW w \in Workers, RenewSteps(w) PROVE report' = report /\ reaper' = reaper
  BY <1>3 DEF RenewSteps, RenewRead, RenewCommit, MarkRead, MarkCommit
<1>4. ASSUME NEW w \in Workers, WorkerSteps(w) PROVE report' = report /\ reaper' = reaper
  BY <1>4 DEF WorkerSteps, Register, Heartbeat, HeartbeatLapses, ReportLost, WorkerCrash
<1>5. ASSUME NEW a \in Attempts, LeaseLapses(a) PROVE report' = report /\ reaper' = reaper
  BY <1>5 DEF LeaseLapses
<1>6. CASE RedisFlush
  BY <1>6 DEF RedisFlush
<1>7. CASE UNCHANGED vars
  BY <1>7 DEF vars
<1>8. QED
  BY <1>1, <1>2, <1>3, <1>4, <1>5, <1>6, <1>7 DEF Next

\* No step takes a committed row away, moves it to another job, renumbers it or
\* forgets that it was leased.
RowsKept ==
    \A a \in Attempts : Committed(a) =>
        /\ attempt'[a].status \in AttemptStatus
        /\ attempt'[a].job = attempt[a].job /\ attempt'[a].number = attempt[a].number
        /\ attempt[a].token # 0 => attempt'[a].token # 0

\* RowsKept holds of every step: nothing deletes a committed attempt or rewrites its
\* job_id, its attempt_number or the fact that it has a token.
LEMMA RowsKeptStep == TypeOK /\ Consistent /\ [Next]_vars => RowsKept
<1> SUFFICES ASSUME TypeOK, Consistent, [Next]_vars, NEW a \in Attempts, Committed(a)
             PROVE  /\ attempt'[a].status \in AttemptStatus
                    /\ attempt'[a].job = attempt[a].job /\ attempt'[a].number = attempt[a].number
                    /\ attempt[a].token # 0 => attempt'[a].token # 0
  BY DEF RowsKept
<1> DEFINE Kept == /\ attempt'[a].status \in AttemptStatus
                   /\ attempt'[a].job = attempt[a].job /\ attempt'[a].number = attempt[a].number
                   /\ attempt[a].token # 0 => attempt'[a].token # 0
<1> USE DEF Committed
<1>0. attempt[a] \in Row /\ attempt \in [Attempts -> Row] /\ tokens \in Nat
  BY DEF TypeOK
<1>1. CASE attempt' = attempt
  BY <1>1
<1>2. CASE \E j \in Jobs : CreateJob(j)
  <2>1. a # FreshId
    BY <1>2, FreshIdIsFree DEF CreateJob, FreeIds, AttemptStatus, Active
  <2>2. QED
    BY <1>0, <1>2, <2>1 DEF CreateJob
<1>3. ASSUME NEW w \in Workers, ClaimCommit(w) PROVE Kept
  <2>1. OrmWrite(claim[w].seen, "LEASED", attempt[a].status) \in AttemptStatus
    BY DEF OrmWrite, AttemptStatus, Active
  <2>2. QED
    <3>1. CASE a # claim[w].row
      BY <1>0, <1>3, <3>1 DEF ClaimCommit
    <3>2. CASE a = claim[w].row
      <4> DEFINE r == [attempt[a] EXCEPT !.worker = w, !.token = tokens + 1, !.lease = "valid",
                         !.status = OrmWrite(claim[w].seen, "LEASED", attempt[a].status)]
      <4>1. attempt'[a] = r
        BY <1>0, <1>3, <3>2 DEF ClaimCommit
      <4>2. r.job = attempt[a].job /\ r.number = attempt[a].number /\ r.token = tokens + 1
            /\ r.status = OrmWrite(claim[w].seen, "LEASED", attempt[a].status)
        BY <1>0 DEF Row
      <4>3. tokens + 1 # 0
        BY <1>0
      <4> HIDE DEF r
      <4>4. QED
        BY <2>1, <4>1, <4>2, <4>3
    <3>3. QED
      BY <3>1, <3>2
<1>4. ASSUME NEW w \in Workers, RenewCommit(w) PROVE Kept
  BY <1>0, <1>4 DEF RenewCommit, Row
<1>5. ASSUME NEW w \in Workers, MarkCommit(w) PROVE Kept
  <2>1. OrmWrite(renew[w].seen, "RUNNING", attempt[a].status) \in AttemptStatus
    BY DEF OrmWrite, AttemptStatus, Active
  <2>2. QED
    BY <1>0, <1>5, <2>1 DEF MarkCommit, Row
<1>6. ASSUME NEW w \in Workers, ReportFlush(w) PROVE Kept
  <2>1. a # FreshId
    BY <1>6, FreshIdIsFree DEF ReportFlush, FreeIds, AttemptStatus, Active
  <2>2. QED
    BY <1>0, <1>6, <2>1 DEF ReportFlush
<1>7. ASSUME NEW w \in Workers, ReportCommit(w) PROVE Kept
  <2>1. AttemptVerdict(report[w].verdict) \in AttemptStatus
    BY DEF AttemptVerdict, Verdict, AttemptStatus, Active, ReportSlot, TypeOK
  <2>2. QED
    BY <1>0, <1>7, <2>1 DEF ReportCommit, Row, AttemptStatus, Active
<1>8. CASE ReapDeadCommit
  BY <1>0, <1>8 DEF ReapDeadCommit, Row
<1>9. ASSUME NEW b \in Attempts, ReapOne(b) PROVE Kept
  <2>1. Retryable(b) => a # FreshId
    BY <1>9, FreshIdIsFree DEF ReapOne, FreeIds, AttemptStatus, Active
  <2>2. QED
    BY <1>0, <1>9, <2>1 DEF ReapOne
<1>10. CASE ReapCommit
  BY <1>0, <1>10 DEF ReapCommit, Row, AttemptStatus, Active
<1>11. ASSUME NEW b \in Attempts, LeaseLapses(b) PROVE Kept
  BY <1>0, <1>11 DEF LeaseLapses, Row
<1>12. CASE ServerCrash
  BY <1>0, <1>12 DEF ServerCrash, RolledBack, AttemptStatus, Active
<1>13. CASE ReaperAborts
  <2>1. a \notin reaper.new
    BY DEF Consistent, FlushedOK, Flushed, AttemptStatus, Active
  <2>2. QED
    BY <1>0, <1>13, <2>1 DEF ReaperAborts, RolledBack
<1>14. QED
  BY <1>1, <1>2, <1>3, <1>4, <1>5, <1>6, <1>7, <1>8, <1>9, <1>10, <1>11, <1>12, <1>13
  DEF Next, vars, JobSteps, ClaimSteps, RenewSteps, ReportSteps, WorkerSteps, ReaperSteps,
      EnqueueCreated, BackoffElapses, ClaimPop, ClaimReadJob, ClaimReadAttempt, ClaimRespond,
      RenewRead, MarkRead, ReportRead, ReportReadJob, Register, Heartbeat, HeartbeatLapses, ReportLost,
      WorkerCrash, ReapDeadScan, ReapScan, PromoteScan, PromoteEnqueue, PromoteRemove,
      ReconcileScan, ReconcileOne, RedisFlush

\* What a request slot refers to stays there, whoever moves.
LEMMA RequestsStep == TypeOK /\ Consistent /\ [Next]_vars => RequestsOK'
<1> SUFFICES ASSUME TypeOK, Consistent, [Next]_vars, NEW u \in Workers PROVE RequestOK(u)'
  BY DEF RequestsOK
<1> USE DEF WasLeased, Committed
<1>0. RowsKept /\ RequestOK(u)
  BY RowsKeptStep DEF Consistent, RequestsOK
<1>1. CASE UNCHANGED <<hold[u], claim[u], renew[u], report[u]>>
  BY <1>0, <1>1 DEF RowsKept, RequestOK
<1>2. ASSUME NEW w \in Workers, ClaimPop(w) PROVE RequestOK(u)'
  <2>1. PICK j \in queue : claim' = [claim EXCEPT ![w].pc = "popped", ![w].job = j]
    BY <1>2 DEF ClaimPop
  <2>2. claim \in [Workers -> ClaimSlot] /\ j \in Jobs
    BY DEF TypeOK
  <2>3. QED
    BY <1>0, <1>2, <2>1, <2>2 DEF ClaimPop, RowsKept, RequestOK, ClaimSlot
<1>3. ASSUME NEW w \in Workers, ClaimReadJob(w) PROVE RequestOK(u)'
  <2>1. claim \in [Workers -> ClaimSlot]
    BY DEF TypeOK
  <2>2. QED
    BY <1>0, <1>3, <2>1 DEF ClaimReadJob, NoClaim, RowsKept, RequestOK, ClaimSlot
<1>4. ASSUME NEW w \in Workers, ClaimReadAttempt(w) PROVE RequestOK(u)'
  <2>1. PICK a \in LatestRows(claim[w].job) :
          claim' = [claim EXCEPT ![w].pc = "read", ![w].row = a, ![w].seen = attempt[a].status]
    BY <1>4 DEF ClaimReadAttempt
  <2>2. a \in Attempts /\ attempt[a].status \in AttemptStatus /\ attempt[a].job = claim[w].job
    BY <2>1 DEF LatestRows, RowsOf
  <2>3. claim \in [Workers -> ClaimSlot]
    BY DEF TypeOK
  <2>4. QED
    BY <1>0, <1>4, <2>1, <2>2, <2>3 DEF ClaimReadAttempt, RowsKept, RequestOK, ClaimSlot
<1>5. ASSUME NEW w \in Workers, ClaimCommit(w) PROVE RequestOK(u)'
  <2>1. attempt'[claim[w].row].token = tokens + 1 /\ tokens + 1 # 0
    BY <1>5 DEF ClaimCommit, Consistent, RequestsOK, RequestOK, Row, TypeOK
  <2>2. claim' = [claim EXCEPT ![w].pc = "committed"] /\ claim \in [Workers -> ClaimSlot]
    BY <1>5 DEF ClaimCommit, TypeOK
  <2>3. UNCHANGED <<hold, renew, report>> /\ claim[w].pc = "read"
    BY <1>5 DEF ClaimCommit
  <2>4. QED
    BY <1>0, <2>1, <2>2, <2>3 DEF RowsKept, RequestOK, ClaimSlot
<1>6. ASSUME NEW w \in Workers, ClaimRespond(w) PROVE RequestOK(u)'
  <2>1. claim \in [Workers -> ClaimSlot] /\ hold \in [Workers -> [row : Rows, token : Nat]]
    BY DEF TypeOK
  <2>2. QED
    BY <1>0, <1>6, <2>1 DEF ClaimRespond, NoClaim, RowsKept, RequestOK
<1>7. ASSUME NEW w \in Workers, RenewSteps(w) PROVE RequestOK(u)'
  <2>1. renew \in [Workers -> RenewSlot]
    BY DEF TypeOK
  <2>2. CASE RenewRead(w)
    BY <1>0, <2>1, <2>2 DEF RenewRead, Renewable, RowsKept, RequestOK
  <2>3. CASE RenewCommit(w)
    <3>1. /\ renew' = [renew EXCEPT ![w].pc = "renewed"] /\ renew[w].pc = "read"
          /\ UNCHANGED <<hold, claim, report>>
      BY <2>3 DEF RenewCommit
    <3>2. QED
      BY <1>0, <2>1, <3>1 DEF RowsKept, RequestOK, RenewSlot
  <2>4. CASE MarkRead(w)
    BY <1>0, <2>1, <2>4 DEF MarkRead, NoRenew, RowsKept, RequestOK, RenewSlot
  <2>5. CASE MarkCommit(w)
    <3>1. renew' = [renew EXCEPT ![w] = NoRenew] /\ UNCHANGED <<hold, claim, report>>
      BY <2>5 DEF MarkCommit
    <3>2. QED
      BY <1>0, <2>1, <3>1 DEF NoRenew, RowsKept, RequestOK
  <2>6. QED
    BY <1>7, <2>2, <2>3, <2>4, <2>5 DEF RenewSteps
<1>8. ASSUME NEW w \in Workers, ReportSteps(w) PROVE RequestOK(u)'
  <2>1. report \in [Workers -> ReportSlot] /\ hold \in [Workers -> [row : Rows, token : Nat]]
    BY DEF TypeOK
  <2>2. CASE \E v \in Verdict : ReportRead(w, v)
    <3>1. PICK v \in Verdict : ReportRead(w, v)
      BY <2>2
    <3>2. PICK r : /\ report' = [report EXCEPT ![w] = r]
                   /\ r = NoReport \/ r = [NoReport EXCEPT !.pc = "accepted", !.row = hold[w].row, !.verdict = v]
      BY <3>1 DEF ReportRead
    <3>3. hold[w] # NoLease /\ hold' = [hold EXCEPT ![w] = NoLease] /\ UNCHANGED <<claim, renew>>
      BY <3>1 DEF ReportRead
    <3>4. r.pc # "idle" => r.row = hold[w].row
      <4>1. CASE r = NoReport
        BY <4>1 DEF NoReport
      <4>2. CASE r = [NoReport EXCEPT !.pc = "accepted", !.row = hold[w].row, !.verdict = v]
        BY <4>2 DEF NoReport
      <4>3. QED
        BY <3>2, <4>1, <4>2
    <3>5. WasLeased(hold[w].row)
      BY <1>0, <3>3 DEF RequestOK, RequestsOK, Consistent
    <3>6. \A a : WasLeased(a) => WasLeased(a)'
      BY <1>0 DEF RowsKept
    <3>7. \A a, j : Committed(a) /\ attempt[a].job = j => Committed(a)' /\ attempt'[a].job = j
      BY <1>0 DEF RowsKept
    <3>8. hold'[u] # NoLease => hold'[u] = hold[u]
      BY <2>1, <3>3
    <3>9. report'[u] = IF u = w THEN r ELSE report[u]
      BY <2>1, <3>2
    <3>10. QED
      BY <1>0, <3>3, <3>4, <3>5, <3>6, <3>7, <3>8, <3>9 DEF RequestOK
  <2>2a. CASE ReportReadJob(w)
    <3>1. /\ \E s : report' = [report EXCEPT ![w].pc = "read", ![w].seen = s]
          /\ report[w].pc = "accepted" /\ UNCHANGED <<hold, claim, renew>>
      BY <2>2a DEF ReportReadJob
    <3>2. QED
      BY <1>0, <2>1, <3>1 DEF RowsKept, RequestOK, ReportSlot
  <2>3. CASE ReportFlush(w)
    <3>1. /\ report' = [report EXCEPT ![w].pc = "flushed", ![w].new = FreshId]
          /\ report[w].pc = "read" /\ UNCHANGED <<hold, claim, renew>>
      BY <2>3 DEF ReportFlush
    <3>2. QED
      BY <1>0, <2>1, <3>1 DEF RowsKept, RequestOK, ReportSlot
  <2>4. CASE ReportCommit(w)
    <3>1. report' = [report EXCEPT ![w] = NoReport] /\ UNCHANGED <<hold, claim, renew>>
      BY <2>4 DEF ReportCommit
    <3>2. QED
      BY <1>0, <2>1, <3>1 DEF NoReport, RowsKept, RequestOK
  <2>5. QED
    BY <1>8, <2>2, <2>2a, <2>3, <2>4 DEF ReportSteps
<1>9. ASSUME NEW w \in Workers, ReportLost(w) \/ WorkerCrash(w) PROVE RequestOK(u)'
  <2>1. /\ hold' = [hold EXCEPT ![w] = NoLease] /\ UNCHANGED <<claim, renew, report>>
        /\ hold \in [Workers -> [row : Rows, token : Nat]]
    BY <1>9 DEF ReportLost, WorkerCrash, server, TypeOK
  <2>2. QED
    BY <1>0, <2>1 DEF RowsKept, RequestOK
<1>10. CASE ServerCrash
  BY <1>0, <1>10 DEF ServerCrash, NoClaim, NoRenew, NoReport, RowsKept, RequestOK
<1>11. QED
  BY <1>1, <1>2, <1>3, <1>4, <1>5, <1>6, <1>7, <1>8, <1>9, <1>10
  DEF Next, vars, server, JobSteps, ClaimSteps, WorkerSteps, ReaperSteps,
      CreateJob, EnqueueCreated, BackoffElapses, Register, Heartbeat, HeartbeatLapses, LeaseLapses,
      ReapDeadScan, ReapDeadCommit, ReapScan, ReapOne, ReapCommit, PromoteScan, PromoteEnqueue,
      PromoteRemove, ReconcileScan, ReconcileOne, ReaperAborts, RedisFlush

\* Who may change a row that is not committed.
FlushedRowKept(n) ==
    attempt[n].status = "inserted" =>
        \/ attempt'[n] = attempt[n]
        \/ \E w \in Workers : ReportCommit(w) /\ n = report[w].new
        \/ (ReapCommit \/ ReaperAborts) /\ n \in reaper.new
        \/ ServerCrash

\* Every insertion respects the budget and every write keeps a row as RowOK says; only
\* the transaction that flushed an uncommitted row changes it.
LEMMA RowsStep ==
    TypeOK /\ Consistent /\ [Next]_vars => RowsOK' /\ \A a \in Attempts : FlushedRowKept(a)
<1> SUFFICES ASSUME TypeOK, Consistent, [Next]_vars, NEW a \in Attempts
             PROVE  RowOK(a)' /\ FlushedRowKept(a)
  BY DEF RowsOK
<1> USE DEF WasLeased, Committed
<1>0. /\ attempt[a] \in Row /\ attempt \in [Attempts -> Row] /\ tokens \in Nat
      /\ RowOK(a) /\ MaxAttempts \in Nat /\ MaxAttempts > 0
  BY DEF TypeOK, Consistent, RowsOK
<1>1. CASE attempt' = attempt
  BY <1>0, <1>1 DEF RowOK, FlushedRowKept
<1>2. ASSUME NEW j \in Jobs, CreateJob(j) PROVE RowOK(a)' /\ FlushedRowKept(a)
  <2>1. attempt' = [attempt EXCEPT ![FreshId] = NewRow(j, 1, "LEASED")] /\ FreshId \in FreeIds
    BY <1>2, FreshIdIsFree DEF CreateJob
  <2>2. QED
    BY <1>0, <2>1 DEF FreeIds, NewRow, EmptyRow, RowOK, FlushedRowKept
<1>3. ASSUME NEW w \in Workers, ClaimCommit(w) PROVE RowOK(a)' /\ FlushedRowKept(a)
  <2>1. /\ Committed(claim[w].row)
        /\ OrmWrite(claim[w].seen, "LEASED", attempt[claim[w].row].status) \in AttemptStatus
    BY <1>3 DEF ClaimCommit, Consistent, RequestsOK, RequestOK, OrmWrite, AttemptStatus, Active
  <2>2. attempt' = [attempt EXCEPT ![claim[w].row] =
          [attempt[claim[w].row] EXCEPT !.worker = w, !.token = tokens + 1, !.lease = "valid",
             !.status = OrmWrite(claim[w].seen, "LEASED", attempt[claim[w].row].status)]]
    BY <1>0, <1>3, <2>1 DEF ClaimCommit
  <2>3. attempt[claim[w].row] \in Row /\ RowOK(claim[w].row)
    BY <2>1, <1>0 DEF Consistent, RowsOK
  <2>4. QED
    BY <1>0, <2>1, <2>2, <2>3 DEF Row, AttemptStatus, Active, RowOK, FlushedRowKept
<1>4. ASSUME NEW w \in Workers, RenewCommit(w) PROVE RowOK(a)' /\ FlushedRowKept(a)
  <2>1. WasLeased(renew[w].row)
    BY <1>4 DEF RenewCommit, Consistent, RequestsOK, RequestOK
  <2>2. attempt' = [attempt EXCEPT ![renew[w].row] = [attempt[renew[w].row] EXCEPT !.lease = "valid"]]
    BY <1>0, <1>4, <2>1 DEF RenewCommit
  <2>3. QED
    BY <1>0, <2>1, <2>2 DEF Row, AttemptStatus, Active, RowOK, FlushedRowKept
<1>5. ASSUME NEW w \in Workers, MarkCommit(w) PROVE RowOK(a)' /\ FlushedRowKept(a)
  <2>1. /\ WasLeased(renew[w].row)
        /\ OrmWrite(renew[w].seen, "RUNNING", attempt[renew[w].row].status) \in AttemptStatus
    BY <1>5 DEF MarkCommit, Consistent, RequestsOK, RequestOK, OrmWrite, AttemptStatus, Active
  <2>2. attempt' = [attempt EXCEPT ![renew[w].row] = [attempt[renew[w].row] EXCEPT
                      !.status = OrmWrite(renew[w].seen, "RUNNING", attempt[renew[w].row].status)]]
    BY <1>0, <1>5, <2>1 DEF MarkCommit
  <2>3. QED
    BY <1>0, <2>1, <2>2 DEF Row, AttemptStatus, Active, RowOK, FlushedRowKept
<1>6. ASSUME NEW w \in Workers, ReportFlush(w) PROVE RowOK(a)' /\ FlushedRowKept(a)
  <2> DEFINE r == report[w].row
  <2>1. WasLeased(r) /\ attempt[r] \in Row /\ RowOK(r) /\ Retryable(r)
    BY <1>0, <1>6 DEF ReportFlush, Retries, Consistent, RowsOK, RequestsOK, RequestOK
  <2>2. /\ attempt' = [attempt EXCEPT ![FreshId] = NewRow(attempt[r].job, attempt[r].number + 1, "inserted")]
        /\ FreshId \in FreeIds
    BY <1>6, FreshIdIsFree DEF ReportFlush
  <2>3. attempt[r].job \in Jobs /\ attempt[r].number + 1 \in 1..MaxAttempts
    BY <1>0, <2>1 DEF RowOK, Retryable, Row, AttemptStatus, Active
  <2>4. QED
    BY <1>0, <2>2, <2>3 DEF FreeIds, NewRow, EmptyRow, RowOK, FlushedRowKept
<1>7. ASSUME NEW w \in Workers, ReportCommit(w) PROVE RowOK(a)' /\ FlushedRowKept(a)
  <2>1. WasLeased(report[w].row) /\ (report[w].new # NoRow => attempt[report[w].new].status = "inserted")
    BY <1>7 DEF ReportCommit, Consistent, RequestsOK, RequestOK, FlushedOK, Flushed
  <2>2. AttemptVerdict(report[w].verdict) \in AttemptStatus
    BY DEF AttemptVerdict, Verdict, AttemptStatus, Active, ReportSlot, TypeOK
  <2>3. CASE a = report[w].row
    <3>0. a # report[w].new
      BY <2>1, <2>3 DEF AttemptStatus, Active
    <3>1. attempt'[a] = [attempt[a] EXCEPT !.status = AttemptVerdict(report[w].verdict),
                                          !.verdict = report[w].verdict]
      BY <1>7, <2>3, <3>0 DEF ReportCommit
    <3>2. QED
      BY <1>0, <2>1, <2>2, <2>3, <3>1 DEF Row, AttemptStatus, Active, RowOK, FlushedRowKept
  <2>4. CASE a # report[w].row /\ a = report[w].new
    <3>1. attempt'[a] = [attempt[a] EXCEPT !.status = "LEASED"] /\ attempt[a].status = "inserted"
      BY <1>7, <2>1, <2>4 DEF ReportCommit
    <3>2. RowOK(a)'
      BY <1>0, <3>1 DEF Row, RowOK
    <3>3. FlushedRowKept(a)
      BY <1>7, <2>4 DEF FlushedRowKept
    <3>4. QED
      BY <3>2, <3>3
  <2>5. CASE a # report[w].row /\ a # report[w].new
    BY <1>0, <1>7, <2>5 DEF ReportCommit, RowOK, FlushedRowKept
  <2>6. QED
    BY <2>3, <2>4, <2>5
<1>8. CASE ReapDeadCommit
  <2>1. a \in reaper.rows => WasLeased(a)
    BY DEF Consistent, TickOK
  <2>2. attempt'[a] = IF a \in reaper.rows THEN [attempt[a] EXCEPT !.lease = "expired"] ELSE attempt[a]
    BY <1>8 DEF ReapDeadCommit
  <2>3. QED
    BY <1>0, <2>1, <2>2 DEF Row, AttemptStatus, Active, RowOK, FlushedRowKept
<1>9. ASSUME NEW b \in Attempts, ReapOne(b), Retryable(b) PROVE RowOK(a)' /\ FlushedRowKept(a)
  <2>1. WasLeased(b) /\ attempt[b] \in Row /\ RowOK(b)
    BY <1>0, <1>9 DEF ReapOne, Consistent, RowsOK, TickOK
  <2>2. /\ attempt' = [attempt EXCEPT ![FreshId] = NewRow(attempt[b].job, attempt[b].number + 1, "inserted")]
        /\ FreshId \in FreeIds
    BY <1>9, FreshIdIsFree DEF ReapOne
  <2>3. attempt[b].job \in Jobs /\ attempt[b].number + 1 \in 1..MaxAttempts
    BY <1>0, <1>9, <2>1 DEF RowOK, Retryable, Row, AttemptStatus, Active
  <2>4. QED
    BY <1>0, <2>2, <2>3 DEF FreeIds, NewRow, EmptyRow, RowOK, FlushedRowKept
<1>10. CASE ReapCommit
  <2>1. (a \in reaper.done => WasLeased(a)) /\ (a \in reaper.new => attempt[a].status = "inserted")
    BY DEF Consistent, TickOK, FlushedOK, Flushed
  <2>2. CASE a \in reaper.done
    <3>0. a \notin reaper.new
      BY <2>1, <2>2 DEF AttemptStatus, Active
    <3>1. attempt'[a] = [attempt[a] EXCEPT !.status = "INFRA_ERROR"]
      BY <1>10, <2>2, <3>0 DEF ReapCommit
    <3>2. QED
      BY <1>0, <2>1, <2>2, <3>1 DEF Row, AttemptStatus, Active, RowOK, FlushedRowKept
  <2>3. CASE a \notin reaper.done /\ a \in reaper.new
    <3>1. attempt'[a] = [attempt[a] EXCEPT !.status = "LEASED"] /\ attempt[a].status = "inserted"
      BY <1>10, <2>1, <2>3 DEF ReapCommit
    <3>2. RowOK(a)'
      BY <1>0, <3>1 DEF Row, RowOK
    <3>3. FlushedRowKept(a)
      BY <1>10, <2>3 DEF FlushedRowKept
    <3>4. QED
      BY <3>2, <3>3
  <2>4. CASE a \notin reaper.done /\ a \notin reaper.new
    BY <1>0, <1>10, <2>4 DEF ReapCommit, RowOK, FlushedRowKept
  <2>5. QED
    BY <2>2, <2>3, <2>4
<1>11. ASSUME NEW b \in Attempts, LeaseLapses(b) PROVE RowOK(a)' /\ FlushedRowKept(a)
  <2>1. attempt[b].token # 0 /\ attempt[b].status \in Active
    BY <1>11 DEF LeaseLapses, Consistent, RowsOK, RowOK, Active
  <2>2. attempt' = [attempt EXCEPT ![b] = [attempt[b] EXCEPT !.lease = "expired"]]
    BY <1>0, <1>11 DEF LeaseLapses
  <2>3. QED
    BY <1>0, <2>1, <2>2 DEF Row, Active, RowOK, FlushedRowKept
<1>12. CASE ServerCrash
  BY <1>0, <1>12 DEF ServerCrash, RolledBack, EmptyRow, RowOK, FlushedRowKept
<1>13. CASE ReaperAborts
  BY <1>0, <1>13 DEF ReaperAborts, RolledBack, EmptyRow, RowOK, FlushedRowKept
<1>14. QED
  BY <1>1, <1>2, <1>3, <1>4, <1>5, <1>6, <1>7, <1>8, <1>9, <1>10, <1>11, <1>12, <1>13
  DEF Next, vars, JobSteps, ClaimSteps, RenewSteps, ReportSteps, WorkerSteps, ReaperSteps,
      EnqueueCreated, BackoffElapses, ClaimPop, ClaimReadJob, ClaimReadAttempt, ClaimRespond,
      RenewRead, MarkRead, ReportRead, ReportReadJob, Register, Heartbeat, HeartbeatLapses, ReportLost,
      WorkerCrash, ReapDeadScan, ReapScan, ReapOne, PromoteScan, PromoteEnqueue, PromoteRemove,
      ReconcileScan, ReconcileOne, RedisFlush

\* FlushedOK survives a step that leaves the reports and the flushed rows alone.
LEMMA FlushedIsKept ==
  ASSUME TypeOK, RowsKept, report' = report,
         FlushedOK, RequestsOK,
         reaper'.new \subseteq reaper.new,
         \A n \in reaper'.new : attempt'[n] = attempt[n],
         \A w \in Workers : report[w].pc = "flushed" => attempt'[report[w].new] = attempt[report[w].new]
  PROVE  FlushedOK'
<1> USE DEF WasLeased, Committed
<1>1. ASSUME NEW w \in Workers, report[w].pc = "flushed"
      PROVE  Retries(w)' /\ Flushed(report[w].new)' /\ Successor(report[w].new, report[w].row)'
  <2>1. Retries(w) /\ Flushed(report[w].new) /\ Successor(report[w].new, report[w].row)
    BY <1>1 DEF FlushedOK
  <2>2. report[w].row \in Attempts /\ attempt'[report[w].row].job = attempt[report[w].row].job
        /\ attempt'[report[w].row].number = attempt[report[w].row].number
    BY <1>1 DEF RequestsOK, RequestOK, RowsKept
  <2>3. QED
    BY <1>1, <2>1, <2>2 DEF Retries, Retryable, Flushed, Successor
<1>2. ASSUME NEW n \in reaper'.new
      PROVE  Flushed(n)' /\ \E a \in Attempts : WasLeased(a)' /\ Successor(n, a)'
  <2>1. Flushed(n) /\ attempt'[n] = attempt[n]
    BY <1>2 DEF FlushedOK
  <2>2. PICK a \in Attempts : WasLeased(a) /\ Successor(n, a)
    BY <1>2 DEF FlushedOK
  <2>3. WasLeased(a)' /\ Successor(n, a)'
    BY <2>1, <2>2 DEF RowsKept, Successor
  <2>4. QED
    BY <2>1, <2>3 DEF Flushed
<1>3. QED
  BY <1>1, <1>2 DEF FlushedOK

\* The rows a report or a tick has flushed stay its own until it ends.
LEMMA FlushedStep == TypeOK /\ Consistent /\ [Next]_vars => FlushedOK'
<1> SUFFICES ASSUME TypeOK, Consistent, [Next]_vars PROVE FlushedOK'
  OBVIOUS
<1>0. /\ RowsKept /\ \A a \in Attempts : FlushedRowKept(a)
      /\ report \in [Workers -> ReportSlot] /\ attempt \in [Attempts -> Row]
      /\ FlushedOK /\ RequestsOK /\ reaper.new \subseteq Attempts /\ reaper \in Tick
  BY RowsKeptStep, RowsStep DEF TypeOK, Consistent, Tick
<1>1. ASSUME NEW w \in Workers, ReportFlush(w) PROVE FlushedOK'
  <2> DEFINE r == report[w].row
  <2>0. PICK f : f = FreshId
    OBVIOUS
  <2>1. /\ attempt' = [attempt EXCEPT ![f] = NewRow(attempt[r].job, attempt[r].number + 1, "inserted")]
        /\ report' = [report EXCEPT ![w] = [report[w] EXCEPT !.pc = "flushed", !.new = f]]
        /\ reaper' = reaper /\ Retries(w) /\ report[w].pc = "read"
    BY <1>0, <1>1, <2>0 DEF ReportFlush
  <2>2. f \in Attempts /\ attempt[f].status = "absent" /\ f # NoRow
    BY <1>1, <2>0, FreshIdIsFree DEF ReportFlush, FreeIds
  <2>3. WasLeased(r) /\ r # f
    BY <2>1, <2>2 DEF Consistent, RequestsOK, RequestOK, WasLeased, Committed, AttemptStatus, Active
  <2>4. f \notin reaper.new /\ \A v \in Workers : report[v].new # f
    BY <1>0, <2>2 DEF FlushedOK, Flushed
  <2>5. /\ report'[w].pc = "flushed" /\ report'[w].new = f
        /\ report'[w].row = r /\ report'[w].verdict = report[w].verdict
        /\ attempt'[r] = attempt[r]
        /\ attempt'[f] = NewRow(attempt[r].job, attempt[r].number + 1, "inserted")
    BY <1>0, <2>1, <2>2, <2>3 DEF WasLeased, Committed, ReportSlot
  <2>6. Retries(w)' /\ Flushed(f)' /\ Successor(f, r)'
    <3>1. /\ attempt'[f].status = "inserted" /\ attempt'[f].job = attempt[r].job
          /\ attempt'[f].number = attempt[r].number + 1
      BY <2>5 DEF NewRow, EmptyRow
    <3>2. Retries(w)'
      BY <2>1, <2>5 DEF Retries, Retryable
    <3>3. Flushed(f)'
      BY <2>2, <3>1 DEF Flushed
    <3>4. Successor(f, r)'
      BY <2>5, <3>1 DEF Successor
    <3>5. QED
      BY <3>2, <3>3, <3>4
  <2>7. ASSUME NEW v \in Workers, v # w, report[v].pc = "flushed"
        PROVE  Retries(v)' /\ Flushed(report[v].new)' /\ Successor(report[v].new, report[v].row)'
    <3>1. Retries(v) /\ Flushed(report[v].new) /\ Successor(report[v].new, report[v].row)
      BY <1>0, <2>7 DEF FlushedOK
    <3>2. WasLeased(report[v].row) /\ report[v].row # f
      BY <1>0, <2>2, <2>7 DEF RequestsOK, RequestOK, WasLeased, Committed, AttemptStatus, Active
    <3>3. attempt'[report[v].row] = attempt[report[v].row] /\ attempt'[report[v].new] = attempt[report[v].new]
      BY <1>0, <2>1, <2>4, <3>1, <3>2 DEF Flushed, WasLeased, Committed
    <3>4. report'[v] = report[v]
      BY <1>0, <2>1, <2>7
    <3>5. QED
      BY <3>1, <3>3, <3>4 DEF Retries, Retryable, Flushed, Successor
  <2>8. \A v \in Workers : v # w => report'[v] = report[v]
    BY <1>0, <2>1
  <2>9. \A n \in reaper'.new : Flushed(n)' /\ \E a \in Attempts : WasLeased(a)' /\ Successor(n, a)'
    <3>1. SUFFICES ASSUME NEW n \in reaper.new
                   PROVE  Flushed(n)' /\ \E a \in Attempts : WasLeased(a)' /\ Successor(n, a)'
      BY <2>1
    <3>2. PICK a \in Attempts : WasLeased(a) /\ Successor(n, a)
      BY <1>0 DEF FlushedOK
    <3>3. a # f /\ n # f /\ Flushed(n)
      BY <1>0, <2>2, <2>4, <3>2 DEF FlushedOK, WasLeased, Committed, AttemptStatus, Active
    <3>4. attempt'[a] = attempt[a] /\ attempt'[n] = attempt[n]
      BY <1>0, <2>1, <3>3 DEF Flushed
    <3>5. QED
      BY <3>2, <3>3, <3>4 DEF Flushed, WasLeased, Committed, Successor
  <2>10. QED
    BY <1>0, <2>1, <2>2, <2>4, <2>5, <2>6, <2>7, <2>8, <2>9 DEF FlushedOK
<1>2. ASSUME NEW w \in Workers,
             ReportCommit(w) \/ ReportReadJob(w) \/ \E v \in Verdict : ReportRead(w, v)
      PROVE  FlushedOK'
  <2>1. /\ \A v \in Workers : v # w => report'[v] = report[v]
        /\ report'[w].new = NoRow /\ report'[w].pc # "flushed" /\ reaper' = reaper
    <3>1. CASE ReportCommit(w)
      <4>1. report' = [report EXCEPT ![w] = NoReport] /\ reaper' = reaper
        BY <3>1 DEF ReportCommit
      <4>2. QED
        BY <1>0, <4>1 DEF NoReport
    <3>2. CASE \E v \in Verdict : ReportRead(w, v)
      BY <1>0, <3>2 DEF ReportRead, NoReport
    <3>3. CASE ReportReadJob(w)
      <4>1. report' = [report EXCEPT ![w] = [report[w] EXCEPT
                         !.pc = "read", !.seen = job[attempt[report[w].row].job]]]
            /\ reaper' = reaper /\ report[w].pc # "flushed" /\ report[w] \in ReportSlot
        BY <1>0, <3>3 DEF ReportReadJob
      <4>2. QED
        BY <1>0, <4>1 DEF FlushedOK, ReportSlot
    <3>4. QED
      BY <1>2, <3>1, <3>2, <3>3
  <2>2. ASSUME NEW n \in Attempts, attempt[n].status = "inserted", n # report[w].new
        PROVE  attempt'[n] = attempt[n]
    <3>1. CASE ReportCommit(w)
      <4>1. n # report[w].row
        BY <1>0, <2>2, <3>1 DEF ReportCommit, RequestsOK, RequestOK, WasLeased, Committed, AttemptStatus, Active
      <4>2. QED
        BY <2>2, <3>1, <4>1 DEF ReportCommit
    <3>2. CASE \E v \in Verdict : ReportRead(w, v)
      BY <3>2 DEF ReportRead
    <3>3. CASE ReportReadJob(w)
      BY <3>3 DEF ReportReadJob
    <3>4. QED
      BY <1>2, <3>1, <3>2, <3>3
  <2>3. ASSUME NEW v \in Workers, v # w
        PROVE  /\ report'[v] = report[v]
               /\ report[v].pc = "flushed" => 
                    Retries(v)' /\ Flushed(report[v].new)' /\ Successor(report[v].new, report[v].row)'
    <3>1. report'[v] = report[v]
      BY <1>0, <2>1, <2>3
    <3>2. SUFFICES ASSUME report[v].pc = "flushed"
                   PROVE  Retries(v)' /\ Flushed(report[v].new)' /\ Successor(report[v].new, report[v].row)'
      BY <3>1
    <3>3. Retries(v) /\ Flushed(report[v].new) /\ Successor(report[v].new, report[v].row)
      BY <1>0, <3>2 DEF FlushedOK
    <3>4. report[v].new # report[w].new
      BY <1>0, <2>3, <3>3 DEF FlushedOK, Flushed
    <3>5. attempt'[report[v].new] = attempt[report[v].new]
      BY <2>2, <3>3, <3>4 DEF Flushed
    <3>6. report[v].row \in Attempts /\ attempt'[report[v].row].job = attempt[report[v].row].job
          /\ attempt'[report[v].row].number = attempt[report[v].row].number
      BY <1>0, <3>2 DEF RequestsOK, RequestOK, RowsKept, WasLeased, Committed
    <3>7. QED
      BY <3>1, <3>3, <3>5, <3>6 DEF Retries, Retryable, Flushed, Successor
  <2>4. ASSUME NEW n \in reaper.new
        PROVE  Flushed(n)' /\ \E a \in Attempts : WasLeased(a)' /\ Successor(n, a)'
    <3>1. Flushed(n) /\ n # report[w].new
      BY <1>0 DEF FlushedOK
    <3>2. attempt'[n] = attempt[n]
      BY <2>2, <3>1 DEF Flushed
    <3>3. PICK a \in Attempts : WasLeased(a) /\ Successor(n, a)
      BY <1>0 DEF FlushedOK
    <3>4. WasLeased(a)' /\ Successor(n, a)'
      BY <1>0, <3>2, <3>3 DEF RowsKept, WasLeased, Committed, Successor
    <3>5. QED
      BY <3>1, <3>2, <3>4 DEF Flushed
  <2>5. NoRow \notin reaper.new
    BY <1>0
  <2>6. QED
    BY <1>0, <2>1, <2>3, <2>4, <2>5 DEF FlushedOK
<1>3. ASSUME NEW b \in Attempts, ReapOne(b), Retryable(b) PROVE FlushedOK'
  <2>0. PICK f : f = FreshId
    OBVIOUS
  <2>1. /\ attempt' = [attempt EXCEPT ![f] = NewRow(attempt[b].job, attempt[b].number + 1, "inserted")]
        /\ report' = report /\ reaper'.new = reaper.new \cup {f}
    BY <1>0, <1>3, <2>0 DEF ReapOne, TypeOK, Tick
  <2>2. f \in Attempts /\ attempt[f].status = "absent" /\ f # NoRow
    BY <1>3, <2>0, FreshIdIsFree DEF ReapOne, FreeIds
  <2>3. WasLeased(b) /\ b # f
    BY <1>3, <2>2 DEF ReapOne, Consistent, TickOK, WasLeased, Committed, AttemptStatus, Active
  <2>4. f \notin reaper.new /\ \A v \in Workers : report[v].new # f
    BY <1>0, <2>2 DEF FlushedOK, Flushed
  <2>5. attempt'[b] = attempt[b] /\ Flushed(f)' /\ WasLeased(b)' /\ Successor(f, b)'
    BY <1>0, <2>1, <2>2, <2>3 DEF Flushed, WasLeased, Committed, Successor, NewRow, EmptyRow
  <2>6. ASSUME NEW n \in reaper.new
        PROVE  Flushed(n)' /\ \E a \in Attempts : WasLeased(a)' /\ Successor(n, a)'
    <3>1. Flushed(n) /\ n # f
      BY <1>0, <2>4 DEF FlushedOK
    <3>2. attempt'[n] = attempt[n]
      BY <1>0, <2>1, <3>1 DEF Flushed
    <3>3. PICK a \in Attempts : WasLeased(a) /\ Successor(n, a)
      BY <1>0 DEF FlushedOK
    <3>4. WasLeased(a)' /\ Successor(n, a)'
      BY <1>0, <3>2, <3>3 DEF RowsKept, WasLeased, Committed, Successor
    <3>5. QED
      BY <3>1, <3>2, <3>4 DEF Flushed
  <2>7. ASSUME NEW v \in Workers, report[v].pc = "flushed"
        PROVE  Retries(v)' /\ Flushed(report[v].new)' /\ Successor(report[v].new, report[v].row)'
    <3>1. Retries(v) /\ Flushed(report[v].new) /\ Successor(report[v].new, report[v].row)
      BY <1>0, <2>7 DEF FlushedOK
    <3>2. attempt'[report[v].new] = attempt[report[v].new]
      BY <1>0, <2>1, <2>4, <3>1 DEF Flushed
    <3>3. report[v].row \in Attempts /\ attempt'[report[v].row].job = attempt[report[v].row].job
          /\ attempt'[report[v].row].number = attempt[report[v].row].number
      BY <1>0, <2>7 DEF RequestsOK, RequestOK, RowsKept, WasLeased, Committed
    <3>4. QED
      BY <2>1, <3>1, <3>2, <3>3 DEF Retries, Retryable, Flushed, Successor
  <2>8. QED
    BY <1>0, <2>1, <2>2, <2>4, <2>5, <2>6, <2>7 DEF FlushedOK
<1>4. CASE ServerCrash
  <2>1. report' = [w \in Workers |-> NoReport] /\ reaper' = NoTick
    BY <1>4 DEF ServerCrash
  <2>2. QED
    BY <2>1 DEF NoReport, NoTick, FlushedOK
<1>5. ASSUME report' = report, reaper'.new \subseteq reaper.new,
             \A w \in Workers : ~ReportCommit(w), ~ServerCrash,
             (ReapCommit \/ ReaperAborts) => reaper'.new = {}
      PROVE  FlushedOK'
  <2>1. \A n \in reaper'.new : attempt'[n] = attempt[n]
    BY <1>0, <1>5 DEF FlushedOK, Flushed, FlushedRowKept
  <2>2. \A w \in Workers : report[w].pc = "flushed" => attempt'[report[w].new] = attempt[report[w].new]
    BY <1>0, <1>5 DEF FlushedOK, Flushed, FlushedRowKept
  <2>3. QED
    BY <1>0, <1>5, <2>1, <2>2, FlushedIsKept
<1>6. ASSUME ReapCommit \/ ReaperAborts \/ ReapDeadCommit
      PROVE  report' = report /\ reaper'.new = {}
  BY <1>6 DEF ReapCommit, ReaperAborts, ReapDeadCommit, NoTick
<1>7. ASSUME ReapDeadScan \/ ReapScan \/ PromoteScan \/ ReconcileScan
      PROVE  report' = report /\ reaper'.new \subseteq reaper.new
  <2>1. CASE ReapDeadScan
    BY <1>0, <2>1 DEF ReapDeadScan, Tick
  <2>2. CASE ReapScan
    BY <1>0, <2>2 DEF ReapScan, Tick
  <2>3. CASE PromoteScan
    BY <1>0, <2>3 DEF PromoteScan, Tick
  <2>4. CASE ReconcileScan
    BY <1>0, <2>4 DEF ReconcileScan, NoTick, Tick
  <2>5. QED
    BY <1>7, <2>1, <2>2, <2>3, <2>4
<1>8. ASSUME NEW b \in Attempts, ReapOne(b), ~Retryable(b)
      PROVE  report' = report /\ reaper'.new \subseteq reaper.new
  BY <1>0, <1>8 DEF ReapOne, Tick
<1>9. ASSUME PromoteRemove \/ \E j \in Jobs : PromoteEnqueue(j) \/ ReconcileOne(j)
      PROVE  report' = report /\ reaper'.new \subseteq reaper.new
  <2>1. ASSUME NEW j \in Jobs, PromoteEnqueue(j)
        PROVE  report' = report /\ reaper'.new \subseteq reaper.new
    BY <1>0, <2>1 DEF PromoteEnqueue, Tick
  <2>2. ASSUME NEW j \in Jobs, ReconcileOne(j)
        PROVE  report' = report /\ reaper'.new \subseteq reaper.new
    BY <1>0, <2>2 DEF ReconcileOne, NoTick, Tick
  <2>3. CASE PromoteRemove
    BY <1>0, <2>3 DEF PromoteRemove, NoTick, Tick
  <2>4. QED
    BY <1>9, <2>1, <2>2, <2>3
<1>10. \/ report' = report /\ reaper' = reaper
       \/ ServerCrash \/ ReaperSteps \/ ReaperAborts \/ \E w \in Workers : ReportSteps(w)
  BY StepsFrame
<1>11. CASE report' = report /\ reaper' = reaper
  <2>1. ~ServerCrash \/ FlushedOK'
    BY <1>4
  <2>2. (\A w \in Workers : ~ReportCommit(w)) \/ FlushedOK'
    BY <1>2
  <2>3. QED
    BY <1>5, <1>6, <1>11, <2>1, <2>2
<1>12. ASSUME report' = report, reaper'.new \subseteq reaper.new PROVE FlushedOK'
  BY <1>2, <1>4, <1>5, <1>6, <1>12
<1>13. CASE ReaperSteps
  <2>1. CASE ReapDeadCommit \/ ReapCommit
    BY <1>6, <1>12, <2>1
  <2>2. CASE ReapDeadScan \/ ReapScan \/ PromoteScan \/ ReconcileScan
    BY <1>7, <1>12, <2>2
  <2>3. CASE \E a \in Attempts : ReapOne(a)
    BY <1>3, <1>8, <1>12, <2>3
  <2>4. CASE PromoteRemove \/ \E j \in Jobs : PromoteEnqueue(j) \/ ReconcileOne(j)
    BY <1>9, <1>12, <2>4
  <2>5. QED
    BY <1>13, <2>1, <2>2, <2>3, <2>4 DEF ReaperSteps
<1>14. ASSUME NEW w \in Workers, ReportSteps(w) PROVE FlushedOK'
  BY <1>1, <1>2, <1>14 DEF ReportSteps
<1>15. CASE ReaperAborts
  BY <1>6, <1>12, <1>15
<1>16. QED
  BY <1>4, <1>10, <1>11, <1>13, <1>14, <1>15

\* What a tick is about to commit stays backed by rows: each job it will requeue
\* by a retry it has flushed, each it will give up by a last attempt it reaps.
LEMMA TickStep == TypeOK /\ Consistent /\ [Next]_vars => TickOK'
<1> SUFFICES ASSUME TypeOK, Consistent, [Next]_vars PROVE TickOK'
  OBVIOUS
<1> USE DEF WasLeased, Committed
<1>0. /\ RowsKept /\ \A a \in Attempts : FlushedRowKept(a)
      /\ attempt \in [Attempts -> Row] /\ reaper \in Tick
      /\ FlushedOK /\ RequestsOK /\ TickOK /\ RowsOK
  BY RowsKeptStep, RowsStep DEF TypeOK, Consistent
<1>1. ASSUME \A n \in reaper.new : attempt'[n].job = attempt[n].job,
             reaper'.rows \cup reaper'.done \subseteq reaper.rows \cup reaper.done,
             \/ reaper'.dirty = {}
             \/ /\ reaper'.done = reaper.done /\ reaper'.new = reaper.new
                /\ reaper'.seen = reaper.seen /\ reaper'.dirty = reaper.dirty
      PROVE  TickOK'
  <2>1. \A a \in reaper'.rows \cup reaper'.done : WasLeased(a)'
    BY <1>0, <1>1 DEF TickOK, RowsKept
  <2>2. CASE reaper'.dirty = {}
    BY <2>1, <2>2 DEF TickOK
  <2>3. CASE /\ reaper'.done = reaper.done /\ reaper'.new = reaper.new
             /\ reaper'.seen = reaper.seen /\ reaper'.dirty = reaper.dirty
    <3>1. SUFFICES ASSUME NEW j \in reaper.dirty
                   PROVE  \/ reaper.seen[j] = "QUEUED" /\ \E n \in reaper.new : attempt'[n].job = j
                          \/ /\ reaper.seen[j] = "ERRORED"
                             /\ \E a \in reaper.done : attempt'[a].job = j /\ ~Retryable(a)'
      BY <2>1, <2>3 DEF TickOK
    <3>2. \A a \in reaper.done : attempt'[a].job = attempt[a].job /\ (Retryable(a)' <=> Retryable(a))
      BY <1>0 DEF TickOK, RowsKept, Retryable
    <3>3. QED
      BY <1>0, <1>1, <3>2 DEF TickOK
  <2>4. QED
    BY <1>1, <2>2, <2>3
<1>2. CASE reaper' = NoTick \/ reaper' = [NoTick EXCEPT !.pc = "leases"] \/ reaper' = [NoTick EXCEPT !.pc = "promote"]
           \/ reaper' = [NoTick EXCEPT !.pc = "reconcile"]
  BY <1>2 DEF NoTick, TickOK
<1>3. CASE reaper' = reaper
  <2>1. CASE ServerCrash \/ ReaperAborts \/ ReapCommit
    BY <1>2, <2>1 DEF ServerCrash, ReaperAborts, ReapCommit
  <2>2. CASE ~(ServerCrash \/ ReaperAborts \/ ReapCommit)
    <3>1. \A n \in reaper.new : attempt'[n] = attempt[n]
      BY <1>0, <2>2 DEF FlushedOK, Flushed, FlushedRowKept
    <3>2. QED
      BY <1>1, <1>3, <3>1
  <2>3. QED
    BY <2>1, <2>2
<1>4. CASE ReapDeadScan
  <2>1. ASSUME NEW a \in Attempts, attempt[a].status \in Active, attempt[a].worker \in Workers
        PROVE  WasLeased(a)'
    <3>1. attempt[a].status \in AttemptStatus /\ RowOK(a)
      BY <1>0, <2>1 DEF AttemptStatus, RowsOK
    <3>2. attempt[a].token # 0
      BY <2>1, <3>1 DEF RowOK, AttemptStatus, Active
    <3>3. QED
      BY <1>0, <3>1, <3>2 DEF RowsKept
  <2>2. reaper'.done = reaper.done /\ reaper'.seen = reaper.seen /\ reaper'.dirty = reaper.dirty
        /\ reaper'.new = reaper.new /\ attempt' = attempt
    BY <1>0, <1>4 DEF ReapDeadScan, Tick
  <2>3. \A a \in reaper'.rows : a \in reaper.rows \/ WasLeased(a)'
    BY <1>0, <1>4, <2>1 DEF ReapDeadScan, Tick
  <2>4. QED
    BY <1>0, <2>2, <2>3 DEF TickOK, Retryable
<1>5. CASE ReapScan
  <2>1. ASSUME NEW a \in Attempts, Lapsed(a) PROVE WasLeased(a)'
    <3>1. attempt[a].status \in AttemptStatus /\ RowOK(a)
      BY <1>0, <2>1 DEF AttemptStatus, RowsOK, Lapsed
    <3>2. attempt[a].token # 0
      BY <2>1, <3>1 DEF RowOK, AttemptStatus, Active, Lapsed
    <3>3. QED
      BY <1>0, <3>1, <3>2 DEF RowsKept
  <2>2. reaper'.done = reaper.done /\ reaper'.seen = reaper.seen /\ reaper'.dirty = reaper.dirty
        /\ reaper'.new = reaper.new /\ attempt' = attempt
    BY <1>0, <1>5 DEF ReapScan, Expired, Tick
  <2>3. \A a \in reaper'.rows : a \in reaper.rows \/ WasLeased(a)'
    BY <1>0, <1>5, <2>1 DEF ReapScan, Expired, Tick
  <2>4. QED
    BY <1>0, <2>2, <2>3 DEF TickOK, Retryable
<1>6. ASSUME NEW b \in Attempts, ReapOne(b) PROVE TickOK'
  <2>0. PICK j, s, f : j = attempt[b].job /\ f = FreshId /\ s = IF Retryable(b) THEN "QUEUED" ELSE "ERRORED"
    OBVIOUS
  <2>1. b \in reaper.rows /\ WasLeased(b) /\ j \in Jobs
    BY <1>0, <1>6, <2>0 DEF ReapOne, TickOK, RowsOK, RowOK, AttemptStatus, Active
  <2>2. /\ reaper'.rows = reaper.rows \ {b} /\ reaper'.done = reaper.done \cup {b}
        /\ reaper'.seen = [reaper.seen EXCEPT ![j] = s]
        /\ reaper'.dirty \subseteq reaper.dirty \cup {j}
        /\ reaper'.new = IF Retryable(b) THEN reaper.new \cup {f} ELSE reaper.new
    <3>1. PICK d, t : /\ d \subseteq reaper.dirty \cup {j}
                      /\ t = [reaper EXCEPT !.rows = @ \ {b}, !.done = reaper.done \cup {b},
                                            !.seen[j] = s, !.dirty = d]
                      /\ reaper' = IF Retryable(b)
                                   THEN [t EXCEPT !.new = @ \cup {f}, !.flushed = reaper.done \cup {b}]
                                   ELSE t
      BY <1>6, <2>0 DEF ReapOne
    <3>2. /\ t.rows = reaper.rows \ {b} /\ t.done = reaper.done \cup {b} /\ t.dirty = d
          /\ t.seen = [reaper.seen EXCEPT ![j] = s] /\ t.new = reaper.new
          /\ t = [pc |-> t.pc, stale |-> t.stale, rows |-> t.rows, done |-> t.done, flushed |-> t.flushed,
                  new |-> t.new, seen |-> t.seen, dirty |-> t.dirty, jobs |-> t.jobs, entry |-> t.entry]
      BY <1>0, <3>1 DEF Tick
    <3>3. QED
      BY <3>1, <3>2
  <2>3. \A a \in reaper'.rows \cup reaper'.done : WasLeased(a)'
    BY <1>0, <2>2, <2>1 DEF TickOK, RowsKept
  <2>4. /\ Retryable(b) => /\ f \in FreeIds
                           /\ attempt' = [attempt EXCEPT ![f] = NewRow(j, attempt[b].number + 1, "inserted")]
        /\ ~Retryable(b) => attempt' = attempt
    BY <1>6, <2>0, FreshIdIsFree DEF ReapOne
  <2>5. ASSUME NEW n \in reaper.new PROVE attempt'[n].job = attempt[n].job
    BY <1>0, <2>4 DEF FreeIds, FlushedOK, Flushed
  <2>6. \A a \in reaper'.done : attempt'[a].job = attempt[a].job /\ (Retryable(a)' <=> Retryable(a))
    BY <1>0, <2>1, <2>2 DEF TickOK, RowsKept, Retryable
  <2>7. ASSUME NEW k \in reaper'.dirty
        PROVE  \/ reaper'.seen[k] = "QUEUED" /\ \E n \in reaper'.new : attempt'[n].job = k
               \/ reaper'.seen[k] = "ERRORED" /\ \E a \in reaper'.done : attempt'[a].job = k /\ ~Retryable(a)'
    <3>0. reaper.seen \in [Jobs -> JobStatus \cup {"absent"}]
      BY <1>0 DEF Tick
    <3>1. CASE k = j /\ Retryable(b)
      <4>1. attempt'[f].job = j
        <5>1. f \in Attempts /\ attempt \in [Attempts -> Row]
          BY <1>0, <2>4, <3>1 DEF FreeIds
        <5>2. NewRow(j, attempt[b].number + 1, "inserted").job = j
          BY DEF NewRow, EmptyRow
        <5>3. QED
          BY <2>4, <3>1, <5>1, <5>2
      <4>2. QED
        <5>1. reaper'.seen[k] = "QUEUED" /\ f \in reaper'.new
          BY <2>0, <2>1, <2>2, <3>0, <3>1
        <5>2. QED
          BY <3>1, <4>1, <5>1
    <3>2. CASE k = j /\ ~Retryable(b)
      BY <2>0, <2>1, <2>2, <2>6, <3>0, <3>2
    <3>3. CASE k # j
      <4>1. k \in reaper.dirty /\ reaper'.seen[k] = reaper.seen[k]
        BY <1>0, <2>2, <3>0, <3>3 DEF Tick
      <4>2. QED
        BY <1>0, <2>2, <2>5, <2>6, <4>1 DEF TickOK
    <3>4. QED
      BY <3>1, <3>2, <3>3
  <2>8. QED
    BY <2>3, <2>7 DEF TickOK
<1>7. ASSUME PromoteScan \/ PromoteRemove \/ ReconcileScan
             \/ \E j \in Jobs : PromoteEnqueue(j) \/ ReconcileOne(j)
      PROVE  TickOK'
  <2> DEFINE Same == /\ attempt' = attempt /\ reaper'.rows = reaper.rows
                     /\ reaper'.done = reaper.done /\ reaper'.new = reaper.new
                     /\ reaper'.seen = reaper.seen /\ reaper'.dirty = reaper.dirty
             Reset == reaper' = NoTick \/ reaper' = [NoTick EXCEPT !.pc = "reconcile"]
  <2>1. CASE PromoteScan
    BY <1>0, <1>1, <2>1 DEF PromoteScan, Tick
  <2>2. CASE PromoteRemove
    <3>1. Same \/ Reset
      BY <1>0, <2>2 DEF PromoteRemove, Tick
    <3>2. QED
      BY <1>1, <1>2, <3>1
  <2>3. CASE ReconcileScan
    <3>1. Same \/ Reset
      BY <1>0, <2>3 DEF ReconcileScan, Tick
    <3>2. QED
      BY <1>1, <1>2, <3>1
  <2>4. ASSUME NEW j \in Jobs, PromoteEnqueue(j) PROVE TickOK'
    BY <1>0, <1>1, <2>4 DEF PromoteEnqueue, Tick
  <2>5. ASSUME NEW j \in Jobs, ReconcileOne(j) PROVE TickOK'
    <3>1. Same \/ Reset
      BY <1>0, <2>5 DEF ReconcileOne, Tick
    <3>2. QED
      BY <1>1, <1>2, <3>1
  <2>6. QED
    BY <1>7, <2>1, <2>2, <2>3, <2>4, <2>5
<1>8. CASE ReapDeadCommit \/ ReapCommit \/ ReaperAborts \/ ServerCrash
  BY <1>2, <1>8 DEF ReapDeadCommit, ReapCommit, ReaperAborts, ServerCrash
<1>9. reaper' = reaper \/ ReaperSteps \/ ReaperAborts \/ ServerCrash
  <2>1. ASSUME NEW w \in Workers, ReportSteps(w) PROVE reaper' = reaper
    BY <2>1 DEF ReportSteps, ReportRead, ReportReadJob, ReportFlush, ReportCommit
  <2>2. QED
    BY <2>1, StepsFrame
<1>10. CASE ReaperSteps
  BY <1>4, <1>5, <1>6, <1>7, <1>8, <1>10 DEF ReaperSteps
<1>11. QED
  BY <1>3, <1>8, <1>9, <1>10

\* Every row is of a job, numbered within the retry budget; what the requests and
\* the tick in progress rely on holds whatever the others do.
LEMMA ConsistentStep == TypeOK /\ Consistent /\ [Next]_vars => Consistent'
  BY RowsStep, RequestsStep, FlushedStep, TickStep DEF Consistent

LEMMA AlwaysConsistent == Spec => [](TypeOK /\ Consistent)
<1>1. TypeOK /\ Consistent /\ [Next]_vars => (TypeOK /\ Consistent)'
  BY TypeStep, ConsistentStep
<1>2. QED
  BY InitInv, <1>1, PTL DEF Spec

\* The tables, Redis, the request slots and the reaper's session keep their types in
\* every interleaving, with any number of requests in progress and any faults.
THEOREM TypeCorrect == Spec => []TypeOK
  BY AlwaysConsistent, PTL

\* What each handler in progress has loaded or flushed stays consistent with the tables,
\* whatever the other handlers, the reaper and the crashes do meanwhile.
THEOREM HandlersStayConsistent == Spec => []Consistent
  BY AlwaysConsistent, PTL

\* An attempt that waits for its worker is not in anyone's hands: every handler but
\* a claim writes rows that have been leased or that it has inserted itself.
LEMMA UnclaimedIsKept ==
  ASSUME TypeOK, Consistent, [Next]_vars, NEW a \in Attempts, Unclaimed(a)
  PROVE  attempt'[a] = attempt[a] \/ \E w \in Workers : ClaimCommit(w) /\ claim[w].row = a
<1> USE DEF WasLeased, Committed
<1>0. /\ attempt[a] \in Row /\ attempt \in [Attempts -> Row] /\ RowOK(a)
      /\ attempt[a].status = "LEASED" /\ attempt[a].token = 0
  BY DEF TypeOK, Consistent, RowsOK, Unclaimed
<1>1. CASE attempt' = attempt
  BY <1>1
<1>3. ASSUME NEW j \in Jobs, CreateJob(j) PROVE attempt'[a] = attempt[a]
  BY <1>0, <1>3, FreshIdIsFree DEF CreateJob, FreeIds
<1>4. ASSUME NEW w \in Workers, ClaimCommit(w), claim[w].row # a PROVE attempt'[a] = attempt[a]
  BY <1>0, <1>4 DEF ClaimCommit
<1>5. ASSUME NEW w \in Workers, RenewCommit(w) \/ MarkCommit(w) PROVE attempt'[a] = attempt[a]
  <2>1. renew[w].row # a
    BY <1>0, <1>5 DEF RenewCommit, MarkCommit, Consistent, RequestsOK, RequestOK
  <2>2. QED
    BY <1>0, <1>5, <2>1 DEF RenewCommit, MarkCommit
<1>6. ASSUME NEW w \in Workers, ReportFlush(w) PROVE attempt'[a] = attempt[a]
  BY <1>0, <1>6, FreshIdIsFree DEF ReportFlush, FreeIds
<1>7. ASSUME NEW w \in Workers, ReportCommit(w) PROVE attempt'[a] = attempt[a]
  <2>1. report[w].row # a /\ report[w].new # a
    BY <1>0, <1>7 DEF ReportCommit, Consistent, RequestsOK, RequestOK, FlushedOK, Flushed
  <2>2. QED
    BY <1>7, <2>1 DEF ReportCommit
<1>8. CASE ReapDeadCommit \/ ReapCommit
  <2>1. a \notin reaper.rows /\ a \notin reaper.done /\ a \notin reaper.new
    BY <1>0 DEF Consistent, TickOK, FlushedOK, Flushed
  <2>2. QED
    BY <1>8, <2>1 DEF ReapDeadCommit, ReapCommit
<1>9. ASSUME NEW b \in Attempts, ReapOne(b) PROVE attempt'[a] = attempt[a]
  BY <1>0, <1>9, FreshIdIsFree DEF ReapOne, FreeIds
<1>10. ASSUME NEW b \in Attempts, LeaseLapses(b) PROVE attempt'[a] = attempt[a]
  BY <1>0, <1>10 DEF LeaseLapses, RowOK
<1>11. CASE ServerCrash \/ ReaperAborts
  <2>1. a \notin reaper.new
    BY <1>0 DEF Consistent, FlushedOK, Flushed
  <2>2. QED
    BY <1>0, <1>11, <2>1 DEF ServerCrash, ReaperAborts, RolledBack
<1>12. QED
  BY <1>1, <1>3, <1>4, <1>5, <1>6, <1>7, <1>8, <1>9, <1>10, <1>11
  DEF Next, vars, JobSteps, ClaimSteps, RenewSteps, ReportSteps, WorkerSteps, ReaperSteps,
      EnqueueCreated, BackoffElapses, ClaimPop, ClaimReadJob, ClaimReadAttempt, ClaimRespond,
      RenewRead, MarkRead, ReportRead, ReportReadJob, Register, Heartbeat, HeartbeatLapses, ReportLost,
      WorkerCrash, ReapDeadScan, ReapScan, PromoteScan, PromoteEnqueue, PromoteRemove,
      ReconcileScan, ReconcileOne, RedisFlush

\* A job is requeued by what also commits a new attempt for it: its creation, the
\* commit of a report that retries it, the commit of a tick that reaped it.
LEMMA RequeueBringsAttempt ==
  ASSUME TypeOK, Consistent, [Next]_vars, NEW j \in Jobs, job[j] # "QUEUED", job'[j] = "QUEUED"
  PROVE  \E a \in RowsOf(j)' : Unclaimed(a)'
<1> USE DEF WasLeased, Committed
<1>0. /\ attempt \in [Attempts -> Row] /\ job \in [Jobs -> JobStatus \cup {"absent"}]
      /\ report \in [Workers -> ReportSlot] /\ RowsOK
  BY DEF TypeOK, Consistent
<1>1. ASSUME NEW n \in Attempts, attempt[n].status = "inserted", attempt[n].job = j,
             attempt'[n] = [attempt[n] EXCEPT !.status = "LEASED"]
      PROVE  \E a \in RowsOf(j)' : Unclaimed(a)'
  <2>1. attempt[n].token = 0 /\ attempt[n] \in Row
    BY <1>0, <1>1 DEF RowsOK, RowOK
  <2>2. /\ attempt'[n].status = "LEASED" /\ attempt'[n].token = 0 /\ attempt'[n].job = j
    BY <1>1, <2>1 DEF Row
  <2>3. QED
    BY <2>2 DEF RowsOf, Unclaimed, AttemptStatus, Active
<1>2. ASSUME NEW k \in Jobs, CreateJob(k) PROVE \E a \in RowsOf(j)' : Unclaimed(a)'
  <2>0. PICK f : f = FreshId
    OBVIOUS
  <2>1. k = j /\ f \in FreeIds /\ attempt' = [attempt EXCEPT ![f] = NewRow(j, 1, "LEASED")]
    BY <1>0, <1>2, <2>0, FreshIdIsFree DEF CreateJob
  <2>2. attempt'[f].status = "LEASED" /\ attempt'[f].token = 0 /\ attempt'[f].job = j
    BY <1>0, <2>1 DEF FreeIds, NewRow, EmptyRow
  <2>3. f \in Attempts
    BY <2>1 DEF FreeIds
  <2>4. QED
    BY <2>2, <2>3 DEF RowsOf, Unclaimed, AttemptStatus, Active
<1>3. ASSUME NEW w \in Workers, ReportCommit(w) PROVE \E a \in RowsOf(j)' : Unclaimed(a)'
  <2> DEFINE n == report[w].new
  <2>1. job' = [job EXCEPT ![attempt[report[w].row].job] =
                  OrmWrite(report[w].seen, JobVerdict(report[w].verdict, Retries(w)),
                           job[attempt[report[w].row].job])]
    BY <1>0, <1>3 DEF ReportCommit
  <2>2. j = attempt[report[w].row].job /\ JobVerdict(report[w].verdict, Retries(w)) = "QUEUED"
    BY <1>0, <2>1 DEF OrmWrite
  <2>3. report[w].verdict \in Verdict
    BY <1>0 DEF ReportSlot
  <2>4. Retries(w)
    BY <2>2, <2>3 DEF JobVerdict, Verdict
  <2>5. report[w].pc = "flushed"
    BY <1>3, <2>4 DEF ReportCommit
  <2>6. Flushed(n) /\ Successor(n, report[w].row) /\ WasLeased(report[w].row)
    BY <2>5 DEF Consistent, FlushedOK, RequestsOK, RequestOK
  <2>7. n # report[w].row /\ n \in Attempts
    BY <2>6 DEF Flushed, AttemptStatus, Active
  <2>8. attempt'[n] = [attempt[n] EXCEPT !.status = "LEASED"]
    BY <1>3, <2>7 DEF ReportCommit
  <2>9. QED
    BY <1>1, <2>2, <2>6, <2>7, <2>8 DEF Flushed, Successor
<1>4. CASE ReapCommit
  <2>1. j \in reaper.dirty /\ reaper.seen[j] = "QUEUED"
    BY <1>4 DEF ReapCommit
  <2>2. PICK n \in reaper.new : attempt[n].job = j
    BY <2>1 DEF Consistent, TickOK
  <2>3. n \in Attempts /\ attempt[n].status = "inserted" /\ n \notin reaper.done
    BY <2>2 DEF Consistent, FlushedOK, Flushed, TickOK, AttemptStatus, Active
  <2>4. attempt'[n] = [attempt[n] EXCEPT !.status = "LEASED"]
    BY <1>4, <2>3 DEF ReapCommit
  <2>5. QED
    BY <1>1, <2>2, <2>3, <2>4
<1>5. ASSUME NEW w \in Workers PROVE ~ClaimCommit(w)
  BY <1>0 DEF ClaimCommit
<1>6. QED
  BY <1>2, <1>3, <1>4, <1>5
  DEF Next, vars, JobSteps, ClaimSteps, RenewSteps, ReportSteps, WorkerSteps, ReaperSteps,
      EnqueueCreated, BackoffElapses, ClaimPop, ClaimReadJob, ClaimReadAttempt, ClaimRespond,
      RenewRead, RenewCommit, MarkRead, MarkCommit, ReportRead, ReportReadJob, ReportFlush, Register, Heartbeat,
      HeartbeatLapses, ReportLost, WorkerCrash, LeaseLapses, ReapDeadScan, ReapDeadCommit, ReapScan,
      ReapOne, PromoteScan, PromoteEnqueue, PromoteRemove, ReconcileScan, ReconcileOne, RedisFlush,
      ServerCrash, ReaperAborts

\* QueuedJobHasUnclaimedAttempt and its inductive step: only a claim takes the
\* attempt, and it takes the job out of QUEUED in the same commit.
LEMMA QueuedStep ==
  TypeOK /\ Consistent /\ QueuedJobHasUnclaimedAttempt /\ [Next]_vars => QueuedJobHasUnclaimedAttempt'
<1> SUFFICES ASSUME TypeOK, Consistent, QueuedJobHasUnclaimedAttempt, [Next]_vars,
                    NEW j \in Jobs, job'[j] = "QUEUED"
             PROVE  \E a \in RowsOf(j)' : Unclaimed(a)'
  BY DEF QueuedJobHasUnclaimedAttempt
<1>1. CASE job[j] = "QUEUED"
  <2>1. PICK a \in RowsOf(j) : Unclaimed(a)
    BY <1>1 DEF QueuedJobHasUnclaimedAttempt
  <2>2. a \in Attempts /\ attempt[a].job = j /\ attempt[a].status = "LEASED"
    BY <2>1 DEF RowsOf, Unclaimed
  <2>3. ASSUME NEW w \in Workers, ClaimCommit(w), claim[w].row = a PROVE FALSE
    <3>1. claim[w].job = j
      BY <2>2, <2>3 DEF ClaimCommit, Consistent, RequestsOK, RequestOK
    <3>2. job' = [job EXCEPT ![j] = "RUNNING"] /\ job \in [Jobs -> JobStatus \cup {"absent"}]
      BY <2>3, <3>1 DEF ClaimCommit, TypeOK
    <3>3. QED
      BY <3>2
  <2>4. attempt'[a] = attempt[a]
    BY <2>1, <2>2, <2>3, UnclaimedIsKept
  <2>5. QED
    BY <2>1, <2>2, <2>4 DEF RowsOf, Unclaimed
<1>2. CASE job[j] # "QUEUED"
  BY <1>2, RequeueBringsAttempt
<1>3. QED
  BY <1>1, <1>2

\* Where a committed row comes from: the creation of its job, or the attempt before
\* it, which had been leased.
LEMMA NewRowFollowsLease ==
  ASSUME TypeOK, Consistent, [Next]_vars, NEW a \in Attempts, ~Committed(a), Committed(a)'
  PROVE  \/ attempt'[a].number = 1
         \/ \E b \in Attempts : WasLeased(b) /\ attempt'[a].job = attempt[b].job
                                /\ attempt'[a].number = attempt[b].number + 1
<1> USE DEF WasLeased, Committed
<1>0. /\ attempt \in [Attempts -> Row] /\ attempt[a] \in Row /\ RowsOK
      /\ attempt[a].status \in {"absent", "inserted"}
  <2>1. attempt \in [Attempts -> Row] /\ attempt[a] \in Row /\ RowsOK
    BY DEF TypeOK, Consistent
  <2>2. QED
    BY <2>1 DEF Row
<1> DEFINE Goal == \/ attempt'[a].number = 1
                   \/ \E b \in Attempts : WasLeased(b) /\ attempt'[a].job = attempt[b].job
                                          /\ attempt'[a].number = attempt[b].number + 1
<1>1. ASSUME attempt'[a] = attempt[a] PROVE FALSE
  BY <1>1
<1>2. ASSUME NEW j \in Jobs, CreateJob(j) PROVE Goal
  <2>1. PICK f : f = FreshId /\ f \in Attempts /\ attempt' = [attempt EXCEPT ![f] = NewRow(j, 1, "LEASED")]
    BY <1>2, FreshIdIsFree DEF CreateJob, FreeIds
  <2>2. a = f
    BY <1>0, <1>1, <2>1
  <2>3. QED
    BY <1>0, <2>1, <2>2 DEF NewRow, EmptyRow
<1>3. ASSUME NEW w \in Workers, ReportFlush(w) PROVE FALSE
  <2>1. PICK f, r : /\ r = NewRow(attempt[report[w].row].job, attempt[report[w].row].number + 1, "inserted")
                    /\ f = FreshId
    OBVIOUS
  <2>2. attempt' = [attempt EXCEPT ![f] = r]
    BY <1>3, <2>1 DEF ReportFlush
  <2>3. r.status = "inserted"
    BY <2>1 DEF NewRow, EmptyRow
  <2>4. QED
    BY <1>0, <1>1, <2>2, <2>3 DEF AttemptStatus, Active
<1>4. ASSUME NEW b \in Attempts, ReapOne(b) PROVE FALSE
  <2>1. PICK f, r : /\ r = NewRow(attempt[b].job, attempt[b].number + 1, "inserted")
                    /\ f = FreshId
    OBVIOUS
  <2>2. attempt' = attempt \/ attempt' = [attempt EXCEPT ![f] = r]
    BY <1>4, <2>1 DEF ReapOne
  <2>3. r.status = "inserted"
    BY <2>1 DEF NewRow, EmptyRow
  <2>4. QED
    BY <1>0, <1>1, <2>2, <2>3 DEF AttemptStatus, Active
<1>5. ASSUME NEW w \in Workers, ClaimCommit(w) PROVE FALSE
  <2>1. claim[w].row # a
    BY <1>5 DEF ClaimCommit, Consistent, RequestsOK, RequestOK
  <2>2. QED
    BY <1>0, <1>1, <1>5, <2>1 DEF ClaimCommit
<1>6. ASSUME NEW w \in Workers, RenewCommit(w) \/ MarkCommit(w) PROVE FALSE
  <2>1. renew[w].row # a
    BY <1>6 DEF RenewCommit, MarkCommit, Consistent, RequestsOK, RequestOK
  <2>2. QED
    BY <1>0, <1>1, <1>6, <2>1 DEF RenewCommit, MarkCommit
<1>7. ASSUME NEW w \in Workers, ReportCommit(w) PROVE Goal
  <2>1. WasLeased(report[w].row) /\ report[w].row # a
    BY <1>7 DEF ReportCommit, Consistent, RequestsOK, RequestOK
  <2>2. a = report[w].new
    BY <1>1, <1>7, <2>1 DEF ReportCommit
  <2>3. report[w].pc = "flushed"
    BY <2>2 DEF Consistent, FlushedOK
  <2>4. Successor(a, report[w].row)
    BY <2>2, <2>3 DEF Consistent, FlushedOK
  <2>5. attempt'[a] = [attempt[a] EXCEPT !.status = "LEASED"]
    BY <1>7, <2>1, <2>2 DEF ReportCommit
  <2>6. attempt'[a].job = attempt[a].job /\ attempt'[a].number = attempt[a].number
    BY <1>0, <2>5 DEF Row
  <2>7. QED
    BY <2>1, <2>4, <2>6 DEF Successor
<1>8. ASSUME ReapDeadCommit PROVE FALSE
  <2>1. a \notin reaper.rows
    BY DEF Consistent, TickOK
  <2>2. QED
    BY <1>1, <1>8, <2>1 DEF ReapDeadCommit
<1>9. ASSUME ReapCommit PROVE Goal
  <2>1. a \notin reaper.done
    BY DEF Consistent, TickOK
  <2>2. a \in reaper.new
    BY <1>1, <1>9, <2>1 DEF ReapCommit
  <2>3. PICK b \in Attempts : WasLeased(b) /\ Successor(a, b)
    BY <2>2 DEF Consistent, FlushedOK
  <2>4. attempt'[a] = [attempt[a] EXCEPT !.status = "LEASED"]
    BY <1>9, <2>1, <2>2 DEF ReapCommit
  <2>5. attempt'[a].job = attempt[a].job /\ attempt'[a].number = attempt[a].number
    BY <1>0, <2>4 DEF Row
  <2>6. QED
    BY <2>3, <2>5 DEF Successor
<1>10. ASSUME NEW b \in Attempts, LeaseLapses(b) PROVE FALSE
  <2>1. b # a
    BY <1>0, <1>10 DEF LeaseLapses, Active
  <2>2. QED
    BY <1>0, <1>1, <1>10, <2>1 DEF LeaseLapses
<1>11. ASSUME ServerCrash \/ ReaperAborts PROVE FALSE
  BY <1>1, <1>11 DEF ServerCrash, ReaperAborts, RolledBack, EmptyRow, AttemptStatus, Active
<1>12. CASE attempt' = attempt
  BY <1>1, <1>12
<1>13. QED
  BY <1>2, <1>3, <1>4, <1>5, <1>6, <1>7, <1>8, <1>9, <1>10, <1>11, <1>12
  DEF Next, vars, JobSteps, ClaimSteps, RenewSteps, ReportSteps, WorkerSteps, ReaperSteps,
      EnqueueCreated, BackoffElapses, ClaimPop, ClaimReadJob, ClaimReadAttempt, ClaimRespond,
      RenewRead, MarkRead, ReportRead, ReportReadJob, Register, Heartbeat, HeartbeatLapses, ReportLost,
      WorkerCrash, ReapDeadScan, ReapScan, PromoteScan, PromoteEnqueue, PromoteRemove,
      ReconcileScan, ReconcileOne, RedisFlush

\* A job is given up only by a report or a tick that holds its last attempt.
LEMMA GivenUpAfterLastAttempt ==
  ASSUME TypeOK, Consistent, [Next]_vars, NEW j \in Jobs, job[j] # "ERRORED", job'[j] = "ERRORED"
  PROVE  \E a \in RowsOf(j) : attempt[a].token # 0 /\ ~Retryable(a)
<1> USE DEF WasLeased, Committed
<1>0. /\ job \in [Jobs -> JobStatus \cup {"absent"}] /\ report \in [Workers -> ReportSlot]
  BY DEF TypeOK
<1>1. ASSUME NEW w \in Workers, ReportCommit(w)
      PROVE  \E a \in RowsOf(j) : attempt[a].token # 0 /\ ~Retryable(a)
  <2>1. job' = [job EXCEPT ![attempt[report[w].row].job] =
                  OrmWrite(report[w].seen, JobVerdict(report[w].verdict, Retries(w)),
                           job[attempt[report[w].row].job])]
    BY <1>0, <1>1 DEF ReportCommit
  <2>2. j = attempt[report[w].row].job /\ JobVerdict(report[w].verdict, Retries(w)) = "ERRORED"
    BY <1>0, <2>1 DEF OrmWrite
  <2>3. report[w].verdict \in Verdict
    BY <1>0 DEF ReportSlot
  <2>4. report[w].verdict = "infra" /\ ~Retries(w)
    BY <2>2, <2>3 DEF JobVerdict, Verdict
  <2>5. WasLeased(report[w].row) /\ ~Retryable(report[w].row)
    BY <1>1, <2>4 DEF ReportCommit, Consistent, RequestsOK, RequestOK, Retries
  <2>6. QED
    BY <2>2, <2>5 DEF RowsOf
<1>2. ASSUME ReapCommit
      PROVE  \E a \in RowsOf(j) : attempt[a].token # 0 /\ ~Retryable(a)
  <2>1. j \in reaper.dirty /\ reaper.seen[j] = "ERRORED"
    BY <1>2 DEF ReapCommit
  <2>2. PICK a \in reaper.done : attempt[a].job = j /\ ~Retryable(a)
    BY <2>1 DEF Consistent, TickOK
  <2>3. WasLeased(a)
    BY <2>2 DEF Consistent, TickOK
  <2>4. QED
    BY <2>2, <2>3 DEF RowsOf
<1>3. ASSUME NEW w \in Workers PROVE ~ClaimCommit(w)
  BY <1>0 DEF ClaimCommit
<1>4. ASSUME NEW k \in Jobs PROVE ~CreateJob(k)
  BY <1>0 DEF CreateJob
<1>5. QED
  BY <1>1, <1>2, <1>3, <1>4
  DEF Next, vars, JobSteps, ClaimSteps, RenewSteps, ReportSteps, WorkerSteps, ReaperSteps,
      EnqueueCreated, BackoffElapses, ClaimPop, ClaimReadJob, ClaimReadAttempt, ClaimRespond,
      RenewRead, RenewCommit, MarkRead, MarkCommit, ReportRead, ReportReadJob, ReportFlush, Register, Heartbeat,
      HeartbeatLapses, ReportLost, WorkerCrash, LeaseLapses, ReapDeadScan, ReapDeadCommit, ReapScan,
      ReapOne, PromoteScan, PromoteEnqueue, PromoteRemove, ReconcileScan, ReconcileOne, RedisFlush,
      ServerCrash, ReaperAborts

\* RetryBudget and its inductive step: rows are added behind leased rows only, and
\* kept; numbers are bounded by the guard of every insertion.
LEMMA BudgetStep == TypeOK /\ Consistent /\ RetryBudget /\ [Next]_vars => RetryBudget'
<1> SUFFICES ASSUME TypeOK, Consistent, RetryBudget, [Next]_vars, NEW j \in Jobs
             PROVE  /\ \A a \in RowsOf(j)' :
                         /\ attempt'[a].number \in 1..MaxAttempts
                         /\ \/ attempt'[a].number = 1
                            \/ \E b \in RowsOf(j)' : /\ attempt'[b].number = attempt'[a].number - 1
                                                     /\ attempt'[b].token # 0
                    /\ job'[j] = "ERRORED" => \E a \in RowsOf(j)' : /\ attempt'[a].number = MaxAttempts
                                                                    /\ attempt'[a].token # 0
  BY DEF RetryBudget
<1> USE DEF WasLeased, Committed
<1>0. RowsKept /\ RowsOK' /\ RowsOK /\ attempt \in [Attempts -> Row] /\ MaxAttempts \in Nat
  BY RowsKeptStep, RowsStep DEF TypeOK, Consistent
<1>1. ASSUME NEW b \in RowsOf(j), attempt[b].token # 0
      PROVE  b \in RowsOf(j)' /\ attempt'[b].token # 0 /\ attempt'[b].number = attempt[b].number
  BY <1>0, <1>1 DEF RowsKept, RowsOf
<1>2. ASSUME NEW a \in RowsOf(j)' PROVE attempt'[a].number \in 1..MaxAttempts
  BY <1>0, <1>2 DEF RowsOK, RowOK, RowsOf, AttemptStatus, Active
<1>3. ASSUME NEW a \in RowsOf(j)'
      PROVE  \/ attempt'[a].number = 1
             \/ \E b \in RowsOf(j)' : attempt'[b].number = attempt'[a].number - 1 /\ attempt'[b].token # 0
  <2>0. a \in Attempts /\ attempt'[a].job = j /\ Committed(a)'
    BY <1>3 DEF RowsOf
  <2>1. CASE Committed(a)
    <3>1. a \in RowsOf(j) /\ attempt'[a].number = attempt[a].number
      BY <1>0, <2>0, <2>1 DEF RowsKept, RowsOf
    <3>2. QED
      BY <1>1, <3>1 DEF RetryBudget
  <2>2. CASE ~Committed(a)
    <3>1. CASE attempt'[a].number = 1
      BY <3>1
    <3>2. CASE \E b \in Attempts : WasLeased(b) /\ attempt'[a].job = attempt[b].job
                                   /\ attempt'[a].number = attempt[b].number + 1
      <4>1. PICK b \in Attempts : WasLeased(b) /\ attempt'[a].job = attempt[b].job
                                  /\ attempt'[a].number = attempt[b].number + 1
        BY <3>2
      <4>2. b \in RowsOf(j) /\ attempt[b].number \in Nat
        BY <1>0, <2>0, <4>1 DEF RowsOf, RowsOK, RowOK, AttemptStatus, Active
      <4>3. QED
        BY <1>1, <4>1, <4>2
    <3>3. QED
      BY <2>0, <2>2, <3>1, <3>2, NewRowFollowsLease
  <2>3. QED
    BY <2>1, <2>2
<1>4. ASSUME job'[j] = "ERRORED"
      PROVE  \E a \in RowsOf(j)' : attempt'[a].number = MaxAttempts /\ attempt'[a].token # 0
  <2>1. CASE job[j] = "ERRORED"
    BY <1>1, <2>1 DEF RetryBudget
  <2>2. CASE job[j] # "ERRORED"
    <3>1. PICK a \in RowsOf(j) : attempt[a].token # 0 /\ ~Retryable(a)
      BY <1>4, <2>2, GivenUpAfterLastAttempt
    <3>2. attempt[a].number \in 1..MaxAttempts
      BY DEF RetryBudget
    <3>3. attempt[a].number = MaxAttempts
      BY <1>0, <3>1, <3>2 DEF Retryable
    <3>4. QED
      BY <1>1, <3>1, <3>3
  <2>3. QED
    BY <2>1, <2>2
<1>5. QED
  BY <1>2, <1>3, <1>4

\* Before any job is created there is nothing to show.
LEMMA FirstState == Init => QueuedJobHasUnclaimedAttempt /\ RetryBudget
  BY DEF Init, QueuedJobHasUnclaimedAttempt, RetryBudget, RowsOf, EmptyRow, AttemptStatus, Active

\* A job that waits always has an attempt nobody has leased, however claims, late
\* reports, renewals, ticks of the reaper and crashes interleave: claim_next_job
\* finds one and does not take over the row of a finished attempt.
THEOREM QueuedJobsCanBeClaimed == Spec => []QueuedJobHasUnclaimedAttempt
<1>1. Init => TypeOK /\ Consistent /\ QueuedJobHasUnclaimedAttempt
  BY InitInv, FirstState
<1>2. TypeOK /\ Consistent /\ QueuedJobHasUnclaimedAttempt /\ [Next]_vars
        => (TypeOK /\ Consistent /\ QueuedJobHasUnclaimedAttempt)'
  BY TypeStep, ConsistentStep, QueuedStep
<1>3. QED
  BY <1>1, <1>2, PTL DEF Spec

\* complete_attempt and reap_expired_leases never skip an attempt number, never
\* exceed max_job_attempts and never give a job up early, even when both retry the
\* same attempt.
THEOREM RetriesStayInBudget == Spec => []RetryBudget
<1>1. Init => TypeOK /\ Consistent /\ RetryBudget
  BY InitInv, FirstState
<1>2. TypeOK /\ Consistent /\ RetryBudget /\ [Next]_vars => (TypeOK /\ Consistent /\ RetryBudget)'
  BY TypeStep, ConsistentStep, BudgetStep
<1>3. QED
  BY <1>1, <1>2, PTL DEF Spec

\* Of all the writers of job_attempts, only claim_next_job changes an attempt that
\* nobody has leased, and it gives it a new token and makes its job RUNNING.
THEOREM OnlyClaimsTakeAttempts == Spec => UnclaimedAttemptOnlyClaimed
<1> DEFINE Only == \A a \in Attempts : Unclaimed(a) /\ attempt'[a] # attempt[a] =>
                     attempt'[a].token = tokens' /\ tokens' # tokens /\ job'[attempt[a].job] = "RUNNING"
<1>1. TypeOK /\ Consistent /\ [Next]_vars => [Only]_vars
  <2> SUFFICES ASSUME TypeOK, Consistent, [Next]_vars, NEW a \in Attempts, Unclaimed(a),
                      attempt'[a] # attempt[a]
               PROVE  attempt'[a].token = tokens' /\ tokens' # tokens /\ job'[attempt[a].job] = "RUNNING"
    OBVIOUS
  <2>1. PICK w \in Workers : ClaimCommit(w) /\ claim[w].row = a
    BY UnclaimedIsKept
  <2>2. claim[w].job = attempt[a].job /\ claim[w].job \in Jobs
    BY <2>1 DEF ClaimCommit, Consistent, RequestsOK, RequestOK
  <2>3. attempt[a] \in Row /\ tokens \in Nat /\ job \in [Jobs -> JobStatus \cup {"absent"}]
        /\ attempt \in [Attempts -> Row]
    BY DEF TypeOK
  <2>4. tokens' = tokens + 1 /\ job' = [job EXCEPT ![attempt[a].job] = "RUNNING"]
    BY <2>1, <2>2 DEF ClaimCommit
  <2>5. attempt'[a].token = tokens + 1
    BY <2>1, <2>3 DEF ClaimCommit, Row
  <2>6. QED
    BY <2>2, <2>3, <2>4, <2>5
<1>2. QED
  BY <1>1, AlwaysConsistent, PTL DEF Spec, UnclaimedAttemptOnlyClaimed
=============================================================================
