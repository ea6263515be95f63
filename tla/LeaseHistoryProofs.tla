-------------------------- MODULE LeaseHistoryProofs --------------------------
(***************************************************************************)
(* Proofs about LeaseHistory, for any jobs, workers, attempts and budget,  *)
(* any number of requests in progress and any faults: as long as no commit *)
(* has come too late, a job has one lease and one holder, a permanent      *)
(* failure is not retried, what is over stays so, and every step is one of *)
(* JobLifecycle.                                                           *)
(*                                                                         *)
(* The inductive invariant is ~overtaken => Steady: what LeaseManagerProofs*)
(* proves of every interleaving, and InOrder.  What a step that overtakes  *)
(* nothing does to the tables is one of four moves (Quiet, Created,        *)
(* Claimed, Ended).  EveryStepMoves shows that from Steady; all that is    *)
(* said of the tables, and of what handlers have loaded from them, is then *)
(* proved of the moves, which is where the refinement of JobLifecycle      *)
(* comes from too.                                                         *)
(***************************************************************************)
EXTENDS LeaseHistory, LeaseManagerProofs, FiniteSetTheorems

\* A step that writes nothing it should not.
InTime == (Next /\ ~Overtakes) \/ UNCHANGED vars

LEMMA InTimeIsStep == InTime => [Next]_vars
  BY DEF InTime

(***************************************************************************)
(* What a step does to the tables                                          *)
(***************************************************************************)
Same(a) ==
    /\ attempt'[a].job = attempt[a].job /\ attempt'[a].number = attempt[a].number
    /\ attempt'[a].token = attempt[a].token /\ attempt'[a].verdict = attempt[a].verdict
    /\ attempt'[a].worker = attempt[a].worker
    /\ attempt'[a].status \in Active <=> attempt[a].status \in Active
    /\ attempt[a].token = 0 \/ attempt[a].status \in Over => attempt'[a].status = attempt[a].status

\* Most steps change nothing of the committed rows but a deadline, or LEASED to RUNNING.
Quiet == /\ job' = job
         /\ \A a \in Attempts : /\ Committed(a)' <=> Committed(a)
                                /\ Committed(a) => Same(a)
                                /\ attempt'[a].verdict \in {"null", attempt[a].verdict}

\* create_and_enqueue_job.
Created(j, f) ==
    /\ job[j] = "absent" /\ job' = [job EXCEPT ![j] = "QUEUED"]
    /\ f \in Attempts /\ ~Committed(f)
    /\ attempt' = [attempt EXCEPT ![f] = NewRow(j, 1, "LEASED")]

\* The commit of a claim.
Claimed(j, a) ==
    /\ job[j] = "QUEUED" /\ job' = [job EXCEPT ![j] = "RUNNING"]
    /\ a \in RowsOf(j) /\ Unclaimed(a)
    /\ \A b \in Attempts \ {a} : attempt'[b] = attempt[b]
    /\ attempt'[a].job = j /\ attempt'[a].number = attempt[a].number
    /\ attempt'[a].verdict = attempt[a].verdict
    /\ attempt'[a].status = "LEASED" /\ attempt'[a].token # 0

\* The commit of a report or of a tick: the rows in ended are over, those in retries,
\* one for each that is retried, wait.
Ended(ended, retries) ==
    /\ ended \subseteq Attempts /\ retries \subseteq Attempts
    /\ \A a \in ended :
         /\ WasLeased(a) /\ attempt[a].status \in Active
         /\ attempt'[a].job = attempt[a].job /\ attempt'[a].number = attempt[a].number
         /\ attempt'[a].token = attempt[a].token /\ attempt'[a].worker = attempt[a].worker
         /\ attempt'[a].status \in Over
         /\ attempt'[a].verdict = "permanent" => \A n \in retries : attempt[n].job # attempt[a].job
    /\ \A n \in retries :
         /\ Flushed(n) /\ attempt'[n] = [attempt[n] EXCEPT !.status = "LEASED"]
         /\ \E a \in ended : Retryable(a) /\ Successor(n, a)
    /\ \A m, n \in retries : attempt[m].job = attempt[n].job => m = n
    /\ \A a \in Attempts \ (ended \cup retries) : attempt'[a] = attempt[a]
    /\ \A j \in Jobs :
         /\ (\A a \in ended : attempt[a].job # j) => job'[j] = job[j]
         /\ \A a \in ended : attempt[a].job = j =>
              \/ job'[j] \in {"SUCCEEDED", "FAILED"} /\ \A n \in retries : attempt[n].job # j
              \/ job'[j] = "ERRORED" /\ ~Retryable(a) /\ \A n \in retries : attempt[n].job # j
              \/ job'[j] = "QUEUED" /\ Retryable(a) /\ \E n \in retries : attempt[n].job = j

\* The invariant, and what its proofs start from.
Steady == TypeOK /\ Consistent /\ QueuedJobHasUnclaimedAttempt /\ InOrder

LEMMA RowFacts ==
    ASSUME TypeOK, Consistent, NEW a \in Attempts
    PROVE  /\ attempt[a] \in Row /\ MaxAttempts \in Nat
           /\ attempt[a].status # "absent" => attempt[a].job \in Jobs /\ attempt[a].number \in 1..MaxAttempts
           /\ Flushed(a) => attempt[a].token = 0 /\ ~Committed(a)
           /\ Committed(a) => attempt[a].status # "absent" /\ a \in RowsOf(attempt[a].job)
  <1>1. attempt[a] \in Row /\ MaxAttempts \in Nat /\ RowOK(a)
    BY MaxAttemptsAssumption DEF TypeOK, Consistent, RowsOK
  <1>2. Committed(a) => attempt[a].status # "absent" /\ a \in RowsOf(attempt[a].job)
    BY DEF Committed, RowsOf, AttemptStatus, Active
  <1>3. Flushed(a) => attempt[a].token = 0 /\ ~Committed(a)
    BY <1>1 DEF RowOK, Flushed, Committed, AttemptStatus, Active
  <1>4. QED
    BY <1>1, <1>2, <1>3 DEF RowOK

\* A job with a leased attempt that is active is RUNNING, and has no other.
LEMMA LeasedIsRunning ==
    ASSUME TypeOK, Consistent, RunningJobHasOneLease,
           NEW a \in Attempts, WasLeased(a), attempt[a].status \in Active
    PROVE  /\ attempt[a].job \in Jobs /\ job[attempt[a].job] = "RUNNING"
           /\ LeasesOf(attempt[a].job) = {a}
  <1>1. attempt[a].job \in Jobs /\ a \in RowsOf(attempt[a].job)
    BY RowFacts DEF WasLeased
  <1>2. a \in LeasesOf(attempt[a].job)
    BY <1>1 DEF WasLeased, LeasesOf, ActiveRows
  <1>3. QED
    BY <1>1, <1>2 DEF RunningJobHasOneLease

(***************************************************************************)
(* The moves keep the tables in order                                      *)
(***************************************************************************)
TablesInTurn == NoRowsYet /\ OnlyLastIsActive /\ NoneSkipped /\ RunningJobHasOneLease

LEMMA QuietKeeps ==
    ASSUME TypeOK, Consistent, TablesInTurn, Quiet
    PROVE  TablesInTurn'
  <1>1. ASSUME NEW j \in Jobs PROVE RowsOf(j)' = RowsOf(j)
    BY DEF Quiet, Same, RowsOf, Committed
  <1>2. ASSUME NEW j \in Jobs, NEW a \in RowsOf(j) PROVE Same(a)
    BY DEF Quiet, RowsOf, Committed
  <1>3. ASSUME NEW j \in Jobs PROVE LeasesOf(j)' = LeasesOf(j)
    BY <1>1, <1>2 DEF LeasesOf, ActiveRows, Same
  <1>4. NoRowsYet'
    BY <1>1 DEF TablesInTurn, NoRowsYet, Quiet
  <1>5. OnlyLastIsActive'
    BY <1>1, <1>2 DEF TablesInTurn, OnlyLastIsActive, Same
  <1>6. NoneSkipped'
    BY <1>1, <1>2 DEF TablesInTurn, NoneSkipped, Same
  <1>7. RunningJobHasOneLease'
    BY <1>3 DEF TablesInTurn, RunningJobHasOneLease, Quiet
  <1>8. QED
    BY <1>4, <1>5, <1>6, <1>7 DEF TablesInTurn

LEMMA CreatedIs ==
    ASSUME TypeOK, Consistent, TablesInTurn, NEW j \in Jobs, NEW f, Created(j, f)
    PROVE  /\ RowsOf(j)' = {f} /\ LeasesOf(j)' = {} /\ attempt'[f].number = 1
           /\ attempt'[f].token = 0
           /\ \A k \in Jobs : k # j => RowsOf(k)' = RowsOf(k) /\ LeasesOf(k)' = LeasesOf(k)
           /\ \A b \in Attempts : b # f => attempt'[b] = attempt[b]
           /\ \A k \in Jobs : job'[k] = IF k = j THEN "QUEUED" ELSE job[k]
  <1>1. /\ attempt \in [Attempts -> Row] /\ job \in [Jobs -> JobStatus \cup {"absent"}]
        /\ f \in Attempts /\ ~Committed(f) /\ RowsOf(j) = {}
    BY DEF TypeOK, Created, TablesInTurn, NoRowsYet
  <1>2. attempt'[f] = NewRow(j, 1, "LEASED") /\ \A b \in Attempts : b # f => attempt'[b] = attempt[b]
    BY <1>1 DEF Created
  <1>3. attempt'[f].job = j /\ attempt'[f].number = 1 /\ attempt'[f].status = "LEASED" /\ attempt'[f].token = 0
    BY <1>2 DEF NewRow, EmptyRow
  <1>4. \A k \in Jobs : f \notin RowsOf(k)
    BY <1>1 DEF RowsOf, Committed
  <1>5. RowsOf(j)' = {f}
    BY <1>1, <1>2, <1>3 DEF RowsOf, AttemptStatus, Active
  <1>6. \A k \in Jobs : k # j => RowsOf(k)' = RowsOf(k)
    BY <1>1, <1>2, <1>3, <1>4 DEF RowsOf
  <1>7. LeasesOf(j)' = {}
    BY <1>3, <1>5 DEF LeasesOf, ActiveRows
  <1>8. \A k \in Jobs : k # j => LeasesOf(k)' = LeasesOf(k)
    BY <1>2, <1>4, <1>6 DEF LeasesOf, ActiveRows, RowsOf
  <1>9. \A k \in Jobs : job'[k] = IF k = j THEN "QUEUED" ELSE job[k]
    BY <1>1 DEF Created
  <1>10. QED
    BY <1>2, <1>3, <1>5, <1>6, <1>7, <1>8, <1>9

LEMMA CreatedKeeps ==
    ASSUME TypeOK, Consistent, TablesInTurn, NEW j \in Jobs, NEW f, Created(j, f)
    PROVE  TablesInTurn'
  <1>1. \A k \in Jobs : \A b \in RowsOf(k) : k # j => b # f /\ attempt'[b] = attempt[b]
    BY CreatedIs DEF RowsOf, Created, Committed
  <1>2. NoRowsYet'
    BY CreatedIs DEF TablesInTurn, NoRowsYet
  <1>3. OnlyLastIsActive'
    BY <1>1, CreatedIs DEF TablesInTurn, OnlyLastIsActive
  <1>4. NoneSkipped'
    <2> SUFFICES ASSUME NEW k \in Jobs, NEW a \in RowsOf(k)', NEW n \in 1..MaxAttempts, n < attempt'[a].number
                 PROVE  \E b \in RowsOf(k)' : attempt'[b].number = n /\ attempt'[b].token # 0
      BY DEF NoneSkipped
    <2>1. CASE k = j
      BY <2>1, CreatedIs
    <2>2. CASE k # j
      BY <1>1, <2>2, CreatedIs DEF TablesInTurn, NoneSkipped
    <2>3. QED
      BY <2>1, <2>2
  <1>5. RunningJobHasOneLease'
    BY CreatedIs DEF TablesInTurn, RunningJobHasOneLease
  <1>6. QED
    BY <1>2, <1>3, <1>4, <1>5 DEF TablesInTurn

LEMMA ClaimedIs ==
    ASSUME TypeOK, Consistent, TablesInTurn, NEW j \in Jobs, NEW a, Claimed(j, a)
    PROVE  /\ \A k \in Jobs : RowsOf(k)' = RowsOf(k)
           /\ LeasesOf(j)' = {a} /\ \A k \in Jobs : k # j => LeasesOf(k)' = LeasesOf(k)
           /\ a \in RowsOf(j) /\ attempt[a].status = "LEASED" /\ attempt[a].token = 0
           /\ attempt'[a].status = "LEASED" /\ attempt'[a].token # 0
           /\ attempt'[a].number = attempt[a].number /\ attempt'[a].verdict = attempt[a].verdict
           /\ \A b \in Attempts : b # a => attempt'[b] = attempt[b]
           /\ \A k \in Jobs : job'[k] = IF k = j THEN "RUNNING" ELSE job[k]
  <1>1. /\ a \in Attempts /\ attempt[a].job = j /\ attempt[a].status = "LEASED" /\ attempt[a].token = 0
        /\ \A b \in Attempts : b # a => attempt'[b] = attempt[b]
        /\ job \in [Jobs -> JobStatus \cup {"absent"}] /\ LeasesOf(j) = {} /\ a \in RowsOf(j)
    BY DEF Claimed, RowsOf, Unclaimed, TypeOK, TablesInTurn, RunningJobHasOneLease
  <1>2. /\ attempt'[a].job = j /\ attempt'[a].status = "LEASED" /\ attempt'[a].token # 0
        /\ attempt'[a].number = attempt[a].number /\ attempt'[a].verdict = attempt[a].verdict
    BY DEF Claimed
  <1>3. \A k \in Jobs : RowsOf(k)' = RowsOf(k)
    BY <1>1, <1>2 DEF RowsOf
  <1>4. LeasesOf(j)' = {a}
    <2>1. a \in LeasesOf(j)'
      BY <1>1, <1>2, <1>3 DEF LeasesOf, ActiveRows, Active
    <2>2. \A b \in Attempts : b # a => b \notin LeasesOf(j)'
      BY <1>1, <1>3 DEF LeasesOf, ActiveRows
    <2>3. QED
      BY <2>1, <2>2 DEF LeasesOf, ActiveRows, RowsOf
  <1>5. \A k \in Jobs : k # j => LeasesOf(k)' = LeasesOf(k)
    BY <1>1, <1>2, <1>3 DEF LeasesOf, ActiveRows, RowsOf
  <1>6. \A k \in Jobs : job'[k] = IF k = j THEN "RUNNING" ELSE job[k]
    BY <1>1 DEF Claimed
  <1>7. QED
    BY <1>1, <1>2, <1>3, <1>4, <1>5, <1>6

LEMMA ClaimedKeeps ==
    ASSUME TypeOK, Consistent, TablesInTurn, NEW j \in Jobs, NEW a, Claimed(j, a)
    PROVE  TablesInTurn'
  <1>1. \A b \in Attempts : /\ attempt'[b].number = attempt[b].number
                            /\ attempt'[b].status = attempt[b].status
                            /\ attempt[b].token # 0 => attempt'[b].token # 0
    BY ClaimedIs
  <1>2. NoRowsYet'
    BY ClaimedIs DEF TablesInTurn, NoRowsYet
  <1>3. OnlyLastIsActive'
    BY <1>1, ClaimedIs DEF TablesInTurn, OnlyLastIsActive, RowsOf
  <1>4. NoneSkipped'
    <2> SUFFICES ASSUME NEW k \in Jobs, NEW b \in RowsOf(k)', NEW n \in 1..MaxAttempts, n < attempt'[b].number
                 PROVE  \E c \in RowsOf(k)' : attempt'[c].number = n /\ attempt'[c].token # 0
      BY DEF NoneSkipped
    <2>1. b \in RowsOf(k) /\ n < attempt[b].number
      BY <1>1, ClaimedIs DEF RowsOf
    <2>2. PICK c \in RowsOf(k) : attempt[c].number = n /\ attempt[c].token # 0
      BY <2>1 DEF TablesInTurn, NoneSkipped
    <2>3. QED
      BY <1>1, <2>2, ClaimedIs DEF RowsOf
  <1>5. RunningJobHasOneLease'
    <2>1. a \in Attempts
      BY ClaimedIs DEF RowsOf
    <2>2. QED
      BY <2>1, ClaimedIs DEF TablesInTurn, RunningJobHasOneLease
  <1>6. QED
    BY <1>2, <1>3, <1>4, <1>5 DEF TablesInTurn

\* What Ended says, for one job and with the rows of before.
RetriesOf(j, retries) == {n \in retries : attempt[n].job = j}

LEMMA EndedIs ==
    ASSUME TypeOK, Consistent, TablesInTurn, NEW ended, NEW retries, Ended(ended, retries),
           NEW j \in Jobs
    PROVE  /\ RowsOf(j)' = RowsOf(j) \cup RetriesOf(j, retries)
           /\ LeasesOf(j)' = LeasesOf(j) \ ended
           /\ \A n \in RetriesOf(j, retries) :
                /\ n \in Attempts /\ n \notin RowsOf(j) /\ attempt'[n].token = 0
                /\ \E a \in ended \cap RowsOf(j) : attempt'[n].number = attempt[a].number + 1
           /\ \A b \in RowsOf(j) :
                /\ b \in Attempts /\ attempt'[b].number = attempt[b].number
                /\ attempt'[b].token = attempt[b].token
                /\ b \in ended => attempt'[b].status \in Over
                /\ b \notin ended => attempt'[b] = attempt[b]
  <1>1. ASSUME NEW n \in retries
        PROVE  /\ n \in Attempts /\ ~Committed(n) /\ n \notin ended /\ attempt'[n].status = "LEASED"
               /\ attempt'[n].job = attempt[n].job /\ attempt'[n].number = attempt[n].number
               /\ attempt'[n].token = 0
    <2>1. Flushed(n) /\ n \in Attempts /\ attempt'[n] = [attempt[n] EXCEPT !.status = "LEASED"]
      BY DEF Ended
    <2>2. attempt[n] \in Row /\ attempt[n].token = 0 /\ ~Committed(n)
      BY <2>1, RowFacts
    <2>3. n \notin ended
      BY <2>2 DEF Ended, WasLeased
    <2>4. QED
      BY <2>1, <2>2, <2>3 DEF Row
  <1>2. ASSUME NEW a \in ended
        PROVE  /\ a \in Attempts /\ a \notin retries /\ Committed(a)
               /\ attempt'[a].job = attempt[a].job /\ attempt'[a].number = attempt[a].number
               /\ attempt'[a].token = attempt[a].token
               /\ attempt'[a].status \in Over /\ a \in RowsOf(attempt[a].job)
    BY <1>1, RowFacts DEF Ended, WasLeased
  <1>3. \A b \in Attempts : b \notin ended /\ b \notin retries => attempt'[b] = attempt[b]
    BY DEF Ended
  <1>4. RowsOf(j)' = RowsOf(j) \cup RetriesOf(j, retries)
    <2>1. \A b \in Attempts : b \in ended => (b \in RowsOf(j)' <=> b \in RowsOf(j))
      BY <1>2 DEF RowsOf, Over, AttemptStatus
    <2>2. \A b \in Attempts : b \in retries => (b \in RowsOf(j)' <=> b \in RetriesOf(j, retries))
      BY <1>1 DEF RowsOf, RetriesOf, AttemptStatus, Active
    <2>3. \A b \in Attempts : b \in retries => b \notin RowsOf(j)
      BY <1>1 DEF RowsOf, Committed
    <2>4. \A b \in Attempts : b \notin ended /\ b \notin retries => (b \in RowsOf(j)' <=> b \in RowsOf(j))
      BY <1>3 DEF RowsOf
    <2>5. RowsOf(j) \subseteq Attempts /\ RowsOf(j)' \subseteq Attempts /\ RetriesOf(j, retries) \subseteq Attempts
      BY <1>1 DEF RowsOf, RetriesOf
    <2>6. RetriesOf(j, retries) \subseteq retries
      BY DEF RetriesOf
    <2>7. QED
      BY <1>2, <2>1, <2>2, <2>3, <2>4, <2>5, <2>6
  <1>5. \A b \in RowsOf(j) : /\ b \in Attempts /\ b \notin retries
                             /\ attempt'[b].number = attempt[b].number
                             /\ attempt'[b].token = attempt[b].token
                             /\ b \in ended => attempt'[b].status \in Over
                             /\ b \notin ended => attempt'[b] = attempt[b]
    BY <1>1, <1>2, <1>3 DEF RowsOf, Committed
  <1>6. LeasesOf(j)' = LeasesOf(j) \ ended
    <2>1. \A b \in RowsOf(j) : b \in LeasesOf(j)' <=> b \in LeasesOf(j) /\ b \notin ended
      BY <1>4, <1>5 DEF LeasesOf, ActiveRows, Over, Active
    <2>2. \A n \in RetriesOf(j, retries) : n \notin LeasesOf(j)'
      BY <1>1 DEF LeasesOf, RetriesOf
    <2>3. LeasesOf(j) \subseteq RowsOf(j) /\ LeasesOf(j)' \subseteq RowsOf(j)'
      BY DEF LeasesOf, ActiveRows
    <2>4. QED
      BY <1>4, <2>1, <2>2, <2>3
  <1>7. ASSUME NEW n \in RetriesOf(j, retries)
        PROVE  /\ n \in Attempts /\ n \notin RowsOf(j) /\ attempt'[n].token = 0
               /\ \E a \in ended \cap RowsOf(j) : attempt'[n].number = attempt[a].number + 1
    <2>1. n \in retries /\ attempt[n].job = j
      BY DEF RetriesOf
    <2>2. PICK a \in ended : Successor(n, a)
      BY <2>1 DEF Ended
    <2>3. a \in RowsOf(j) /\ attempt'[n].number = attempt[a].number + 1
      BY <1>1, <1>2, <2>1, <2>2 DEF Successor
    <2>4. QED
      BY <1>1, <2>1, <2>3 DEF RowsOf, Committed
  <1>8. QED
    BY <1>4, <1>5, <1>6, <1>7

\* The job of a row that ends has no other active row.
LEMMA EndedIsLast ==
    ASSUME TypeOK, Consistent, TablesInTurn, NEW ended, NEW retries, Ended(ended, retries),
           NEW a \in ended
    PROVE  LET j == attempt[a].job IN
           /\ a \in Attempts /\ j \in Jobs /\ job[j] = "RUNNING" /\ a \in RowsOf(j) /\ LeasesOf(j) = {a}
           /\ attempt[a].token # 0 /\ attempt[a].number \in 1..MaxAttempts
           /\ \A b \in RowsOf(j) : /\ attempt[b].number \in 1..MaxAttempts
                                   /\ attempt[b].number <= attempt[a].number
                                   /\ attempt[b].status \in Active => b = a
           /\ \A b \in ended : attempt[b].job = j => b = a
  <1>1. a \in Attempts /\ WasLeased(a) /\ attempt[a].status \in Active
    BY DEF Ended
  <1> DEFINE j == attempt[a].job
  <1>2. j \in Jobs /\ job[j] = "RUNNING" /\ LeasesOf(j) = {a} /\ a \in RowsOf(j)
    BY <1>1, LeasedIsRunning, RowFacts DEF TablesInTurn, WasLeased
  <1>3. \A b \in RowsOf(j) : attempt[b].number \in 1..MaxAttempts
    BY RowFacts DEF RowsOf, AttemptStatus, Active
  <1> HIDE DEF j
  <1>4. \A b \in RowsOf(j) : attempt[b].number <= attempt[a].number
    BY <1>1, <1>2 DEF TablesInTurn, OnlyLastIsActive
  <1>5. \A b \in RowsOf(j) : attempt[b].status \in Active => b = a
    <2> SUFFICES ASSUME NEW b \in RowsOf(j), attempt[b].status \in Active PROVE b = a
      OBVIOUS
    <2>1. attempt[a].number <= attempt[b].number
      BY <1>2 DEF TablesInTurn, OnlyLastIsActive
    <2>2. attempt[b].number = attempt[a].number
      BY <1>2, <1>3, <1>4, <2>1, RowFacts
    <2>3. QED
      BY <1>2, <2>2 DEF TablesInTurn, OnlyLastIsActive
  <1>6. \A b \in ended : attempt[b].job = j => b = a
    <2> SUFFICES ASSUME NEW b \in ended, attempt[b].job = j PROVE b = a
      OBVIOUS
    <2>1. b \in Attempts /\ WasLeased(b) /\ attempt[b].status \in Active
      BY DEF Ended
    <2>2. LeasesOf(j) = {b}
      BY <2>1, LeasedIsRunning DEF TablesInTurn
    <2>3. QED
      BY <1>2, <2>2
  <1>7. QED
    BY <1>1, <1>2, <1>3, <1>4, <1>5, <1>6 DEF WasLeased, j

LEMMA EndedKeeps ==
    ASSUME TypeOK, Consistent, TablesInTurn, NEW ended, NEW retries, Ended(ended, retries)
    PROVE  TablesInTurn'
  <1> DEFINE New(j) == RetriesOf(j, retries)
  <1>1. ASSUME NEW j \in Jobs, NEW n \in New(j)
        PROVE  /\ n \in retries /\ n \notin RowsOf(j) /\ attempt'[n].token = 0
               /\ \E a \in ended : /\ attempt[a].job = j /\ a \in RowsOf(j)
                                   /\ attempt'[n].number = attempt[a].number + 1
    BY EndedIs DEF RetriesOf, RowsOf
  <1>2. ASSUME NEW j \in Jobs, NEW m \in New(j), NEW n \in New(j) PROVE m = n
    BY DEF RetriesOf, Ended
  <1>3. NoRowsYet'
    <2> SUFFICES ASSUME NEW j \in Jobs, job'[j] = "absent" PROVE RowsOf(j)' = {}
      BY DEF NoRowsYet
    <2>1. ASSUME NEW a \in ended, attempt[a].job = j PROVE FALSE
      BY <2>1 DEF Ended
    <2>2. job[j] = "absent"
      BY <2>1 DEF Ended
    <2>3. RowsOf(j) = {}
      BY <2>2 DEF TablesInTurn, NoRowsYet
    <2>4. New(j) = {}
      BY <1>1, <2>3
    <2>5. QED
      BY <2>3, <2>4, EndedIs
  <1>4. OnlyLastIsActive'
    <2> SUFFICES ASSUME NEW j \in Jobs, NEW a \in RowsOf(j)', NEW b \in RowsOf(j)'
                 PROVE  /\ attempt'[a].number = attempt'[b].number => a = b
                        /\ attempt'[a].status \in Active => attempt'[b].number <= attempt'[a].number
      BY DEF OnlyLastIsActive
    <2>0. /\ a \in RowsOf(j) \/ a \in New(j)
          /\ b \in RowsOf(j) \/ b \in New(j)
      BY EndedIs
    <2>1. ASSUME NEW n \in New(j), NEW c \in RowsOf(j)
          PROVE  /\ attempt'[c].number < attempt'[n].number
                 /\ attempt'[c].status \notin Active
      <3>1. PICK d \in ended : /\ attempt[d].job = j /\ d \in RowsOf(j)
                               /\ attempt'[n].number = attempt[d].number + 1
        BY <1>1
      <3>2. /\ attempt[c].number \in 1..MaxAttempts /\ attempt[d].number \in 1..MaxAttempts
            /\ attempt[c].number <= attempt[d].number /\ (attempt[c].status \in Active => c = d)
        BY <3>1, EndedIsLast
      <3>3. /\ attempt'[c].number = attempt[c].number
            /\ c \in ended => attempt'[c].status \in Over
            /\ c \notin ended => attempt'[c] = attempt[c]
        BY EndedIs
      <3>4. attempt'[c].number < attempt'[n].number
        BY <3>1, <3>2, <3>3, MaxAttemptsAssumption
      <3>5. attempt'[c].status \notin Active
        BY <3>2, <3>3 DEF Over, Active
      <3>6. QED
        BY <3>4, <3>5
    <2>2. \A c \in RowsOf(j) : attempt'[c].number \in Nat
      <3> SUFFICES ASSUME NEW c \in RowsOf(j) PROVE attempt'[c].number \in Nat
        OBVIOUS
      <3>1. attempt'[c].number = attempt[c].number
        BY EndedIs
      <3>2. attempt[c].number \in 1..MaxAttempts
        BY RowFacts DEF RowsOf, AttemptStatus, Active
      <3>3. QED
        BY <3>1, <3>2, MaxAttemptsAssumption
    <2>3. \A n \in New(j) : attempt'[n].number \in Nat
      <3> SUFFICES ASSUME NEW n \in New(j) PROVE attempt'[n].number \in Nat
        OBVIOUS
      <3>1. PICK d \in ended : attempt'[n].number = attempt[d].number + 1
        BY <1>1
      <3>2. QED
        BY <3>1, EndedIsLast, MaxAttemptsAssumption
    <2>4. CASE a \in RowsOf(j) /\ b \in RowsOf(j)
      <3>1. /\ attempt'[a].number = attempt[a].number /\ attempt'[b].number = attempt[b].number
            /\ attempt'[a].status \in Active => attempt[a].status \in Active
        BY <2>4, EndedIs DEF Over, Active
      <3>2. QED
        BY <2>4, <3>1 DEF TablesInTurn, OnlyLastIsActive
    <2>5. CASE a \in New(j) /\ b \in New(j)
      BY <1>2, <2>3, <2>5
    <2>6. CASE a \in New(j) /\ b \in RowsOf(j)
      BY <2>1, <2>2, <2>3, <2>6
    <2>7. CASE a \in RowsOf(j) /\ b \in New(j)
      BY <2>1, <2>2, <2>3, <2>7
    <2>8. QED
      BY <2>0, <2>4, <2>5, <2>6, <2>7
  <1>5. NoneSkipped'
    <2> SUFFICES ASSUME NEW j \in Jobs, NEW a \in RowsOf(j)', NEW n \in 1..MaxAttempts,
                        n < attempt'[a].number
                 PROVE  \E b \in RowsOf(j)' : attempt'[b].number = n /\ attempt'[b].token # 0
      BY DEF NoneSkipped
    <2>1. ASSUME NEW b \in RowsOf(j), attempt[b].number = n, attempt[b].token # 0
          PROVE  \E c \in RowsOf(j)' : attempt'[c].number = n /\ attempt'[c].token # 0
      BY <2>1, EndedIs
    <2>2. ASSUME NEW c \in RowsOf(j), n < attempt[c].number
          PROVE  \E b \in RowsOf(j) : attempt[b].number = n /\ attempt[b].token # 0
      BY <2>2 DEF TablesInTurn, NoneSkipped
    <2>3. CASE a \in RowsOf(j)
      BY <2>1, <2>2, <2>3, EndedIs
    <2>4. CASE a \in New(j)
      <3>1. PICK d \in ended : /\ attempt[d].job = j /\ d \in RowsOf(j)
                               /\ attempt'[a].number = attempt[d].number + 1
        BY <1>1, <2>4
      <3>2. attempt[d].token # 0 /\ attempt[d].number \in 1..MaxAttempts
        BY EndedIsLast
      <3>3. attempt[d].number = n \/ n < attempt[d].number
        BY <3>1, <3>2, MaxAttemptsAssumption
      <3>4. QED
        BY <2>1, <2>2, <3>1, <3>2, <3>3
    <2>5. QED
      BY <2>3, <2>4, EndedIs
  <1>6. RunningJobHasOneLease'
    <2> SUFFICES ASSUME NEW j \in Jobs
                 PROVE  IF job'[j] = "RUNNING" THEN \E a \in Attempts : LeasesOf(j)' = {a}
                        ELSE LeasesOf(j)' = {}
      BY DEF RunningJobHasOneLease
    <2>1. LeasesOf(j)' = LeasesOf(j) \ ended
      BY EndedIs
    <2>2. CASE \E a \in ended : attempt[a].job = j
      <3>1. PICK a \in ended : attempt[a].job = j
        BY <2>2
      <3>2. LeasesOf(j) = {a}
        BY <3>1, EndedIsLast
      <3>3. job'[j] # "RUNNING"
        BY <3>1 DEF Ended
      <3>4. QED
        BY <2>1, <3>2, <3>3
    <2>3. CASE \A a \in ended : attempt[a].job # j
      <3>1. job'[j] = job[j]
        BY <2>3 DEF Ended
      <3>2. LeasesOf(j) \cap ended = {}
        BY <2>3 DEF LeasesOf, ActiveRows, RowsOf
      <3>3. QED
        BY <2>1, <3>1, <3>2 DEF TablesInTurn, RunningJobHasOneLease
    <2>4. QED
      BY <2>2, <2>3
  <1>7. QED
    BY <1>3, <1>4, <1>5, <1>6 DEF TablesInTurn

\* The latest attempt of a QUEUED job is the one that waits to be claimed.
LEMMA LatestIsUnclaimed ==
    ASSUME Steady, NEW j \in Jobs, job[j] = "QUEUED", NEW a \in LatestRows(j)
    PROVE  Unclaimed(a)
  <1>1. PICK b \in RowsOf(j) : Unclaimed(b)
    BY DEF Steady, InOrder, QueuedJobHasUnclaimedAttempt
  <1>2. a \in RowsOf(j) /\ attempt[b].number <= attempt[a].number
    BY DEF LatestRows
  <1>3. attempt[a].number <= attempt[b].number
    BY <1>1, <1>2 DEF Steady, InOrder, RowsInTurn, OnlyLastIsActive, Unclaimed, Active
  <1>4. attempt[a].number \in Nat /\ attempt[b].number \in Nat
    BY <1>2 DEF Steady, InOrder, TypeOK, Row, RowsOf
  <1>5. attempt[a].number = attempt[b].number
    BY <1>2, <1>3, <1>4
  <1>6. a = b
    BY <1>2, <1>5 DEF Steady, InOrder, RowsInTurn, OnlyLastIsActive
  <1>7. QED
    BY <1>1, <1>6

(***************************************************************************)
(* Every step is one of the moves                                          *)
(***************************************************************************)
LEMMA LeftIsQuiet == attempt' = attempt /\ job' = job => Quiet
  BY DEF Quiet, Same, Committed

LEMMA RolledBackIsQuiet ==
    ASSUME NEW rows, \A a \in rows : Flushed(a), attempt' = RolledBack(rows), job' = job
    PROVE  Quiet
  <1> SUFFICES ASSUME NEW a \in Attempts
               PROVE  /\ (Committed(a)' <=> Committed(a)) /\ (Committed(a) => Same(a))
                      /\ attempt'[a].verdict \in {"null", attempt[a].verdict}
    BY DEF Quiet
  <1>1. CASE a \in rows
    <2>1. attempt[a].status = "inserted" /\ attempt'[a].status = "absent" /\ attempt'[a].verdict = "null"
      BY <1>1 DEF Flushed, RolledBack, EmptyRow
    <2>2. QED
      BY <2>1 DEF Committed, AttemptStatus, Active
  <1>2. CASE a \notin rows
    <2>1. attempt'[a] = attempt[a]
      BY <1>2 DEF RolledBack
    <2>2. QED
      BY <2>1 DEF Committed, Same
  <1>3. QED
    BY <1>1, <1>2

\* A row that is flushed or whose deadline is moved.
LEMMA FlushIsQuiet ==
    ASSUME TypeOK, NEW f, f \in Attempts => ~Committed(f), NEW j, NEW n,
           attempt' = [attempt EXCEPT ![f] = NewRow(j, n, "inserted")], job' = job
    PROVE  Quiet
  <1>1. NewRow(j, n, "inserted").status = "inserted" /\ NewRow(j, n, "inserted").verdict = "null"
    BY DEF NewRow, EmptyRow
  <1>2. \A a \in Attempts : IF a = f THEN attempt'[a].status = "inserted" /\ attempt'[a].verdict = "null"
                            ELSE attempt'[a] = attempt[a]
    BY <1>1 DEF TypeOK
  <1>3. QED
    BY <1>2 DEF Quiet, Same, Committed, AttemptStatus, Active

LEMMA DeadlineIsQuiet ==
    ASSUME TypeOK, job' = job,
           \A a \in Attempts : attempt'[a] = attempt[a] \/ \E d : attempt'[a] = [attempt[a] EXCEPT !.lease = d]
    PROVE  Quiet
  <1> SUFFICES ASSUME NEW a \in Attempts
               PROVE  /\ (Committed(a)' <=> Committed(a)) /\ (Committed(a) => Same(a))
                      /\ attempt'[a].verdict \in {"null", attempt[a].verdict}
    BY DEF Quiet
  <1>1. attempt[a] \in Row
    BY DEF TypeOK
  <1>2. /\ attempt'[a].job = attempt[a].job /\ attempt'[a].number = attempt[a].number
        /\ attempt'[a].token = attempt[a].token /\ attempt'[a].verdict = attempt[a].verdict
        /\ attempt'[a].status = attempt[a].status /\ attempt'[a].worker = attempt[a].worker
    BY <1>1 DEF Row
  <1>3. QED
    BY <1>2 DEF Committed, Same

Moves == \/ Quiet
         \/ \E j \in Jobs, f \in Attempts : Created(j, f)
         \/ \E j \in Jobs, a \in Attempts : Claimed(j, a)
         \/ \E ended, retries \in SUBSET Attempts : Ended(ended, retries)

LEMMA JobStepsMove ==
    ASSUME Steady, NEW j \in Jobs, JobSteps(j)
    PROVE  Moves
  <1>1. CASE CreateJob(j)
    <2>1. FreshId \in Attempts /\ attempt[FreshId].status = "absent"
      BY <1>1, FreshIdIsFree DEF CreateJob, FreeIds
    <2>2. Created(j, FreshId)
      BY <1>1, <2>1 DEF CreateJob, Created, Committed, AttemptStatus, Active
    <2>3. QED
      BY <2>1, <2>2 DEF Moves
  <1>2. CASE EnqueueCreated(j) \/ BackoffElapses(j)
    BY <1>2, LeftIsQuiet DEF EnqueueCreated, BackoffElapses, Moves
  <1>3. QED
    BY <1>1, <1>2 DEF JobSteps

LEMMA ClaimStepsMove ==
    ASSUME Steady, ~Overtakes, NEW w \in Workers, ClaimSteps(w)
    PROVE  Moves
  <1>1. CASE ClaimPop(w) \/ ClaimReadJob(w) \/ ClaimReadAttempt(w) \/ ClaimRespond(w)
    BY <1>1, LeftIsQuiet DEF ClaimPop, ClaimReadJob, ClaimReadAttempt, ClaimRespond, Moves
  <1>2. CASE ClaimCommit(w)
    <2> DEFINE a == claim[w].row
               j == claim[w].job
    <2>0. /\ claim[w].pc = "read" /\ job[j] = "QUEUED" /\ a \in LatestRows(j)
          /\ Committed(a) /\ attempt[a].job = j /\ j \in Jobs
      BY <1>2 DEF ClaimCommit, Overtakes, ClaimOvertaken, Steady, Consistent, RequestsOK, RequestOK
    <2>1. /\ job[j] = "QUEUED" /\ Unclaimed(a) /\ Committed(a) /\ attempt[a].job = j /\ j \in Jobs
      BY <2>0, LatestIsUnclaimed
    <2>2. a \in Attempts /\ a \in RowsOf(j) /\ attempt[a] \in Row /\ attempt[a].status = "LEASED"
      BY <2>1, RowFacts DEF Committed, Steady, Unclaimed
    <2>3. attempt \in [Attempts -> Row] /\ tokens \in Nat
      BY DEF Steady, InOrder, TypeOK
    <2>4. attempt'[a] = [attempt[a] EXCEPT !.worker = w, !.token = tokens + 1, !.lease = "valid",
                            !.status = OrmWrite(claim[w].seen, "LEASED", attempt[a].status)]
      BY <1>2, <2>1, <2>2, <2>3 DEF ClaimCommit
    <2>5. /\ attempt'[a].job = j /\ attempt'[a].number = attempt[a].number
          /\ attempt'[a].verdict = attempt[a].verdict /\ attempt'[a].token = tokens + 1
          /\ attempt'[a].status = "LEASED"
      BY <2>1, <2>2, <2>4 DEF Row, OrmWrite
    <2>6. \A b \in Attempts \ {a} : attempt'[b] = attempt[b]
      BY <1>2, <2>2, <2>3 DEF ClaimCommit
    <2>7. job' = [job EXCEPT ![j] = "RUNNING"] /\ tokens + 1 # 0
      BY <1>2, <2>3 DEF ClaimCommit
    <2>8. Claimed(j, a)
      BY <2>1, <2>2, <2>5, <2>6, <2>7 DEF Claimed
    <2>9. QED
      BY <2>1, <2>2, <2>8 DEF Moves
  <1>3. QED
    BY <1>1, <1>2 DEF ClaimSteps

LEMMA RenewStepsMove ==
    ASSUME Steady, ~Overtakes, NEW w \in Workers, RenewSteps(w)
    PROVE  Moves
  <1>t. attempt \in [Attempts -> Row] /\ TypeOK
    BY DEF Steady, InOrder, TypeOK
  <1>1. CASE RenewRead(w) \/ MarkRead(w)
    BY <1>1, LeftIsQuiet DEF RenewRead, MarkRead, Moves
  <1>2. CASE RenewCommit(w)
    <2>1. \A a \in Attempts : \/ attempt'[a] = attempt[a]
                              \/ attempt'[a] = [attempt[a] EXCEPT !.lease = "valid"]
      BY <1>2, <1>t DEF RenewCommit
    <2>2. QED
      BY <1>2, <1>t, <2>1, DeadlineIsQuiet DEF RenewCommit, Moves
  <1>3. CASE MarkCommit(w)
    <2> DEFINE a == renew[w].row
    <2>1. attempt[a].status \in Active /\ WasLeased(a) /\ job' = job
      BY <1>3 DEF MarkCommit, Overtakes, MarkOvertaken, Steady, Consistent, RequestsOK, RequestOK
    <2>2. /\ a \in Attempts /\ attempt[a] \in Row
          /\ attempt'[a] = [attempt[a] EXCEPT !.status = OrmWrite(renew[w].seen, "RUNNING", attempt[a].status)]
          /\ \A b \in Attempts : b # a => attempt'[b] = attempt[b]
      BY <1>3, <1>t, <2>1 DEF MarkCommit, WasLeased, Committed
    <2>3. /\ attempt'[a].job = attempt[a].job /\ attempt'[a].number = attempt[a].number
          /\ attempt'[a].token = attempt[a].token /\ attempt'[a].verdict = attempt[a].verdict
          /\ attempt'[a].status \in Active /\ attempt'[a].worker = attempt[a].worker
      BY <2>1, <2>2 DEF Row, OrmWrite, Active
    <2> HIDE DEF a
    <2>4. attempt[a].token # 0 /\ attempt[a].status \notin Over
      BY <2>1 DEF WasLeased, Active, Over
    <2>5. Quiet
      <3> SUFFICES ASSUME NEW b \in Attempts
                   PROVE  /\ (Committed(b)' <=> Committed(b)) /\ (Committed(b) => Same(b))
                          /\ attempt'[b].verdict \in {"null", attempt[b].verdict}
        BY <2>1 DEF Quiet
      <3>1. CASE b = a
        BY <2>1, <2>2, <2>3, <2>4, <3>1 DEF Same, Committed, AttemptStatus
      <3>2. CASE b # a
        BY <2>2, <3>2 DEF Same, Committed
      <3>3. QED
        BY <3>1, <3>2
    <2>6. QED
      BY <2>5 DEF Moves
  <1>4. QED
    BY <1>1, <1>2, <1>3 DEF RenewSteps

LEMMA ReportCommitMoves ==
    ASSUME Steady, ~Overtakes, NEW w \in Workers, ReportCommit(w)
    PROVE  Moves
  <1> DEFINE a == report[w].row
             j == attempt[a].job
             v == report[w].verdict
             m == report[w].new
             retries == IF report[w].pc = "flushed" THEN {m} ELSE {}
  <1>t. /\ attempt \in [Attempts -> Row] /\ job \in [Jobs -> JobStatus \cup {"absent"}]
        /\ report[w] \in ReportSlot /\ TypeOK /\ Consistent /\ RunningJobHasOneLease
    BY DEF Steady, InOrder, TypeOK
  <1>1. /\ report[w].pc \in {"read", "flushed"} /\ report[w].seen = "RUNNING"
        /\ attempt[a].status \in Active /\ WasLeased(a)
        /\ report[w].pc = "flushed" <=> Retries(w)
        /\ report[w].pc = "flushed" => Flushed(m) /\ Successor(m, a)
        /\ report[w].pc # "flushed" => m = NoRow
    <2>1. attempt[a].status \in Active /\ report[w].pc \in {"read", "flushed"}
      BY DEF ReportCommit, Overtakes, ReportOvertaken
    <2>2. report[w].seen = "RUNNING"
      BY <2>1 DEF Steady, InOrder, ReportKnows
    <2>3. QED
      BY <1>t, <2>1, <2>2 DEF ReportCommit, Consistent, RequestsOK, RequestOK, FlushedOK
  <1>2. a \in Attempts /\ j \in Jobs /\ job[j] = "RUNNING"
    BY <1>t, <1>1, LeasedIsRunning DEF WasLeased, Committed
  <1>3. v \in Verdict
    BY <1>t DEF ReportSlot
  <1>4. m # a
    BY <1>1, NullAssumption DEF Flushed, WasLeased, Committed, AttemptStatus, Active
  <1>5. /\ attempt'[a] = [attempt[a] EXCEPT !.status = AttemptVerdict(v), !.verdict = v]
        /\ \A b \in Attempts : b # a /\ b = m => attempt'[b] = [attempt[b] EXCEPT !.status = "LEASED"]
        /\ \A b \in Attempts : b # a /\ b # m => attempt'[b] = attempt[b]
    <2>1. attempt' = [b \in Attempts |->
             CASE b = a -> [attempt[a] EXCEPT !.status = AttemptVerdict(v), !.verdict = v]
               [] b = m -> [attempt[b] EXCEPT !.status = "LEASED"]
               [] OTHER -> attempt[b]]
      BY DEF ReportCommit
    <2>0. a \in Attempts /\ m # a
      BY <1>2, <1>4
    <2> HIDE DEF a, m, v
    <2>2. attempt'[a] = [attempt[a] EXCEPT !.status = AttemptVerdict(v), !.verdict = v]
      BY <2>0, <2>1
    <2>3. \A b \in Attempts : b # a /\ b = m => attempt'[b] = [attempt[b] EXCEPT !.status = "LEASED"]
      BY <2>1
    <2>4. \A b \in Attempts : b # a /\ b # m => attempt'[b] = attempt[b]
      BY <2>1
    <2>5. QED
      BY <2>2, <2>3, <2>4
  <1>6. job' = [job EXCEPT ![j] = JobVerdict(v, Retries(w))]
    <2>1. JobVerdict(v, Retries(w)) = "RUNNING" => FALSE
      BY <1>3 DEF JobVerdict, Verdict
    <2>2. QED
      BY <1>1, <1>2, <2>1 DEF ReportCommit, OrmWrite
  <1>7. retries \subseteq Attempts /\ \A n \in retries : n = m /\ Flushed(n) /\ Successor(n, a) /\ Retries(w)
    BY <1>1 DEF Flushed
  <1>8. \A n \in retries : n \in Attempts /\ attempt'[n] = [attempt[n] EXCEPT !.status = "LEASED"]
    BY <1>4, <1>5, <1>7 DEF Flushed
  <1>9. /\ attempt'[a].job = j /\ attempt'[a].number = attempt[a].number
        /\ attempt'[a].token = attempt[a].token /\ attempt'[a].worker = attempt[a].worker
        /\ attempt'[a].status \in Over /\ attempt'[a].verdict = v
    <2>1. attempt[a] \in Row /\ AttemptVerdict(v) \in Over
      BY <1>t, <1>2, <1>3 DEF AttemptVerdict, Verdict, Over
    <2>2. QED
      BY <1>5, <2>1 DEF Row
  <1>10. \A b \in Attempts \ ({a} \cup retries) : attempt'[b] = attempt[b]
    <2>1. \A b \in Attempts : b = m => b \in retries
      BY <1>1, NullAssumption
    <2>2. QED
      BY <1>5, <2>1
  <1>11. /\ v # "infra" => retries = {} /\ job'[j] \in {"SUCCEEDED", "FAILED"}
         /\ v = "infra" /\ ~Retryable(a) => retries = {} /\ job'[j] = "ERRORED"
         /\ v = "infra" /\ Retryable(a) => m \in retries /\ job'[j] = "QUEUED"
    BY <1>t, <1>1, <1>2, <1>3, <1>6 DEF Retries, JobVerdict, Verdict
  <1>12. \A k \in Jobs : k # j => job'[k] = job[k]
    BY <1>t, <1>6
  <1>13. \A n \in retries : Retryable(a) /\ attempt[n].job = j
    BY <1>7 DEF Retries, Successor
  <1>14. m \in retries => attempt[m].job = j
    BY <1>13
  <1> HIDE DEF j, v, m, retries
  <1>15. Ended({a}, retries)
    <2>1. WasLeased(a) /\ attempt[a].status \in Active
      BY <1>1
    <2>2. attempt'[a].verdict = "permanent" => retries = {}
      BY <1>9, <1>11
    <2>3. \A k \in Jobs :
            /\ j # k => job'[k] = job[k]
            /\ j = k => \/ job'[k] \in {"SUCCEEDED", "FAILED"} /\ retries = {}
                        \/ job'[k] = "ERRORED" /\ ~Retryable(a) /\ retries = {}
                        \/ job'[k] = "QUEUED" /\ Retryable(a) /\ \E n \in retries : attempt[n].job = k
      BY <1>11, <1>12, <1>14
    <2>4. \A x, n \in retries : x = n
      BY <1>7
    <2> HIDE DEF a
    <2>5. QED
      BY <1>2, <1>7, <1>8, <1>9, <1>10, <1>13, <2>1, <2>2, <2>3, <2>4 DEF Ended, j
  <1>16. {a} \in SUBSET Attempts /\ retries \in SUBSET Attempts
    BY <1>2, <1>7
  <1>17. QED
    BY <1>15, <1>16 DEF Moves

LEMMA ReportStepsMove ==
    ASSUME Steady, ~Overtakes, NEW w \in Workers, ReportSteps(w)
    PROVE  Moves
  <1>1. CASE (\E v \in Verdict : ReportRead(w, v)) \/ ReportReadJob(w)
    BY <1>1, LeftIsQuiet DEF ReportRead, ReportReadJob, Moves
  <1>2. CASE ReportFlush(w)
    <2>1. FreshId \in Attempts => ~Committed(FreshId)
      BY <1>2, FreshIdIsFree DEF ReportFlush, FreeIds, Committed, AttemptStatus, Active
    <2>2. Quiet
      BY <1>2, <2>1, FlushIsQuiet DEF ReportFlush, Steady
    <2>3. QED
      BY <2>2 DEF Moves
  <1>3. QED
    BY <1>1, <1>2, ReportCommitMoves DEF ReportSteps

LEMMA ReapCommitMoves ==
    ASSUME Steady, ~Overtakes, ReapCommit
    PROVE  Moves
  <1> DEFINE done == reaper.done
             new == reaper.new
  <1>t. /\ attempt \in [Attempts -> Row] /\ job \in [Jobs -> JobStatus \cup {"absent"}]
        /\ done \subseteq Attempts /\ new \subseteq Attempts
        /\ TypeOK /\ Consistent /\ RunningJobHasOneLease
    BY DEF Steady, InOrder, TypeOK, Tick
  <1>1. /\ \A a \in done : /\ WasLeased(a) /\ attempt[a].status \in Active
                           /\ attempt[a].job \in reaper.dirty
                           /\ reaper.seen[attempt[a].job] = (IF Retryable(a) THEN "QUEUED" ELSE "ERRORED")
        /\ \A j \in reaper.dirty : \E a \in done : attempt[a].job = j
        /\ \A n \in new : Flushed(n) /\ \E a \in done : Retryable(a) /\ Successor(n, a)
        /\ \A m, n \in new : attempt[m].job = attempt[n].job => m = n
        /\ \A j \in reaper.dirty : reaper.seen[j] = "QUEUED" => \E n \in new : attempt[n].job = j
    <2>1. TickKnows /\ TickOK /\ FlushedOK /\ reaper.pc = "reaping" /\ reaper.dirty \subseteq Jobs
      BY DEF Steady, InOrder, TypeOK, Tick, Consistent, ReapCommit
    <2>2. \A a \in done : attempt[a].status \in Active
      BY DEF Overtakes, ReapOvertaken
    <2>3. QED
      BY <2>1, <2>2 DEF TickKnows, TickOK, FlushedOK
  <1>2. \A a \in done, n \in new : a # n
    BY <1>1, <1>t, RowFacts DEF WasLeased
  <1>3. /\ \A a \in done : attempt'[a] = [attempt[a] EXCEPT !.status = "INFRA_ERROR"]
        /\ \A n \in new : attempt'[n] = [attempt[n] EXCEPT !.status = "LEASED"]
        /\ \A b \in Attempts \ (done \cup new) : attempt'[b] = attempt[b]
        /\ \A j \in Jobs : job'[j] = IF j \in reaper.dirty THEN reaper.seen[j] ELSE job[j]
    <2>1. attempt' = [a \in Attempts |-> CASE a \in done -> [attempt[a] EXCEPT !.status = "INFRA_ERROR"]
                                           [] a \in new -> [attempt[a] EXCEPT !.status = "LEASED"]
                                           [] OTHER -> attempt[a]]
      BY DEF ReapCommit
    <2>2. \A j \in Jobs : job'[j] = IF j \in reaper.dirty THEN reaper.seen[j] ELSE job[j]
      BY DEF ReapCommit
    <2> HIDE DEF done, new
    <2>3. QED
      BY <1>t, <1>2, <2>1, <2>2
  <1>4. \A a \in done : /\ attempt'[a].job = attempt[a].job /\ attempt'[a].number = attempt[a].number
                        /\ attempt'[a].token = attempt[a].token /\ attempt'[a].worker = attempt[a].worker
                        /\ attempt'[a].status \in Over /\ attempt'[a].verdict # "permanent"
    <2> SUFFICES ASSUME NEW a \in done
                 PROVE  /\ attempt'[a].job = attempt[a].job /\ attempt'[a].number = attempt[a].number
                        /\ attempt'[a].token = attempt[a].token /\ attempt'[a].worker = attempt[a].worker
                        /\ attempt'[a].status \in Over /\ attempt'[a].verdict # "permanent"
      OBVIOUS
    <2>1. attempt[a] \in Row /\ attempt'[a] = [attempt[a] EXCEPT !.status = "INFRA_ERROR"]
      BY <1>t, <1>3
    <2>2. attempt[a].verdict = "null"
      BY <1>t, <1>1 DEF Steady, InOrder, RowsInTurn, NoVerdictYet, Active, Over
    <2>3. QED
      BY <2>1, <2>2 DEF Row, Over
  <1>5. ASSUME NEW a \in done, ~Retryable(a), NEW n \in new PROVE attempt[n].job # attempt[a].job
    <2>1. PICK d \in done : Retryable(d) /\ Successor(n, d)
      BY <1>1
    <2>2. ASSUME attempt[n].job = attempt[a].job PROVE FALSE
      <3>1. attempt[d].job = attempt[a].job
        BY <2>1, <2>2 DEF Successor
      <3>2. d = a
        <4>1. LeasesOf(attempt[a].job) = {a}
          BY <1>t, <1>1, LeasedIsRunning
        <4>2. LeasesOf(attempt[d].job) = {d}
          BY <1>t, <1>1, LeasedIsRunning
        <4>3. QED
          BY <3>1, <4>1, <4>2
      <3>3. QED
        BY <1>5, <2>1, <3>2
    <2>3. QED
      BY <2>2
  <1> HIDE DEF done, new
  <1>6. \A j \in Jobs :
          /\ (\A a \in done : attempt[a].job # j) => job'[j] = job[j]
          /\ \A a \in done : attempt[a].job = j =>
               \/ job'[j] = "ERRORED" /\ ~Retryable(a) /\ \A n \in new : attempt[n].job # j
               \/ job'[j] = "QUEUED" /\ Retryable(a) /\ \E n \in new : attempt[n].job = j
    BY <1>1, <1>3, <1>5
  <1>7. Ended(done, new)
    <2>1. \A a \in done :
            /\ WasLeased(a) /\ attempt[a].status \in Active
            /\ attempt'[a].job = attempt[a].job /\ attempt'[a].number = attempt[a].number
            /\ attempt'[a].token = attempt[a].token /\ attempt'[a].worker = attempt[a].worker
            /\ attempt'[a].status \in Over
            /\ attempt'[a].verdict = "permanent" => \A n \in new : attempt[n].job # attempt[a].job
      BY <1>1, <1>4
    <2>2. \A n \in new : /\ Flushed(n) /\ attempt'[n] = [attempt[n] EXCEPT !.status = "LEASED"]
                         /\ \E a \in done : Retryable(a) /\ Successor(n, a)
      BY <1>1, <1>3
    <2>3. \A m, n \in new : attempt[m].job = attempt[n].job => m = n
      BY <1>1
    <2>4. \A j \in Jobs :
            /\ (\A a \in done : attempt[a].job # j) => job'[j] = job[j]
            /\ \A a \in done : attempt[a].job = j =>
                 \/ job'[j] \in {"SUCCEEDED", "FAILED"} /\ \A n \in new : attempt[n].job # j
                 \/ job'[j] = "ERRORED" /\ ~Retryable(a) /\ \A n \in new : attempt[n].job # j
                 \/ job'[j] = "QUEUED" /\ Retryable(a) /\ \E n \in new : attempt[n].job = j
      BY <1>6
    <2>5. QED
      BY <1>t, <1>3, <2>1, <2>2, <2>3, <2>4 DEF Ended
  <1>8. QED
    BY <1>t, <1>7 DEF Moves

LEMMA ReaperStepsMove ==
    ASSUME Steady, ~Overtakes, ReaperSteps
    PROVE  Moves
  <1>1. CASE \/ ReapDeadScan \/ ReapScan \/ PromoteScan \/ (\E j \in Jobs : PromoteEnqueue(j))
             \/ PromoteRemove \/ ReconcileScan \/ (\E j \in Jobs : ReconcileOne(j))
    BY <1>1, LeftIsQuiet DEF ReapDeadScan, ReapScan, PromoteScan, PromoteEnqueue, PromoteRemove,
                             ReconcileScan, ReconcileOne, Moves
  <1>2. CASE ReapDeadCommit
    <2>1. \A a \in Attempts : \/ attempt'[a] = attempt[a]
                              \/ attempt'[a] = [attempt[a] EXCEPT !.lease = "expired"]
      BY <1>2 DEF ReapDeadCommit
    <2>2. QED
      BY <1>2, <2>1, DeadlineIsQuiet DEF ReapDeadCommit, Steady, Moves
  <1>3. ASSUME NEW a \in Attempts, ReapOne(a) PROVE Moves
    <2>1. CASE Retryable(a)
      <3>1. FreshId \in Attempts => ~Committed(FreshId)
        BY <1>3, <2>1, FreshIdIsFree DEF ReapOne, FreeIds, Committed, AttemptStatus, Active
      <3>2. /\ attempt' = [attempt EXCEPT ![FreshId] = NewRow(attempt[a].job, attempt[a].number + 1, "inserted")]
            /\ job' = job
        BY <1>3, <2>1 DEF ReapOne
      <3>3. Quiet
        BY <3>1, <3>2, FlushIsQuiet DEF Steady, InOrder
      <3>4. QED
        BY <3>3 DEF Moves
    <2>2. CASE ~Retryable(a)
      BY <1>3, <2>2, LeftIsQuiet DEF ReapOne, Moves
    <2>3. QED
      BY <2>1, <2>2
  <1>4. QED
    BY <1>1, <1>2, <1>3, ReapCommitMoves DEF ReaperSteps

\* Crashes, lapses and losses change deadlines and take back what was only flushed.
LEMMA WorldMoves ==
    ASSUME Steady, \/ ServerCrash \/ ReaperAborts \/ RedisFlush \/ UNCHANGED vars
                   \/ (\E w \in Workers : WorkerSteps(w)) \/ (\E a \in Attempts : LeaseLapses(a))
    PROVE  Moves
  <1>1. CASE ServerCrash
    <2>1. \A a \in {b \in Attempts : attempt[b].status = "inserted"} : Flushed(a)
      BY DEF Flushed
    <2>2. Quiet
      BY <1>1, <2>1, RolledBackIsQuiet DEF ServerCrash
    <2>3. QED
      BY <2>2 DEF Moves
  <1>2. CASE ReaperAborts
    <2>1. \A a \in reaper.new : Flushed(a)
      BY DEF Steady, InOrder, Consistent, FlushedOK
    <2>2. Quiet
      BY <1>2, <2>1, RolledBackIsQuiet DEF ReaperAborts
    <2>3. QED
      BY <2>2 DEF Moves
  <1>3. CASE RedisFlush \/ UNCHANGED vars
    BY <1>3, LeftIsQuiet DEF RedisFlush, vars, Moves
  <1>4. ASSUME NEW w \in Workers, WorkerSteps(w) PROVE Moves
    BY <1>4, LeftIsQuiet DEF WorkerSteps, Register, Heartbeat, HeartbeatLapses, ReportLost, WorkerCrash, Moves
  <1>5. ASSUME NEW a \in Attempts, LeaseLapses(a) PROVE Moves
    <2>1. \A b \in Attempts : \/ attempt'[b] = attempt[b]
                              \/ attempt'[b] = [attempt[b] EXCEPT !.lease = "expired"]
      BY <1>5 DEF LeaseLapses, Steady, TypeOK
    <2>2. QED
      BY <1>5, <2>1, DeadlineIsQuiet DEF LeaseLapses, Steady, Moves
  <1>6. QED
    BY <1>1, <1>2, <1>3, <1>4, <1>5

LEMMA EveryStepMoves == Steady /\ InTime => Moves
  BY JobStepsMove, ClaimStepsMove, RenewStepsMove, ReportStepsMove, ReaperStepsMove, WorldMoves
     DEF InTime, Next

LEMMA VerdictsKept ==
    ASSUME TypeOK, Consistent, NoVerdictYet, Moves
    PROVE  NoVerdictYet'
  <1>1. CASE Quiet
    BY <1>1 DEF Quiet, Same, NoVerdictYet, Committed, AttemptStatus, Over
  <1>2. ASSUME NEW j \in Jobs, NEW f \in Attempts, Created(j, f) PROVE NoVerdictYet'
    BY <1>2 DEF Created, TypeOK, NewRow, EmptyRow, NoVerdictYet
  <1>3. ASSUME NEW j \in Jobs, NEW a \in Attempts, Claimed(j, a) PROVE NoVerdictYet'
    BY <1>3 DEF Claimed, Unclaimed, NoVerdictYet, Over
  <1>4. ASSUME NEW ended \in SUBSET Attempts, NEW retries \in SUBSET Attempts, Ended(ended, retries)
        PROVE  NoVerdictYet'
    <2> SUFFICES ASSUME NEW a \in Attempts, attempt'[a].verdict # "null" PROVE attempt'[a].status \in Over
      BY DEF NoVerdictYet
    <2>1. CASE a \in ended
      BY <1>4, <2>1 DEF Ended
    <2>2. CASE a \in retries
      <3>0. Flushed(a) /\ attempt'[a] = [attempt[a] EXCEPT !.status = "LEASED"] /\ attempt[a] \in Row
        BY <1>4, <2>2, RowFacts DEF Ended
      <3>1. attempt'[a].verdict = attempt[a].verdict /\ attempt[a].status = "inserted"
        BY <3>0 DEF Row, Flushed
      <3>2. QED
        BY <3>1 DEF NoVerdictYet, Over
    <2>3. CASE a \notin ended \cup retries
      BY <1>4, <2>3 DEF Ended, NoVerdictYet
    <2>4. QED
      BY <2>1, <2>2, <2>3
  <1>5. QED
    BY <1>1, <1>2, <1>3, <1>4 DEF Moves

LEMMA TablesStep == Steady /\ InTime => TablesInTurn' /\ NoVerdictYet'
  BY EveryStepMoves, VerdictsKept, QuietKeeps, CreatedKeeps, ClaimedKeeps, EndedKeeps
     DEF Steady, InOrder, RowsInTurn, TablesInTurn, Moves

(***************************************************************************)
(* What handlers have loaded                                               *)
(***************************************************************************)
\* A leased attempt stays what it is, with its worker, and once over it does not come back.
LEMMA LeasedRowStays ==
    ASSUME Steady, InTime, NEW a, WasLeased(a)
    PROVE  /\ a \in Attempts /\ WasLeased(a)'
           /\ attempt'[a].job = attempt[a].job /\ attempt'[a].number = attempt[a].number
           /\ attempt'[a].worker = attempt[a].worker
           /\ attempt'[a].status \in Active => attempt[a].status \in Active
  <1>0. a \in Attempts /\ Committed(a) /\ attempt[a].token # 0 /\ attempt[a].status # "inserted" /\ TypeOK
    BY DEF WasLeased, Committed, AttemptStatus, Active, Steady
  <1>1. RowsKept
    BY InTimeIsStep, RowsKeptStep DEF Steady
  <1>2. /\ WasLeased(a)'
        /\ attempt'[a].job = attempt[a].job /\ attempt'[a].number = attempt[a].number
    BY <1>0, <1>1 DEF RowsKept, WasLeased, Committed
  <1> DEFINE Stays == /\ attempt'[a].worker = attempt[a].worker
                      /\ attempt'[a].status \in Active => attempt[a].status \in Active
  <1>3. ASSUME Quiet PROVE Stays
    BY <1>0, <1>3 DEF Quiet, Same
  <1>4. ASSUME NEW j \in Jobs, NEW f \in Attempts, Created(j, f) PROVE attempt'[a] = attempt[a]
    BY <1>0, <1>4 DEF Created, TypeOK
  <1>5. ASSUME NEW j \in Jobs, NEW c \in Attempts, Claimed(j, c) PROVE attempt'[a] = attempt[a]
    BY <1>0, <1>5 DEF Claimed, Unclaimed
  <1>6. ASSUME NEW ended \in SUBSET Attempts, NEW retries \in SUBSET Attempts, Ended(ended, retries)
        PROVE  Stays
    BY <1>0, <1>6 DEF Ended, Flushed
  <1>7. Stays
    BY <1>3, <1>4, <1>5, <1>6, EveryStepMoves DEF Moves
  <1>8. QED
    BY <1>0, <1>2, <1>7

LEMMA ReportsKnow ==
    ASSUME Steady, InTime
    PROVE  ReportKnows'
  <1> SUFFICES ASSUME NEW w \in Workers, report'[w].pc \in {"read", "flushed"},
                      attempt'[report'[w].row].status \in Active
               PROVE  report'[w].seen = "RUNNING"
    BY DEF ReportKnows
  <1>t. /\ report \in [Workers -> ReportSlot] /\ attempt \in [Attempts -> Row]
        /\ TypeOK /\ Consistent /\ RunningJobHasOneLease /\ ReportKnows
    BY DEF Steady, InOrder, TypeOK
  <1>1. ASSUME report[w].pc # "idle", report'[w].row = report[w].row
        PROVE  /\ WasLeased(report[w].row) /\ report[w].row \in Attempts
               /\ attempt[report[w].row].status \in Active
    <2>1. WasLeased(report[w].row)
      BY <1>t, <1>1 DEF Consistent, RequestsOK, RequestOK
    <2>2. QED
      BY <1>1, <2>1, LeasedRowStays
  <1>2. CASE report'[w] = report[w]
    BY <1>t, <1>1, <1>2 DEF ReportKnows
  <1>3. CASE ReportReadJob(w)
    <2>1. /\ report[w].pc = "accepted" /\ report'[w].row = report[w].row
          /\ report'[w].seen = job[attempt[report[w].row].job]
      BY <1>t, <1>3 DEF ReportReadJob, ReportSlot
    <2>2. QED
      BY <1>t, <1>1, <2>1, LeasedIsRunning
  <1>4. CASE ReportFlush(w)
    <2>1. report[w].pc = "read" /\ report'[w].row = report[w].row /\ report'[w].seen = report[w].seen
      BY <1>t, <1>4 DEF ReportFlush, ReportSlot
    <2>2. QED
      BY <1>t, <1>1, <2>1 DEF ReportKnows
  <1>5. ~(\E v \in Verdict : ReportRead(w, v)) /\ ~ReportCommit(w) /\ ~ServerCrash
    <2>1. ASSUME NEW v \in Verdict, ReportRead(w, v) PROVE report'[w].pc \in {"idle", "accepted"}
      BY <1>t, <2>1 DEF ReportRead, NoReport
    <2>2. ASSUME ReportCommit(w) \/ ServerCrash PROVE report'[w].pc = "idle"
      BY <1>t, <2>2 DEF ReportCommit, ServerCrash, NoReport
    <2>3. QED
      BY <2>1, <2>2
  <1>6. ASSUME NEW v \in Workers, ReportSteps(v), v # w PROVE report'[w] = report[w]
    BY <1>t, <1>6 DEF ReportSteps, ReportRead, ReportReadJob, ReportFlush, ReportCommit
  <1>7. CASE ReaperSteps \/ ReaperAborts
    <2>1. report' = report
      BY <1>7 DEF ReaperSteps, ReapDeadScan, ReapDeadCommit, ReapScan, ReapOne, ReapCommit, PromoteScan,
                  PromoteEnqueue, PromoteRemove, ReconcileScan, ReconcileOne, ReaperAborts
    <2>2. QED
      BY <1>2, <2>1
  <1>8. CASE \E v \in Workers : ReportSteps(v)
    BY <1>2, <1>3, <1>4, <1>5, <1>6, <1>8 DEF ReportSteps
  <1>9. QED
    BY <1>2, <1>5, <1>7, <1>8, InTimeIsStep, StepsFrame

\* What a tick has decided outlives the steps of the others.
LEMMA TickIsKept ==
    ASSUME Steady, InTime, reaper' = reaper
    PROVE  TickKnows'
  <1>1. CASE reaper.pc # "reaping"
    BY <1>1 DEF Steady, InOrder, TickKnows
  <1>2. CASE reaper.pc = "reaping"
    <2>t. TypeOK /\ Consistent /\ TickKnows /\ TickOK /\ FlushedOK
      BY DEF Steady, InOrder, Consistent
    <2>1. \A a \in reaper.rows \cup reaper.done :
            /\ attempt'[a].job = attempt[a].job /\ attempt'[a].number = attempt[a].number
            /\ attempt'[a].status \in Active => attempt[a].status \in Active
      BY <2>t, LeasedRowStays DEF TickOK
    <2>2. ASSUME NEW n \in reaper.new PROVE attempt'[n] = attempt[n]
      <3>1. Flushed(n) /\ \A w \in Workers : report[w].new # n
        BY <2>t DEF FlushedOK
      <3>2. FlushedRowKept(n)
        BY <2>t, <3>1, InTimeIsStep, RowsStep DEF Flushed
      <3>3. ~ReapCommit /\ ~ReaperAborts /\ ~ServerCrash
        BY <1>2 DEF ReapCommit, ReaperAborts, ServerCrash, NoTick
      <3>4. QED
        BY <3>1, <3>2, <3>3 DEF FlushedRowKept, Flushed
    <2>3. QED
      BY <1>2, <2>t, <2>1, <2>2 DEF TickKnows, Retryable, Successor
  <1>3. QED
    BY <1>1, <1>2

\* A tick takes one attempt of a job: a job has one lease that can expire.
LEMMA ReapScanKnows ==
    ASSUME Steady, ReapScan
    PROVE  TickKnows'
  <1>t. /\ reaper \in Tick /\ attempt \in [Attempts -> Row] /\ TickKnows
        /\ TypeOK /\ Consistent /\ RunningJobHasOneLease
    BY DEF Steady, InOrder, TypeOK
  <1>1. /\ reaper'.done = {} /\ reaper'.new = {} /\ reaper'.dirty = {}
        /\ reaper'.seen = [j \in Jobs |-> "absent"]
        /\ reaper'.pc = "reaping" => reaper'.rows = Expired
        /\ attempt' = attempt
    BY <1>t DEF ReapScan, TickKnows, Tick
  <1>2. ASSUME NEW a \in Expired PROVE LeasesOf(attempt[a].job) = {a}
    <2>1. a \in Attempts /\ attempt[a].status \in Active /\ attempt[a].lease = "expired" /\ RowOK(a)
      BY <1>t DEF Expired, Lapsed, Consistent, RowsOK
    <2>2. WasLeased(a)
      BY <2>1 DEF RowOK, Active, WasLeased, Committed, AttemptStatus
    <2>3. QED
      BY <1>t, <2>1, <2>2, LeasedIsRunning
  <1>3. \A a, b \in Expired : attempt[a].job = attempt[b].job => a = b
    BY <1>2
  <1>4. QED
    BY <1>1, <1>3 DEF TickKnows

LEMMA ReapOneKnows ==
    ASSUME Steady, NEW a \in Attempts, ReapOne(a)
    PROVE  TickKnows'
  <1> DEFINE j == attempt[a].job
             status == IF Retryable(a) THEN "QUEUED" ELSE "ERRORED"
             f == FreshId
             dirty == IF status = job[j] THEN reaper.dirty ELSE reaper.dirty \cup {j}
  <1>t. /\ attempt \in [Attempts -> Row] /\ reaper \in Tick /\ reaper.pc = "reaping" /\ a \in reaper.rows
        /\ TypeOK /\ Consistent /\ RunningJobHasOneLease /\ TickKnows /\ TickOK /\ FlushedOK
        /\ reaper.rows \subseteq Attempts /\ reaper.done \subseteq Attempts
        /\ reaper.seen \in [Jobs -> JobStatus \cup {"absent"}]
    BY DEF Steady, InOrder, TypeOK, Tick, Consistent, ReapOne
  <1>1. \A b \in reaper.rows \cup reaper.done : /\ WasLeased(b) /\ Committed(b)
                                                /\ attempt[b].status # "absent"
                                                /\ attempt[b].job \in Jobs
    BY <1>t, RowFacts DEF TickOK, WasLeased
  <1>2. j \in Jobs /\ (attempt[a].status \in Active => job[j] = "RUNNING")
    BY <1>t, <1>1, LeasedIsRunning
  <1>3. \A d \in reaper.done : attempt[d].job # j
    BY <1>t, <1>1 DEF TickKnows
  <1>4. reaper.seen[j] = "absent"
    BY <1>t, <1>2, <1>3 DEF TickKnows
  <1>5. /\ reaper'.pc = "reaping" /\ reaper'.rows = reaper.rows \ {a}
        /\ reaper'.done = reaper.done \cup {a} /\ reaper'.seen = [reaper.seen EXCEPT ![j] = status]
        /\ reaper'.dirty = dirty
        /\ reaper'.new = IF Retryable(a) THEN reaper.new \cup {f} ELSE reaper.new
    <2> DEFINE turn == [reaper EXCEPT !.rows = @ \ {a}, !.done = reaper.done \cup {a},
                                      !.seen[j] = status, !.dirty = dirty]
    <2>1. reaper' = IF Retryable(a)
                    THEN [turn EXCEPT !.new = @ \cup {f}, !.flushed = reaper.done \cup {a}] ELSE turn
      BY <1>4 DEF ReapOne
    <2> HIDE DEF status, f, j, dirty
    <2>2. QED
      BY <1>t, <2>1 DEF Tick
  <1>6. \A b \in Attempts : attempt[b].status # "absent" => attempt'[b] = attempt[b]
    BY <1>t, FreshIdIsFree DEF ReapOne, FreeIds
  <1>7. Retryable(a) => /\ f \in Attempts /\ attempt[f].status = "absent"
                        /\ attempt'[f].job = j /\ attempt'[f].number = attempt[a].number + 1
    <2> SUFFICES ASSUME Retryable(a)
                 PROVE  /\ f \in Attempts /\ attempt[f].status = "absent"
                        /\ attempt'[f].job = j /\ attempt'[f].number = attempt[a].number + 1
      OBVIOUS
    <2>1. f \in Attempts /\ attempt[f].status = "absent"
      BY FreshIdIsFree DEF ReapOne, FreeIds
    <2>2. attempt'[f] = NewRow(j, attempt[a].number + 1, "inserted")
      BY <1>t, <2>1 DEF ReapOne
    <2>3. QED
      BY <2>1, <2>2 DEF NewRow, EmptyRow
  <1>8. \A b \in reaper.rows \cup reaper.done : /\ attempt'[b] = attempt[b]
                                                /\ Retryable(b)' <=> Retryable(b)
    BY <1>t, <1>1, <1>6 DEF Retryable
  <1>9. \A n \in reaper.new : /\ n \in Attempts /\ attempt'[n] = attempt[n] /\ attempt[n].job # j
                              /\ \E d \in reaper.done : Retryable(d) /\ Successor(n, d)
    BY <1>t, <1>3, <1>6 DEF TickKnows, FlushedOK, Flushed, Successor
  <1>d. /\ reaper.dirty \subseteq dirty /\ dirty \subseteq reaper.dirty \cup {j}
        /\ attempt[a].status \in Active => j \in dirty
    BY <1>2
  <1> HIDE DEF j, status, f, dirty
  <1>10. /\ reaper'.rows \cap reaper'.done = {}
         /\ \A b, c \in reaper'.rows \cup reaper'.done : attempt'[b].job = attempt'[c].job => b = c
    BY <1>t, <1>5, <1>8 DEF TickKnows
  <1>11. \A k \in Jobs : reaper'.seen[k] # "absent" => \E b \in reaper'.done : attempt'[b].job = k
    <2> SUFFICES ASSUME NEW k \in Jobs, reaper'.seen[k] # "absent"
                 PROVE  \E b \in reaper'.done : attempt'[b].job = k
      OBVIOUS
    <2>1. CASE k = j
      BY <1>t, <1>5, <1>8, <2>1 DEF j
    <2>2. CASE k # j
      BY <1>t, <1>5, <1>8, <2>2 DEF TickKnows
    <2>3. QED
      BY <2>1, <2>2
  <1>12. \A b \in reaper'.done :
           /\ reaper'.seen[attempt'[b].job] = (IF Retryable(b)' THEN "QUEUED" ELSE "ERRORED")
           /\ attempt'[b].status \in Active => attempt'[b].job \in reaper'.dirty
    <2> SUFFICES ASSUME NEW b \in reaper'.done
                 PROVE  /\ reaper'.seen[attempt'[b].job] = (IF Retryable(b)' THEN "QUEUED" ELSE "ERRORED")
                        /\ attempt'[b].status \in Active => attempt'[b].job \in reaper'.dirty
      OBVIOUS
    <2>1. CASE b = a
      BY <1>t, <1>2, <1>5, <1>8, <1>d, <2>1 DEF j, status
    <2>2. CASE b \in reaper.done
      BY <1>t, <1>1, <1>3, <1>5, <1>8, <1>d, <2>2 DEF TickKnows
    <2>3. QED
      BY <1>5, <2>1, <2>2
  <1>13. \A k \in reaper'.dirty : reaper'.seen[k] # "absent"
    BY <1>t, <1>2, <1>5, <1>d DEF TickKnows, status, Tick
  <1>14. \A n \in reaper'.new : \E b \in reaper'.done : Retryable(b)' /\ Successor(n, b)'
    <2> SUFFICES ASSUME NEW n \in reaper'.new
                 PROVE  \E b \in reaper'.done : Retryable(b)' /\ Successor(n, b)'
      OBVIOUS
    <2>1. CASE n \in reaper.new
      BY <1>5, <1>8, <1>9, <2>1 DEF Successor
    <2>2. CASE n \notin reaper.new
      BY <1>t, <1>5, <1>7, <1>8, <2>2 DEF Successor, j
    <2>3. QED
      BY <2>1, <2>2
  <1>15. \A m, n \in reaper'.new : attempt'[m].job = attempt'[n].job => m = n
    BY <1>t, <1>5, <1>7, <1>9 DEF TickKnows
  <1>16. QED
    BY <1>5, <1>10, <1>11, <1>12, <1>13, <1>14, <1>15 DEF TickKnows

LEMMA TicksKnow ==
    ASSUME Steady, InTime
    PROVE  TickKnows'
  <1>t. TickKnows /\ reaper \in Tick
    BY DEF Steady, InOrder, TypeOK
  <1>1. CASE \/ ReapDeadScan \/ PromoteScan \/ (\E j \in Jobs : PromoteEnqueue(j))
             \/ PromoteRemove \/ ReconcileScan \/ (\E j \in Jobs : ReconcileOne(j))
    <2>1. /\ reaper.pc # "reaping" /\ reaper'.pc # "reaping"
          /\ \/ /\ reaper'.done = reaper.done /\ reaper'.new = reaper.new
                /\ reaper'.dirty = reaper.dirty /\ reaper'.seen = reaper.seen
             \/ /\ reaper'.done = {} /\ reaper'.new = {} /\ reaper'.dirty = {}
                /\ reaper'.seen = [j \in Jobs |-> "absent"]
      <3>1. CASE ReapDeadScan
        BY <1>t, <3>1 DEF ReapDeadScan, Tick
      <3>2. CASE PromoteScan
        BY <1>t, <3>2 DEF PromoteScan, Tick
      <3>3. CASE ReconcileScan
        <4>1. reaper' = NoTick \/ \E q : reaper' = [reaper EXCEPT !.pc = "reconciling", !.jobs = q]
          BY <3>3 DEF ReconcileScan
        <4>2. reaper.pc = "reconcile"
          BY <3>3 DEF ReconcileScan
        <4>3. CASE reaper' = NoTick
          BY <4>2, <4>3 DEF NoTick
        <4>4. CASE \E q : reaper' = [reaper EXCEPT !.pc = "reconciling", !.jobs = q]
          BY <1>t, <4>2, <4>4 DEF Tick
        <4>5. QED
          BY <4>1, <4>3, <4>4
      <3>4. CASE PromoteRemove \/ \E j \in Jobs : PromoteEnqueue(j)
        <4>1. CASE PromoteRemove
          BY <1>t, <4>1 DEF PromoteRemove, NoTick, Tick
        <4>2. ASSUME NEW j \in Jobs, PromoteEnqueue(j)
              PROVE  /\ reaper.pc # "reaping" /\ reaper'.pc # "reaping"
                     /\ reaper'.done = reaper.done /\ reaper'.new = reaper.new
                     /\ reaper'.dirty = reaper.dirty /\ reaper'.seen = reaper.seen
          BY <1>t, <4>2 DEF PromoteEnqueue, Tick
        <4>3. QED
          BY <3>4, <4>1, <4>2
      <3>5. CASE \E j \in Jobs : ReconcileOne(j)
        BY <1>t, <3>5 DEF ReconcileOne, NoTick, Tick
      <3>6. QED
        BY <1>1, <3>1, <3>2, <3>3, <3>4, <3>5
    <2>2. QED
      BY <1>t, <2>1 DEF TickKnows
  <1>2. CASE ReapDeadCommit \/ ReapCommit \/ ReaperAborts \/ ServerCrash
    BY <1>2 DEF ReapDeadCommit, ReapCommit, ReaperAborts, ServerCrash, NoTick, TickKnows
  <1>3. CASE ReaperSteps
    BY <1>1, <1>2, <1>3, ReapScanKnows, ReapOneKnows DEF ReaperSteps
  <1>4. ASSUME NEW w \in Workers, ReportSteps(w) PROVE reaper' = reaper
    BY <1>4 DEF ReportSteps, ReportRead, ReportReadJob, ReportFlush, ReportCommit
  <1>5. QED
    BY <1>2, <1>3, <1>4, InTimeIsStep, StepsFrame, TickIsKept

(***************************************************************************)
(* What is over                                                            *)
(***************************************************************************)
\* An attempt that has ended stays as it is, and has no successor if it failed for good.
LEMMA OverIsOver ==
    ASSUME Steady, InTime, NEW a \in Attempts, attempt[a].status \in Over
    PROVE  attempt'[a].status = attempt[a].status
  <1>0. Committed(a) /\ attempt[a].status \notin Active /\ attempt[a].status # "inserted" /\ TypeOK
    BY DEF Committed, AttemptStatus, Over, Active, Steady
  <1>1. CASE Quiet
    BY <1>0, <1>1 DEF Quiet, Same
  <1>2. ASSUME NEW j \in Jobs, NEW f \in Attempts, Created(j, f) PROVE attempt'[a] = attempt[a]
    BY <1>0, <1>2 DEF Created, TypeOK
  <1>3. ASSUME NEW j \in Jobs, NEW c \in Attempts, Claimed(j, c) PROVE attempt'[a] = attempt[a]
    BY <1>0, <1>3 DEF Claimed, Unclaimed, Active
  <1>4. ASSUME NEW ended \in SUBSET Attempts, NEW retries \in SUBSET Attempts, Ended(ended, retries)
        PROVE  attempt'[a] = attempt[a]
    BY <1>0, <1>4 DEF Ended, Flushed
  <1>5. QED
    BY <1>1, <1>2, <1>3, <1>4, EveryStepMoves DEF Moves

\* A permanent failure stays the last attempt of its job.
LEMMA PermanentStep ==
    ASSUME Steady, InTime
    PROVE  PermanentFailureNotRetried'
  <1>t. TypeOK /\ Consistent /\ TablesInTurn /\ NoVerdictYet /\ PermanentFailureNotRetried
    BY DEF Steady, InOrder, RowsInTurn, TablesInTurn
  <1> SUFFICES ASSUME NEW a \in Attempts, NEW b \in Attempts, attempt'[a].verdict = "permanent",
                      b \in RowsOf(attempt[a].job)'
               PROVE  attempt'[b].number <= attempt'[a].number
    BY DEF PermanentFailureNotRetried
  <1> DEFINE j == attempt[a].job
  <1>1. ASSUME attempt[a].verdict = "permanent"
        PROVE  /\ attempt[a].status \in Over /\ Committed(a) /\ j \in Jobs /\ a \in RowsOf(j)
               /\ \A c \in RowsOf(j) : c \in Attempts /\ attempt[c].number <= attempt[a].number
    <2>1. attempt[a].status \in Over /\ Committed(a)
      BY <1>t, <1>1 DEF NoVerdictYet, Committed, AttemptStatus, Over
    <2>2. j \in Jobs /\ a \in RowsOf(j)
      BY <1>t, <2>1, RowFacts
    <2>3. QED
      BY <1>t, <1>1, <2>1, <2>2 DEF PermanentFailureNotRetried, RowsOf
  <1>2. CASE Quiet
    <2>1. attempt[a].verdict = "permanent"
      BY <1>2 DEF Quiet
    <2>2. Same(a) /\ b \in RowsOf(j) /\ Same(b)
      BY <1>1, <1>2, <2>1 DEF Quiet, Same, RowsOf, Committed
    <2>3. QED
      BY <1>1, <2>1, <2>2 DEF Same
  <1>3. ASSUME NEW i \in Jobs, NEW f \in Attempts, Created(i, f)
        PROVE  attempt'[b].number <= attempt'[a].number
    <2>1. a # f /\ attempt'[a] = attempt[a]
      BY <1>t, <1>3 DEF Created, TypeOK, NewRow, EmptyRow
    <2>2. j # i
      BY <1>t, <1>1, <1>3, <2>1 DEF Created, TablesInTurn, NoRowsYet
    <2>3. b \in RowsOf(j) /\ b # f
      <3>1. attempt[a].verdict = "permanent" /\ RowsOf(j)' = RowsOf(j)
        BY <1>t, <1>1, <1>3, <2>1, <2>2, CreatedIs
      <3>2. b \in RowsOf(j)
        BY <2>1, <3>1 DEF RowsOf
      <3>3. QED
        BY <1>3, <3>2 DEF RowsOf, Created, Committed
    <2>4. attempt'[b] = attempt[b]
      BY <1>t, <1>3, <2>3, CreatedIs
    <2>5. QED
      BY <1>1, <2>1, <2>3, <2>4
  <1>4. ASSUME NEW i \in Jobs, NEW c \in Attempts, Claimed(i, c)
        PROVE  attempt'[b].number <= attempt'[a].number
    <2>1. \A d \in Attempts : /\ attempt'[d].verdict = attempt[d].verdict
                              /\ attempt'[d].number = attempt[d].number
                              /\ attempt'[d].job = attempt[d].job
      BY <1>4 DEF Claimed, RowsOf
    <2>2. b \in RowsOf(j)
      BY <1>t, <1>1, <1>4, <2>1, ClaimedIs
    <2>3. QED
      BY <1>1, <2>1, <2>2
  <1>5. ASSUME NEW ended \in SUBSET Attempts, NEW retries \in SUBSET Attempts, Ended(ended, retries)
        PROVE  attempt'[b].number <= attempt'[a].number
    <2>1. CASE a \in ended
      <3>1. /\ j \in Jobs /\ a \in RowsOf(j) /\ \A c \in RowsOf(j) : attempt[c].number <= attempt[a].number
        BY <1>t, <1>5, <2>1, EndedIsLast
      <3>2. attempt'[a].job = j /\ RetriesOf(j, retries) = {}
        BY <1>5, <2>1 DEF Ended, RetriesOf
      <3>3. b \in RowsOf(j)
        BY <1>t, <1>5, <3>1, <3>2, EndedIs
      <3>4. attempt'[a].number = attempt[a].number /\ attempt'[b].number = attempt[b].number
        BY <1>t, <1>5, <3>1, <3>3, EndedIs
      <3>5. QED
        BY <3>1, <3>3, <3>4
    <2>2. CASE a \in retries
      <3>1. Flushed(a) /\ attempt'[a] = [attempt[a] EXCEPT !.status = "LEASED"] /\ attempt[a] \in Row
        BY <1>t, <1>5, <2>2, RowFacts DEF Ended
      <3>2. attempt[a].verdict = "permanent" /\ attempt[a].status = "inserted"
        BY <3>1 DEF Row, Flushed
      <3>3. QED
        BY <1>1, <3>2 DEF Over
    <2>3. CASE a \notin ended \cup retries
      <3>1. attempt'[a] = attempt[a]
        BY <1>5, <2>3 DEF Ended
      <3>2. attempt[a].verdict = "permanent" /\ b \in RowsOf(j) \cup RetriesOf(j, retries)
        BY <1>t, <1>1, <1>5, <3>1, EndedIs
      <3>3. CASE b \in RowsOf(j)
        BY <1>t, <1>1, <1>5, <3>1, <3>2, <3>3, EndedIs
      <3>4. CASE b \in RetriesOf(j, retries)
        <4>1. PICK d \in ended \cap RowsOf(j) : attempt'[b].number = attempt[d].number + 1
          BY <1>t, <1>1, <1>5, <3>2, <3>4, EndedIs
        <4>2. attempt[d].number <= attempt[a].number /\ attempt[a].number <= attempt[d].number
          BY <1>t, <1>1, <1>5, <3>2, <4>1, EndedIsLast DEF RowsOf
        <4>3. attempt[d].number = attempt[a].number
          BY <1>t, <4>2, RowFacts DEF RowsOf, Row
        <4>4. d = a
          BY <1>t, <1>1, <3>2, <4>1, <4>3 DEF TablesInTurn, OnlyLastIsActive
        <4>5. QED
          BY <2>3, <4>1, <4>4
      <3>5. QED
        BY <3>2, <3>3, <3>4
    <2>4. QED
      BY <2>1, <2>2, <2>3
  <1>6. QED
    BY <1>2, <1>3, <1>4, <1>5, EveryStepMoves DEF Moves

(***************************************************************************)
(* Who holds a lease                                                       *)
(***************************************************************************)
\* Only the response to a claim gives a worker a lease.
LEMMA OnlyClaimsGive ==
    ASSUME TypeOK, [Next]_vars, NEW w \in Workers
    PROVE  /\ hold'[w] \in {hold[w], NoLease} \/ ClaimRespond(w)
           /\ claim'[w].pc = "committed" => claim'[w] = claim[w] \/ ClaimCommit(w)
  <1>t. hold \in [Workers -> [row : Rows, token : Nat]] /\ claim \in [Workers -> ClaimSlot]
    BY DEF TypeOK
  <1>1. ASSUME NEW j \in Jobs, JobSteps(j) PROVE hold' = hold /\ claim' = claim
    BY <1>1 DEF JobSteps, CreateJob, EnqueueCreated, BackoffElapses, server
  <1>2. ASSUME NEW v \in Workers, ClaimSteps(v)
        PROVE  /\ hold'[w] = hold[w] \/ ClaimRespond(w)
               /\ claim'[w].pc = "committed" => claim'[w] = claim[w] \/ ClaimCommit(w)
    <2>1. CASE v = w
      <3>1. CASE ClaimPop(w) \/ ClaimReadJob(w)
        BY <1>t, <3>1 DEF ClaimPop, ClaimReadJob, ClaimSlot, NoClaim
      <3>2. CASE ClaimReadAttempt(w)
        BY <1>t, <3>2 DEF ClaimReadAttempt, ClaimSlot
      <3>3. CASE ClaimCommit(w)
        BY <3>3 DEF ClaimCommit
      <3>4. CASE ClaimRespond(w)
        BY <1>t, <3>4 DEF ClaimRespond, NoClaim
      <3>5. QED
        BY <1>2, <2>1, <3>1, <3>2, <3>3, <3>4 DEF ClaimSteps
    <2>2. CASE v # w
      BY <1>t, <1>2, <2>2 DEF ClaimSteps, ClaimPop, ClaimReadJob, ClaimReadAttempt, ClaimCommit, ClaimRespond
    <2>3. QED
      BY <2>1, <2>2
  <1>3. ASSUME NEW v \in Workers, RenewSteps(v) PROVE hold' = hold /\ claim' = claim
    BY <1>3 DEF RenewSteps, RenewRead, RenewCommit, MarkRead, MarkCommit
  <1>4. ASSUME NEW v \in Workers, ReportSteps(v) \/ WorkerSteps(v)
        PROVE  hold'[w] \in {hold[w], NoLease} /\ claim' = claim
    <2>1. claim' = claim /\ (hold' = hold \/ hold' = [hold EXCEPT ![v] = NoLease])
      BY <1>4 DEF ReportSteps, ReportRead, ReportReadJob, ReportFlush, ReportCommit,
                  WorkerSteps, Register, Heartbeat, HeartbeatLapses, ReportLost, WorkerCrash, server
    <2>2. QED
      BY <1>t, <2>1
  <1>5. CASE ReaperSteps
    BY <1>5 DEF ReaperSteps, ReapDeadScan, ReapDeadCommit, ReapScan, ReapOne, ReapCommit, PromoteScan,
                PromoteEnqueue, PromoteRemove, ReconcileScan, ReconcileOne
  <1>6. CASE ServerCrash \/ ReaperAborts \/ RedisFlush \/ UNCHANGED vars \/ \E a \in Attempts : LeaseLapses(a)
    BY <1>6 DEF ServerCrash, ReaperAborts, RedisFlush, LeaseLapses, vars, server, NoClaim
  <1>7. QED
    BY <1>1, <1>2, <1>3, <1>4, <1>5, <1>6 DEF Next

LEMMA LeaseStaysOwn ==
    ASSUME Steady, InTime
    PROVE  LeaseIsOwn'
  <1> SUFFICES ASSUME NEW w \in Workers
               PROVE  /\ hold'[w] # NoLease => attempt'[hold'[w].row].worker = w
                      /\ claim'[w].pc = "committed" => attempt'[claim'[w].row].worker = w
    BY DEF LeaseIsOwn
  <1>t. /\ TypeOK /\ Consistent /\ attempt \in [Attempts -> Row]
        /\ LeaseIsOwn /\ hold \in [Workers -> [row : Rows, token : Nat]] /\ claim \in [Workers -> ClaimSlot]
    BY DEF Steady, InOrder, TypeOK
  <1>1. /\ hold[w] # NoLease => WasLeased(hold[w].row)
        /\ claim[w].pc = "committed" => WasLeased(claim[w].row)
        /\ claim[w].pc = "read" => claim[w].row \in Attempts
    BY <1>t DEF Consistent, RequestsOK, RequestOK, Committed
  <1>2. hold'[w] # NoLease => attempt'[hold'[w].row].worker = w
    <2>1. CASE hold'[w] = hold[w]
      BY <1>t, <1>1, <2>1, LeasedRowStays DEF LeaseIsOwn
    <2>2. CASE ClaimRespond(w)
      <3>1. claim[w].pc = "committed" /\ attempt' = attempt /\ (hold'[w] # NoLease => hold'[w].row = claim[w].row)
        BY <1>t, <2>2 DEF ClaimRespond
      <3>2. QED
        BY <1>t, <3>1 DEF LeaseIsOwn
    <2>3. QED
      BY <1>t, <2>1, <2>2, InTimeIsStep, OnlyClaimsGive
  <1>3. claim'[w].pc = "committed" => attempt'[claim'[w].row].worker = w
    <2>1. CASE claim'[w] = claim[w]
      BY <1>t, <1>1, <2>1, LeasedRowStays DEF LeaseIsOwn
    <2>2. CASE ClaimCommit(w)
      <3> DEFINE a == claim[w].row
      <3>1. a \in Attempts /\ claim'[w].row = a
        BY <1>t, <1>1, <2>2 DEF ClaimCommit, ClaimSlot
      <3>2. attempt'[a] = [attempt[a] EXCEPT !.worker = w, !.token = tokens + 1, !.lease = "valid",
                             !.status = OrmWrite(claim[w].seen, "LEASED", attempt[a].status)]
        BY <1>t, <2>2, <3>1 DEF ClaimCommit
      <3>3. attempt'[a].worker = w
        BY <1>t, <3>1, <3>2 DEF Row
      <3>4. QED
        BY <3>1, <3>3
    <2>3. QED
      BY <1>t, <2>1, <2>2, InTimeIsStep, OnlyClaimsGive
  <1>4. QED
    BY <1>2, <1>3

(***************************************************************************)
(* The requests implement JobLifecycle                                     *)
(***************************************************************************)
Granted(j) == {a \in RowsOf(j) : attempt[a].token # 0}

\* A set whose elements have the numbers 1..n has n of them.
LEMMA CountedByNumber ==
    ASSUME NEW S, NEW n \in Nat, NEW number,
           \A x \in S : number[x] \in 1..n,
           \A x, y \in S : number[x] = number[y] => x = y,
           \A i \in 1..n : \E x \in S : number[x] = i
    PROVE  IsFiniteSet(S) /\ Cardinality(S) = n
  <1> DEFINE f == [i \in 1..n |-> CHOOSE x \in S : number[x] = i]
  <1>1. \A i \in 1..n : f[i] \in S /\ number[f[i]] = i
    OBVIOUS
  <1>2. f \in [1..n -> S]
    BY <1>1
  <1> HIDE DEF f
  <1>3. IsInjective(f)
    BY <1>1, <1>2 DEF IsInjective
  <1>4. \A x \in S : \E i \in 1..n : f[i] = x
    BY <1>1
  <1>5. f \in Bijection(1..n, S)
    BY <1>2, <1>3, <1>4 DEF Bijection, Injection, Surjection
  <1>6. ExistsBijection(1..n, S)
    BY <1>5 DEF ExistsBijection
  <1>7. QED
    BY <1>6, FS_CountingElements, FS_NatBijection

\* The grants of a job are the numbers up to its last attempt's, the last included once
\* it is leased.
LEMMA GrantsAreNumbers ==
    ASSUME TypeOK, Consistent, TablesInTurn, NEW j \in Jobs, NEW a \in RowsOf(j),
           \A b \in RowsOf(j) : attempt[b].number <= attempt[a].number
    PROVE  /\ IsFiniteSet(Granted(j)) /\ attempt[a].number \in 1..MaxAttempts
           /\ Cardinality(Granted(j)) =
                IF attempt[a].token = 0 THEN attempt[a].number - 1 ELSE attempt[a].number
  <1> DEFINE number == [b \in Attempts |-> attempt[b].number]
             n == IF attempt[a].token = 0 THEN attempt[a].number - 1 ELSE attempt[a].number
  <1>1. \A b \in RowsOf(j) : b \in Attempts /\ attempt[b].number \in 1..MaxAttempts
    BY RowFacts DEF RowsOf, AttemptStatus, Active
  <1>2. /\ MaxAttempts \in Nat /\ attempt[a].number \in 1..MaxAttempts /\ n \in Nat
    BY <1>1, MaxAttemptsAssumption
  <1>3. \A b, c \in RowsOf(j) : attempt[b].number = attempt[c].number => b = c
    BY DEF TablesInTurn, OnlyLastIsActive
  <1>4. ASSUME NEW b \in Granted(j) PROVE attempt[b].number \in 1..n
    <2>1. b \in RowsOf(j) /\ attempt[b].token # 0
      BY DEF Granted
    <2>2. attempt[b].number \in 1..MaxAttempts /\ attempt[b].number <= attempt[a].number
      BY <1>1, <2>1
    <2>3. attempt[a].token = 0 => attempt[b].number # attempt[a].number
      BY <1>3, <2>1
    <2>4. QED
      BY <1>2, <2>2, <2>3
  <1>5. ASSUME NEW i \in 1..n PROVE \E b \in Granted(j) : attempt[b].number = i
    <2>1. i \in 1..MaxAttempts /\ (i < attempt[a].number \/ (i = attempt[a].number /\ attempt[a].token # 0))
      BY <1>2
    <2>2. CASE i < attempt[a].number
      BY <2>1, <2>2 DEF TablesInTurn, NoneSkipped, Granted
    <2>3. CASE i = attempt[a].number /\ attempt[a].token # 0
      BY <2>3 DEF Granted
    <2>4. QED
      BY <2>1, <2>2, <2>3
  <1>6. \A b \in Granted(j) : b \in Attempts /\ b \in RowsOf(j) /\ number[b] = attempt[b].number
    BY <1>1 DEF Granted
  <1> HIDE DEF n, number
  <1>7. /\ \A b \in Granted(j) : number[b] \in 1..n
        /\ \A b, c \in Granted(j) : number[b] = number[c] => b = c
        /\ \A i \in 1..n : \E b \in Granted(j) : number[b] = i
    BY <1>3, <1>4, <1>5, <1>6
  <1>8. IsFiniteSet(Granted(j)) /\ Cardinality(Granted(j)) = n
    BY <1>2, <1>7, CountedByNumber
  <1>9. QED
    BY <1>2, <1>8 DEF n

\* What JobLifecycle allows a job in one step.
Turn(j) == \/ Lifecycle!Submit(j) \/ Lifecycle!Grant(j) \/ Lifecycle!Finish(j)
           \/ Lifecycle!Retry(j) \/ Lifecycle!GiveUp(j) \/ Lifecycle!Becomes(j, job[j])

LEMMA BecomesIs ==
    ASSUME NEW j \in Jobs, Granted(j)' = Granted(j), NEW s, job'[j] = s
    PROVE  Lifecycle!Becomes(j, s)
  BY DEF Lifecycle!Becomes, Granted

LEMMA QuietTurn ==
    ASSUME Quiet, NEW j \in Jobs
    PROVE  Turn(j)
  <1>1. Granted(j)' = Granted(j)
    BY DEF Quiet, Same, Granted, RowsOf, Committed
  <1>2. QED
    BY <1>1, BecomesIs DEF Quiet, Turn

LEMMA CreatedTurn ==
    ASSUME TypeOK, Consistent, TablesInTurn, NEW i \in Jobs, NEW f, Created(i, f), NEW j \in Jobs
    PROVE  Turn(j)
  <1>1. CASE j = i
    <2>1. job[i] = "absent" /\ job'[i] = "QUEUED" /\ Granted(i) = {}
      <3>1. job[i] = "absent" /\ RowsOf(i) = {}
        BY DEF Created, TablesInTurn, NoRowsYet
      <3>2. job'[i] = "QUEUED"
        BY CreatedIs
      <3>3. QED
        BY <3>1, <3>2 DEF Granted
    <2>2. Granted(i)' = {}
      BY CreatedIs DEF Granted
    <2>3. Lifecycle!Becomes(i, "QUEUED")
      BY <2>1, <2>2, BecomesIs
    <2>4. QED
      BY <1>1, <2>1, <2>3 DEF Turn, Lifecycle!Submit
  <1>2. CASE j # i
    <2>1. RowsOf(j)' = RowsOf(j) /\ \A b \in RowsOf(j) : attempt'[b] = attempt[b]
      <3>1. RowsOf(j)' = RowsOf(j) /\ \A b \in Attempts : b # f => attempt'[b] = attempt[b]
        BY <1>2, CreatedIs
      <3>2. \A b \in RowsOf(j) : b \in Attempts /\ b # f
        BY DEF RowsOf, Created, Committed
      <3>3. QED
        BY <3>1, <3>2
    <2>2. Granted(j)' = Granted(j) /\ job'[j] = job[j]
      BY <1>2, <2>1, CreatedIs DEF Granted
    <2>3. QED
      BY <2>2, BecomesIs DEF Turn
  <1>3. QED
    BY <1>1, <1>2

LEMMA ClaimedTurn ==
    ASSUME TypeOK, Consistent, TablesInTurn, NEW i \in Jobs, NEW a, Claimed(i, a), NEW j \in Jobs
    PROVE  Turn(j)
  <1>0. RowsOf(j)' = RowsOf(j) /\ a \in Attempts /\ attempt[a].job = i
    BY ClaimedIs DEF RowsOf
  <1>1. CASE j = i
    <2>1. \A b \in RowsOf(i) : attempt[b].number <= attempt[a].number
      BY ClaimedIs DEF TablesInTurn, OnlyLastIsActive, Active
    <2>2. /\ IsFiniteSet(Granted(i)) /\ attempt[a].number \in 1..MaxAttempts
          /\ Cardinality(Granted(i)) = attempt[a].number - 1
      BY <2>1, ClaimedIs, GrantsAreNumbers
    <2>3. Granted(i)' = Granted(i) \cup {a} /\ a \notin Granted(i)
      <3>1. a \in Granted(i)' /\ a \notin Granted(i)
        BY <1>0, <1>1, ClaimedIs DEF Granted
      <3>2. \A b \in RowsOf(i) : b # a => (b \in Granted(i)' <=> b \in Granted(i))
        BY <1>0, <1>1, ClaimedIs DEF Granted, RowsOf
      <3>3. Granted(i) \subseteq RowsOf(i) /\ Granted(i)' \subseteq RowsOf(i)
        BY <1>0, <1>1 DEF Granted
      <3>4. QED
        BY <3>1, <3>2, <3>3
    <2>4. Cardinality(Granted(i)') = Cardinality(Granted(i)) + 1
      BY <2>2, <2>3, FS_AddElement
    <2>5. Cardinality(Granted(i)) < MaxAttempts
      BY <2>2, MaxAttemptsAssumption
    <2>6. job[i] = "QUEUED" /\ job'[i] = "RUNNING"
      BY DEF Claimed, TypeOK
    <2>7. Lifecycle!Grant(i)
      BY <2>4, <2>5, <2>6 DEF Lifecycle!Grant, Granted
    <2>8. QED
      BY <1>1, <2>7 DEF Turn
  <1>2. CASE j # i
    <2>1. \A b \in RowsOf(j) : attempt'[b] = attempt[b]
      BY <1>0, <1>2, ClaimedIs DEF RowsOf
    <2>2. Granted(j)' = Granted(j) /\ job'[j] = job[j]
      BY <1>0, <1>2, <2>1, ClaimedIs DEF Granted
    <2>3. QED
      BY <2>2, BecomesIs DEF Turn
  <1>3. QED
    BY <1>1, <1>2

LEMMA EndedTurn ==
    ASSUME TypeOK, Consistent, TablesInTurn, NEW ended, NEW retries, Ended(ended, retries), NEW j \in Jobs
    PROVE  Turn(j)
  <1>1. Granted(j)' = Granted(j)
    <2>1. RowsOf(j)' = RowsOf(j) \cup RetriesOf(j, retries)
      BY EndedIs
    <2>2. \A b \in RowsOf(j) : attempt'[b].token = attempt[b].token
      BY EndedIs
    <2>3. \A n \in RetriesOf(j, retries) : attempt'[n].token = 0
      BY EndedIs
    <2>4. QED
      BY <2>1, <2>2, <2>3 DEF Granted
  <1>2. CASE \A a \in ended : attempt[a].job # j
    <2>1. job'[j] = job[j]
      BY <1>2 DEF Ended
    <2>2. QED
      BY <1>1, <2>1, BecomesIs DEF Turn
  <1>3. CASE \E a \in ended : attempt[a].job = j
    <2>1. PICK a \in ended : attempt[a].job = j
      BY <1>3
    <2>2. /\ job[j] = "RUNNING" /\ a \in RowsOf(j) /\ attempt[a].token # 0
          /\ \A b \in RowsOf(j) : attempt[b].number <= attempt[a].number
      BY <2>1, EndedIsLast
    <2>3. attempt[a].number \in 1..MaxAttempts /\ Cardinality(Granted(j)) = attempt[a].number
      BY <2>2, GrantsAreNumbers
    <2>4. \/ job'[j] \in {"SUCCEEDED", "FAILED"}
          \/ job'[j] = "QUEUED" /\ Retryable(a)
          \/ job'[j] = "ERRORED" /\ ~Retryable(a)
      BY <2>1 DEF Ended
    <2>5. CASE job'[j] \in {"SUCCEEDED", "FAILED"}
      <3>1. Lifecycle!Becomes(j, "SUCCEEDED") \/ Lifecycle!Becomes(j, "FAILED")
        BY <1>1, <2>5, BecomesIs
      <3>2. QED
        BY <2>2, <3>1 DEF Turn, Lifecycle!Finish
    <2>6. CASE job'[j] = "QUEUED" /\ Retryable(a)
      <3>1. Lifecycle!Becomes(j, "QUEUED")
        BY <1>1, <2>6, BecomesIs
      <3>2. Cardinality(Granted(j)) < MaxAttempts
        BY <2>3, <2>6 DEF Retryable
      <3>3. QED
        BY <2>2, <3>1, <3>2 DEF Turn, Lifecycle!Retry, Granted
    <2>7. CASE job'[j] = "ERRORED" /\ ~Retryable(a)
      <3>1. Lifecycle!Becomes(j, "ERRORED")
        BY <1>1, <2>7, BecomesIs
      <3>2. Cardinality(Granted(j)) = MaxAttempts
        BY <2>3, <2>7, MaxAttemptsAssumption DEF Retryable
      <3>3. QED
        BY <2>2, <3>1, <3>2 DEF Turn, Lifecycle!GiveUp, Granted
    <2>8. QED
      BY <2>4, <2>5, <2>6, <2>7
  <1>4. QED
    BY <1>2, <1>3

LEMMA LifecycleStep == Steady /\ InTime => Lifecycle!Next
  <1> SUFFICES ASSUME Steady, InTime PROVE Lifecycle!Next
    OBVIOUS
  <1>1. TypeOK /\ Consistent /\ TablesInTurn
    BY DEF Steady, InOrder, RowsInTurn, TablesInTurn
  <1>2. \A j \in Jobs : Turn(j)
    BY <1>1, EveryStepMoves, QuietTurn, CreatedTurn, ClaimedTurn, EndedTurn DEF Moves
  <1>3. QED
    BY <1>2 DEF Turn, Lifecycle!Next

LEMMA LifecycleInit == Init => Lifecycle!Init
  <1> SUFFICES ASSUME Init PROVE Lifecycle!Init
    OBVIOUS
  <1>1. \A j \in Jobs : Granted(j) = {}
    BY DEF Init, Granted, RowsOf, EmptyRow, AttemptStatus, Active
  <1>2. \A j \in Jobs : Cardinality(Granted(j)) = 0
    BY <1>1, FS_EmptySet
  <1>3. [j \in Jobs |-> Cardinality({a \in RowsOf(j) : attempt[a].token # 0})] = [j \in Jobs |-> 0]
    BY <1>2 DEF Granted
  <1>4. QED
    BY <1>3 DEF Init, Lifecycle!Init

(***************************************************************************)
(* The invariant, and the theorems                                         *)
(***************************************************************************)
LEMMA SteadyInit == Init => Steady
  <1> SUFFICES ASSUME Init PROVE Steady
    OBVIOUS
  <1>1. TypeOK /\ Consistent /\ QueuedJobHasUnclaimedAttempt
    BY InitInv, FirstState
  <1>2. /\ \A a \in Attempts : attempt[a] = EmptyRow
        /\ \A j \in Jobs : job[j] = "absent" /\ RowsOf(j) = {}
    BY DEF Init, RowsOf, EmptyRow, AttemptStatus, Active
  <1>3. RunningJobHasOneLease /\ RowsInTurn /\ PermanentFailureNotRetried
    BY <1>2 DEF RunningJobHasOneLease, LeasesOf, ActiveRows, RowsInTurn, NoRowsYet, OnlyLastIsActive,
                NoneSkipped, NoVerdictYet, PermanentFailureNotRetried, EmptyRow
  <1>4. ReportKnows /\ TickKnows /\ LeaseIsOwn
    BY DEF Init, ReportKnows, TickKnows, LeaseIsOwn, NoClaim, NoReport, NoTick
  <1>5. QED
    BY <1>1, <1>3, <1>4 DEF Steady, InOrder

LEMMA SteadyStep ==
    ASSUME Steady, InTime
    PROVE  Steady'
  <1>1. TypeOK' /\ Consistent' /\ QueuedJobHasUnclaimedAttempt'
    BY InTimeIsStep, TypeStep, ConsistentStep, QueuedStep DEF Steady
  <1>2. RowsInTurn' /\ RunningJobHasOneLease'
    BY TablesStep DEF TablesInTurn, RowsInTurn
  <1>3. ReportKnows' /\ TickKnows'
    BY ReportsKnow, TicksKnow
  <1>4. PermanentFailureNotRetried' /\ LeaseIsOwn'
    BY PermanentStep, LeaseStaysOwn
  <1>5. QED
    BY <1>1, <1>2, <1>3, <1>4 DEF Steady, InOrder

\* If nothing has been overtaken after a step, the step wrote nothing it should not.
LEMMA NothingOvertaken ==
    [HistoryNext]_historyVars /\ ~overtaken' => ~overtaken /\ InTime
  <1>1. CASE HistoryNext
    <2>1. Next /\ overtaken' = (overtaken \/ Overtakes)
      BY <1>1 DEF HistoryNext
    <2>2. ~overtaken' => ~overtaken /\ ~Overtakes
      BY <2>1, Zenon
    <2>3. QED
      BY <2>1, <2>2 DEF InTime
  <1>2. CASE UNCHANGED historyVars
    BY <1>2 DEF historyVars, InTime
  <1>3. QED
    BY <1>1, <1>2

LEMMA AlwaysSteady == HistorySpec => [](~overtaken => Steady)
  <1>1. HistoryInit => (~overtaken => Steady)
    BY SteadyInit DEF HistoryInit
  <1>2. (~overtaken => Steady) /\ [HistoryNext]_historyVars => (~overtaken' => Steady')
    BY NothingOvertaken, SteadyStep
  <1>3. QED
    BY <1>1, <1>2, PTL DEF HistorySpec

\* However requests, ticks, crashes and lost answers interleave, a job is RUNNING exactly
\* while one of its attempts is leased, unless one of the four commits came too late.
THEOREM OneLeaseWhileRunning == HistorySpec => []OneLeaseUnlessOvertaken
  <1>1. (~overtaken => Steady) => OneLeaseUnlessOvertaken
    BY DEF Steady, InOrder, OneLeaseUnlessOvertaken
  <1>2. QED
    BY <1>1, AlwaysSteady, PTL

\* Neither the report that brings a permanent failure nor a tick of the reaper leaves a
\* later attempt behind, unless one of the four commits came too late.
THEOREM PermanentFailuresStay == HistorySpec => []PermanentUnlessOvertaken
  <1>1. (~overtaken => Steady) => PermanentUnlessOvertaken
    BY DEF Steady, InOrder, PermanentUnlessOvertaken
  <1>2. QED
    BY <1>1, AlwaysSteady, PTL

\* tests/test_scheduler.py:39-40 of the repository: two workers that race for a job do not
\* both hold it, unless one of the four commits came too late.
THEOREM OneHolder == HistorySpec => []OneHolderUnlessOvertaken
  <1>1. Steady => NoTwoWorkersHoldAJob
    <2> SUFFICES ASSUME Steady, NEW v \in Workers, NEW w \in Workers, v # w,
                        HasLease(v), HasLease(w), attempt[hold[v].row].job = attempt[hold[w].row].job
                 PROVE  FALSE
      BY DEF NoTwoWorkersHoldAJob
    <2>1. /\ WasLeased(hold[v].row) /\ attempt[hold[v].row].status \in Active
          /\ WasLeased(hold[w].row) /\ attempt[hold[w].row].status \in Active
      BY DEF Steady, Consistent, RequestsOK, RequestOK, HasLease
    <2>2. hold[v].row \in Attempts /\ hold[w].row \in Attempts
      BY <2>1 DEF WasLeased, Committed
    <2>3. /\ LeasesOf(attempt[hold[v].row].job) = {hold[v].row}
          /\ LeasesOf(attempt[hold[w].row].job) = {hold[w].row}
      BY <2>1, <2>2, LeasedIsRunning DEF Steady, InOrder
    <2>4. hold[v].row = hold[w].row
      BY <2>3
    <2>5. QED
      BY <2>4 DEF Steady, InOrder, LeaseIsOwn, HasLease
  <1>2. (~overtaken => Steady) => OneHolderUnlessOvertaken
    BY <1>1 DEF OneHolderUnlessOvertaken
  <1>3. QED
    BY <1>2, AlwaysSteady, PTL

\* README.md:437-439 of the repository: an attempt that is over is updated by nobody,
\* unless one of the four commits came too late.
THEOREM EndedAttemptStays == HistorySpec => FinalUnlessOvertaken
  <1> DEFINE Stays == \A a \in Attempts : attempt[a].status \in Over /\ ~overtaken' =>
                        attempt'[a].status = attempt[a].status
  <1>1. (~overtaken => Steady) /\ [HistoryNext]_historyVars => [Stays]_historyVars
    BY NothingOvertaken, OverIsOver
  <1>2. QED
    BY <1>1, AlwaysSteady, PTL DEF HistorySpec, FinalUnlessOvertaken

\* As long as no commit came too late the lease manager implements JobLifecycle: a job
\* waits, is granted to at most one worker at a time and at most MaxAttempts times, is
\* retried or given up only when a grant ends without a verdict, and once it has ended it
\* stays as it is.
THEOREM RequestsImplementLifecycle == HistorySpec => LifecycleUnlessOvertaken
  <1>1. (~overtaken => Steady) /\ [HistoryNext]_historyVars
          => [~overtaken' => Lifecycle!Next]_historyVars
    BY NothingOvertaken, LifecycleStep
  <1>2. HistoryInit => Lifecycle!Init
    BY LifecycleInit DEF HistoryInit
  <1>3. QED
    BY <1>1, <1>2, AlwaysSteady, PTL DEF HistorySpec, LifecycleUnlessOvertaken
=============================================================================
