------------------------------- MODULE Worker -------------------------------
(***************************************************************************)
(* The worker process in time (worker/worker.py): its main thread, the     *)
(* heartbeat thread and the renewal thread of each run, with what the      *)
(* server's handlers and the reaper do to its row, and to the attempts of  *)
(* one job, at what times.                                                 *)
(*                                                                         *)
(* Time passes in steps of one unit.  A thread that is to wake up, a       *)
(* request that has used up the client's timeout and a reaper that is due  *)
(* do not let it pass before they have taken their step; a request that is *)
(* not slow takes no time.  But for a late answer that it must get, or     *)
(* give up, the main thread takes as long as it likes: nothing bounds a    *)
(* build but its own timeout (Executor).  Handlers are atomic here,        *)
(* LeaseManager shows them interleaved; of the reaper's two sweeps of a    *)
(* tick other requests may come in between.  A request the client has      *)
(* given up on does not reach the server any more.                         *)
(* A definition marked (slip) is a wrong version of the one after it.      *)
(***************************************************************************)
EXTENDS Integers

CONSTANTS
    MaxRows,            \* bound: registrations
    MaxAttempts,        \* settings.max_job_attempts
    HeartbeatInterval,  \* HEARTBEAT_INTERVAL, of both threads
    RequestTimeout,     \* timeout of the worker's httpx.Client
    LeaseSeconds,       \* settings.job_lease_seconds
    DeadAfter,          \* settings.worker_dead_after_seconds
    ReaperInterval,     \* settings.reaper_interval_seconds
    MaxSlow             \* bound: requests that are slow, fail or lose their answer

ASSUME CountsAssumption == MaxRows \in Nat \ {0} /\ MaxAttempts \in Nat \ {0} /\ MaxSlow \in Nat
ASSUME TimesAssumption == {HeartbeatInterval, RequestTimeout, LeaseSeconds, DeadAfter,
                           ReaperInterval} \subseteq Nat \ {0}

VARIABLES
    main,      \* the main thread
    id,        \* self.worker_id; before its answer, the row of a registration on its way
    beat,      \* the heartbeat thread
    renewer,   \* renewer[a]: the renewal thread of the run of attempt a
    row,       \* row[r]: a row of table workers and, while it is ONLINE, the age of its heartbeat
    attempt,   \* attempt[a]: the a-th attempt; while it is active, the time left of its lease and
               \* the time since somebody ran it or was about to
    reaper,    \* the reaper task
    slow       \* requests that did not go smoothly, by kind

vars == <<main, id, beat, renewer, row, attempt, reaper, slow>>

Rows == 1..MaxRows
Attempts == 1..MaxAttempts

\* How a run ends: with a result (success, or a failure of a step, or of a pipeline that
\* does not parse) or with a failure of the infrastructure.
Verdict == {"result", "infra"}

Off == [pc |-> "off", left |-> 0]
Asleep(t) == [pc |-> "asleep", left |-> t]
Sent == [pc |-> "sent", left |-> RequestTimeout]
Polling == [pc |-> "polling", attempt |-> 0, verdict |-> "none", left |-> 0]
NoAttempt == [status |-> "none", lease |-> 0, idle |-> 0]
Waiting == [status |-> "waiting", lease |-> 0, idle |-> 0]
Leased == [status |-> "active", lease |-> LeaseSeconds, idle |-> 0]

Alive == main.pc # "dead"
Registered == main.pc \notin {"registering", "joining", "dead"}
Awaits == main.pc \in {"joining", "claimed"}
Runs(a) == main.pc = "running" /\ main.attempt = a
Holds(a) == main.pc \in {"claimed", "running"} /\ main.attempt = a
Active(a) == attempt[a].status = "active"

Init == /\ main = [Polling EXCEPT !.pc = "registering"]
        /\ id = 0
        /\ beat = Off
        /\ renewer = [a \in Attempts |-> Off]
        /\ row = [r \in Rows |-> [status |-> "absent", age |-> 0]]
        /\ attempt = [a \in Attempts |-> IF a = 1 THEN Waiting ELSE NoAttempt]
        /\ reaper = Asleep(0)
        /\ slow = [beats |-> 0, renewals |-> 0, claims |-> 0, others |-> 0]

Slow(thread) == /\ slow.beats + slow.renewals + slow.claims + slow.others < MaxSlow
                /\ slow' = [slow EXCEPT ![thread] = @ + 1]

-----------------------------------------------------------------------------
(* register and run_forever.                                                *)

\* POST /register inserts a row each time it is called: one whose answer was lost
\* stays behind when the worker tries again.  Or the answer comes late.
Register ==
    /\ main.pc = "registering"
    /\ \E r \in Rows :
          /\ row[r].status = "absent"
          /\ row' = [row EXCEPT ![r] = [status |-> "ONLINE", age |-> 0]]
          /\ \/ main' = Polling /\ id' = r /\ beat' = Asleep(0) /\ UNCHANGED slow
             \/ /\ Slow("others") /\ main' = [main EXCEPT !.pc = "joining", !.left = RequestTimeout]
                /\ id' = r /\ UNCHANGED beat
             \/ Slow("others") /\ UNCHANGED <<main, id, beat>>
    /\ UNCHANGED <<renewer, attempt, reaper>>

RegisterAnswered ==
    /\ main.pc = "joining"
    /\ main' = Polling /\ beat' = Asleep(0)
    /\ UNCHANGED <<id, renewer, row, attempt, reaper, slow>>

\* The head of _execute: a pipeline that does not parse is reported without a run.
Execute(a) ==
    \/ /\ main' = [Polling EXCEPT !.pc = "running", !.attempt = a]
       /\ renewer' = [renewer EXCEPT ![a] = Asleep(0)]
    \/ /\ main' = [Polling EXCEPT !.pc = "reporting", !.attempt = a, !.verdict = "result"]
       /\ UNCHANGED renewer

\* _try_claim.  The lease runs from the commit of the claim, while its answer may be as
\* late as the client allows; with one that is lost it is taken all the same.
Claim(a) ==
    /\ main.pc = "polling"
    /\ row[id].status = "ONLINE" /\ attempt[a].status = "waiting"
    /\ attempt' = [attempt EXCEPT ![a] = Leased]
    /\ \/ Execute(a) /\ UNCHANGED slow
       \/ /\ Slow("claims") /\ UNCHANGED renewer
          /\ main' = [Polling EXCEPT !.pc = "claimed", !.attempt = a, !.left = RequestTimeout]
       \/ Slow("others") /\ UNCHANGED <<main, renewer>>
    /\ UNCHANGED <<id, beat, row, reaper>>

ClaimAnswered ==
    /\ main.pc = "claimed"
    /\ Execute(main.attempt)
    /\ UNCHANGED <<id, beat, row, attempt, reaper, slow>>

\* (slip) renew_stop is not set
Unstopped(thread) == thread
\* renew_stop wakes a thread that waits; one that waits for the server's answer goes
\* on until it has it.
Stopped(thread) == IF thread.pc = "asleep" THEN Off ELSE thread

\* run_pipeline returns.
RunEnds ==
    /\ main.pc = "running"
    /\ \E v \in Verdict : main' = [main EXCEPT !.pc = "reporting", !.verdict = v]
    /\ renewer' = [renewer EXCEPT ![main.attempt] = Stopped(@)]
    /\ UNCHANGED <<id, beat, row, attempt, reaper, slow>>

\* The attempts in S end with v: after an infrastructure error the next one waits,
\* when there is one.
Ended(S, v) ==
    [b \in Attempts |-> IF b \in S THEN [NoAttempt EXCEPT !.status = v]
                        ELSE IF v = "infra" /\ b - 1 \in S THEN Waiting ELSE attempt[b]]

Expired(a) == Active(a) /\ attempt[a].lease < 0

\* _report does not look at the answer: the server may have refused, the request may
\* not have reached it.
Report ==
    /\ main.pc = "reporting"
    /\ main' = Polling
    /\ \/ /\ attempt' = IF Active(main.attempt) /\ ~Expired(main.attempt)
                        THEN Ended({main.attempt}, main.verdict) ELSE attempt
          /\ UNCHANGED slow
       \/ Slow("others") /\ UNCHANGED attempt
    /\ UNCHANGED <<id, beat, renewer, row, reaper>>

\* The process ends: it is killed, or the executor raises what is not an httpx.HTTPError.
\* Requests on their way to the server still arrive.
Cut(thread) == IF thread.pc = "sent" THEN thread ELSE Off
Die ==
    /\ Alive
    /\ main' = [Polling EXCEPT !.pc = "dead"]
    /\ beat' = Cut(beat)
    /\ renewer' = [a \in Attempts |-> Cut(renewer[a])]
    /\ UNCHANGED <<id, row, attempt, reaper, slow>>

-----------------------------------------------------------------------------
(* _heartbeat_loop and renew_loop: a request, then a pause.                 *)

Due(thread) == thread.pc = "asleep" /\ thread.left = 0
\* (slip) a pause as long as the server is patient
LongPause == Asleep(DeadAfter + 1)
Pause == Asleep(HeartbeatInterval)

\* (slip) the handler only revives a worker
HeardDead == [row EXCEPT ![id].status = "ONLINE"]
\* The heartbeat handler.
Heard == [row EXCEPT ![id] = [status |-> "ONLINE", age |-> 0]]
\* renew_lease looks at the status, not at the time.
Renewed(a) == IF Active(a) THEN [attempt EXCEPT ![a].lease = LeaseSeconds] ELSE attempt

Beat ==
    /\ Due(beat)
    /\ \/ beat' = Pause /\ row' = Heard /\ UNCHANGED slow
       \/ Slow("beats") /\ beat' = Sent /\ UNCHANGED row
    /\ UNCHANGED <<main, id, renewer, attempt, reaper>>

SlowBeatArrives ==
    /\ beat.pc = "sent"
    /\ beat' = [beat EXCEPT !.pc = "handled"]
    /\ row' = Heard
    /\ UNCHANGED <<main, id, renewer, attempt, reaper, slow>>

\* The answer comes, or an httpx.HTTPError.
SlowBeatEnds ==
    /\ beat.pc \in {"sent", "handled"}
    /\ beat' = IF Alive THEN Pause ELSE Off
    /\ UNCHANGED <<main, id, renewer, row, attempt, reaper, slow>>

Renew(a) ==
    /\ Due(renewer[a])
    /\ \/ renewer' = [renewer EXCEPT ![a] = Pause] /\ attempt' = Renewed(a) /\ UNCHANGED slow
       \/ Slow("renewals") /\ renewer' = [renewer EXCEPT ![a] = Sent] /\ UNCHANGED attempt
    /\ UNCHANGED <<main, id, beat, row, reaper>>

SlowRenewalArrives(a) ==
    /\ renewer[a].pc = "sent"
    /\ renewer' = [renewer EXCEPT ![a].pc = "handled"]
    /\ attempt' = Renewed(a)
    /\ UNCHANGED <<main, id, beat, row, reaper, slow>>

SlowRenewalEnds(a) ==
    /\ renewer[a].pc \in {"sent", "handled"}
    /\ renewer' = [renewer EXCEPT ![a] = IF Runs(a) THEN Pause ELSE Off]
    /\ UNCHANGED <<main, id, beat, row, attempt, reaper, slow>>

-----------------------------------------------------------------------------
(* The reaper, and time.                                                    *)

\* (slip) the threshold of the leases taken for the one of the workers
StaleByLease(r) == row[r].status = "ONLINE" /\ row[r].age > LeaseSeconds
Stale(r) == row[r].status = "ONLINE" /\ row[r].age > DeadAfter

\* reap_dead_workers.  The leases of a worker it gives up end at once: they have
\* expired when the next sweep reads the time.  All attempts are leased to id.
ReapDead ==
    /\ Due(reaper)
    /\ reaper' = [reaper EXCEPT !.pc = "leases"]
    /\ row' = [r \in Rows |-> IF Stale(r) THEN [status |-> "DEAD", age |-> 0] ELSE row[r]]
    /\ attempt' = IF id \in Rows /\ Stale(id)
                  THEN [a \in Attempts |-> IF Active(a) THEN [attempt[a] EXCEPT !.lease = -1] ELSE attempt[a]]
                  ELSE attempt
    /\ UNCHANGED <<main, id, beat, renewer, slow>>

\* reap_expired_leases.
ReapLeases ==
    /\ reaper.pc = "leases"
    /\ reaper' = Asleep(ReaperInterval)
    /\ attempt' = Ended({a \in Attempts : Expired(a)}, "infra")
    /\ UNCHANGED <<main, id, beat, renewer, row, slow>>

\* (slip) a client without a timeout
MayWaitForEver(thread) == thread.pc \in {"off", "sent", "handled"} \/ thread.left > 0
MayWait(thread) == thread.pc = "off" \/ thread.left > 0
Later(thread) == IF thread.pc = "off" THEN thread ELSE [thread EXCEPT !.left = @ - 1]

Tick ==
    /\ MayWait(beat) /\ (\A a \in Attempts : MayWait(renewer[a])) /\ MayWait(reaper)
    /\ Awaits => main.left > 0
    /\ main' = IF Awaits THEN [main EXCEPT !.left = @ - 1] ELSE main
    /\ beat' = Later(beat)
    /\ renewer' = [a \in Attempts |-> Later(renewer[a])]
    /\ reaper' = Later(reaper)
    /\ row' = [r \in Rows |-> IF row[r].status = "ONLINE" THEN [row[r] EXCEPT !.age = @ + 1] ELSE row[r]]
    /\ attempt' = [a \in Attempts |->
         IF Active(a) THEN [attempt[a] EXCEPT !.lease = @ - 1, !.idle = IF Holds(a) THEN 0 ELSE @ + 1]
         ELSE attempt[a]]
    /\ UNCHANGED <<id, slow>>

-----------------------------------------------------------------------------
MainSteps == \/ Register \/ RegisterAnswered \/ (\E a \in Attempts : Claim(a)) \/ ClaimAnswered
             \/ RunEnds \/ Report \/ Die
BeatSteps == Beat \/ SlowBeatArrives \/ SlowBeatEnds
RenewerSteps(a) == Renew(a) \/ SlowRenewalArrives(a) \/ SlowRenewalEnds(a)
Next == \/ MainSteps \/ BeatSteps \/ (\E a \in Attempts : RenewerSteps(a))
        \/ ReapDead \/ ReapLeases \/ Tick

Spec == Init /\ [][Next]_vars

-----------------------------------------------------------------------------
(***************************************************************************)
(* Properties                                                              *)
(***************************************************************************)
TypeOK ==
    /\ main \in [pc : {"registering", "joining", "polling", "claimed", "running", "reporting", "dead"},
                 attempt : Attempts \cup {0}, verdict : Verdict \cup {"none"}, left : Nat]
    /\ id \in Rows \cup {0}
    /\ beat \in [pc : {"off", "asleep", "sent", "handled"}, left : Nat]
    /\ renewer \in [Attempts -> [pc : {"off", "asleep", "sent", "handled"}, left : Nat]]
    /\ row \in [Rows -> [status : {"absent", "ONLINE", "DEAD"}, age : Nat]]
    /\ attempt \in [Attempts -> [status : {"none", "waiting", "active"} \cup Verdict,
                                 lease : Int, idle : Nat]]
    /\ reaper \in [pc : {"asleep", "leases"}, left : Nat]
    /\ slow \in [beats : Nat, renewals : Nat, claims : Nat, others : Nat]

\* worker.py:14-16: "The worker renews its lease AND sends heartbeats on a separate,
\* independent timer so a slow build step doesn't accidentally starve the heartbeat
\* and get itself falsely marked dead."  However long a build takes and whatever
\* happens to renewals, a worker whose heartbeats go through is never marked dead.
PunctualWorkerIsOnline ==
    slow.beats = 0 /\ Registered => row[id].status = "ONLINE"

\* A run keeps its lease, however long it takes, also when the server answers its claim
\* as late as the client allows or does not answer one of its renewals until the client
\* gives up.  Both are too much: the lease runs from the claim's commit, not from its
\* answer.  (A heartbeat that fares the same may cost the lease: the worker is given up
\* after half the time.)
RunKeepsItsLease ==
    slow.beats = 0 /\ slow.renewals + slow.claims <= 1 =>
        \A a \in Attempts : Runs(a) => Active(a) /\ ~Expired(a)

\* What the page "Workers" shows as ONLINE has been heard of a short while ago; a
\* registration whose answer was lost does not stay there as a worker that is idle.
OnlineMeansHeard ==
    \A r \in Rows : row[r].status = "ONLINE" => row[r].age <= DeadAfter + ReaperInterval

\* worker.py:162-163: "the lease will simply expire server-side and the job gets
\* requeued", with its time: whether the process died, the claim's answer was lost or
\* the report, an attempt that nobody runs or is about to run ends within the lease, a
\* request's timeout (one renewal may be on its way) and a turn of the reaper.
AbandonedAttemptEnds ==
    \A a \in Attempts : Active(a) => attempt[a].idle <= RequestTimeout + LeaseSeconds + ReaperInterval

-----------------------------------------------------------------------------
(* Why they hold: the parts of an inductive invariant.                      *)

\* Which threads there are, and what they are busy with.
Threads ==
    /\ Registered \/ main.pc = "joining" => id \in Rows /\ row[id].status # "absent"
    /\ main.pc \in {"registering", "joining"} => beat = Off
    /\ beat.pc # "off" => id \in Rows
    /\ main.pc \in {"claimed", "running", "reporting"} => main.attempt \in Attempts
    /\ main.pc = "claimed" => attempt[main.attempt].status \notin {"none", "waiting"}
    /\ main.pc = "reporting" => main.verdict \in Verdict
    /\ \A a \in Attempts : /\ Runs(a) => renewer[a].pc # "off"
                           /\ ~Runs(a) => renewer[a].pc # "asleep"
                           /\ attempt[a].status \in {"none", "waiting"} => renewer[a].pc = "off"

\* An attempt is created when the one before it has ended.
InTurn == \A a, b \in Attempts :
    a < b /\ attempt[a].status \notin Verdict => attempt[b].status = "none"

\* How late the reaper finds out, about a worker and about a lease.
ReaperOnTime ==
    /\ reaper.left <= IF reaper.pc = "asleep" THEN ReaperInterval ELSE 0
    /\ \A r \in Rows : row[r].status = "ONLINE" =>
          row[r].age <= IF reaper.pc = "asleep" THEN DeadAfter + ReaperInterval - reaper.left ELSE DeadAfter
    /\ \A a \in Attempts : Active(a) /\ reaper.pc = "asleep" =>
          attempt[a].lease + ReaperInterval >= reaper.left

\* How long a lease may outlive its run: one renewal may be on its way when it ends.
LeaseOutlivesRun ==
    /\ \A a \in Attempts : renewer[a].pc \in {"sent", "handled"} => renewer[a].left <= RequestTimeout
    /\ \A a \in Attempts : Active(a) =>
          /\ attempt[a].lease <= LeaseSeconds
          /\ Holds(a) => attempt[a].idle = 0
          /\ ~Runs(a) /\ renewer[a].pc = "sent" => attempt[a].idle + renewer[a].left <= RequestTimeout
          /\ ~Runs(a) /\ (attempt[a].lease >= 0 \/ reaper.pc = "asleep") =>
                attempt[a].lease + attempt[a].idle <= LeaseSeconds + RequestTimeout

\* How old the last heartbeat gets while none of them is slow, and a registration before
\* the first.
BeatOnTime ==
    /\ main.pc = "joining" => row[id].status = "ONLINE" /\ row[id].age + main.left <= DeadAfter
    /\ slow.beats = 0 /\ Registered =>
          /\ row[id].status = "ONLINE" /\ beat.pc = "asleep"
          /\ row[id].age + beat.left <= DeadAfter

\* What is left of the lease when the claim is answered, and when the renewal thread wakes
\* up or its request returns, with at most one claim or renewal that was slow.
LeaseInHand ==
    slow.beats = 0 /\ slow.renewals + slow.claims <= 1 =>
        /\ main.pc = "claimed" =>
              /\ slow.claims = 1 /\ Active(main.attempt) /\ main.left <= RequestTimeout
              /\ attempt[main.attempt].lease - main.left >= LeaseSeconds - RequestTimeout
        /\ \A a \in Attempts : Runs(a) =>
              /\ Active(a)
              /\ attempt[a].lease - renewer[a].left >=
                    CASE slow.renewals = 0 /\ slow.claims = 0 -> LeaseSeconds - HeartbeatInterval
                      [] slow.claims = 1 \/ (slow.renewals = 1 /\ renewer[a].pc # "asleep") ->
                           LeaseSeconds - HeartbeatInterval - RequestTimeout
                      [] OTHER -> LeaseSeconds - 2 * HeartbeatInterval - RequestTimeout
              /\ slow.renewals = 0 => renewer[a].pc = "asleep"

-----------------------------------------------------------------------------
(* What a comment says, and the defaults do not keep.                       *)

\* lease_manager.py:236-238: "leases are short by design, typically shorter than the
\* dead-worker threshold": not with the defaults, 60 and 30 seconds.
LeaseLapsesFirst ==
    [][ReapDead => \A a \in Attempts : Active(a) /\ attempt'[a] # attempt[a] => Expired(a)]_vars
=============================================================================
