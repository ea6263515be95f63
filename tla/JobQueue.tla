------------------------------ MODULE JobQueue ------------------------------
(***************************************************************************)
(* The order of ci:queue: enqueue and dequeue_one of redis_client.py, with *)
(* create_and_enqueue_job and promote_delayed_jobs, which read the clock   *)
(* first and reach Redis later.                                            *)
(*                                                                         *)
(* The score -priority*10^13 + time is a double.  At 10^13 neighbouring    *)
(* doubles lie 2 ms apart and at 10^16 2 s: from priority 1 on the time is *)
(* rounded.  One width, Ulp, stands for those of all priorities but 0.     *)
(* Which jobs are in the queue at all is LeaseManager's subject: here a    *)
(* popped job is claimed and its entry neither lost nor doubled.           *)
(* A definition marked (slip) is a wrong version of the one after it.      *)
(***************************************************************************)
EXTENDS Integers

CONSTANTS
    Jobs,         \* job ids: numbers, for Redis orders equal scores by id
    Priorities,   \* priorities that clients ask for
    Base,         \* 10^13
    Ulp,          \* the distance of scores at Base
    MaxAttempts,  \* settings.max_job_attempts
    MaxTime       \* bound: the last moment

ASSUME JobsAssumption == Jobs \subseteq Nat /\ Priorities \subseteq Int
ASSUME ScoreAssumption == Ulp \in Nat \ {0} /\ Base \in Nat \ {0} /\ Base % Ulp = 0
ASSUME TimeAssumption == MaxTime \in Nat /\ MaxTime + 2 * Ulp < Base
ASSUME AttemptsAssumption == MaxAttempts \in Nat \ {0}

VARIABLES
    clock,     \* time.time()
    place,     \* place[j]: where job j is
    priority,  \* priority[j]: column of Job
    attempts,  \* attempts[j]: attempts made
    stamp,     \* stamp[j]: the time read for j's entry
    score      \* score[j]: j's score in the sorted set

vars == <<clock, place, priority, attempts, stamp, score>>

Queue == {j \in Jobs : place[j] = "queued"}

Init == /\ clock = 0
        /\ place = [j \in Jobs |-> "none"]
        /\ priority \in [Jobs -> Priorities]
        /\ attempts = [j \in Jobs |-> 0]
        /\ stamp = [j \in Jobs |-> 0]
        /\ score = [j \in Jobs |-> 0]

Tick == /\ clock < MaxTime
        /\ clock' = clock + 1
        /\ UNCHANGED <<place, priority, attempts, stamp, score>>

\* The job is committed; the request goes on to enqueue it.
Create(j) ==
    /\ place[j] = "none"
    /\ place' = [place EXCEPT ![j] = "created"]
    /\ UNCHANGED <<clock, priority, attempts, stamp, score>>

\* The reaper is one; requests are many.
Promoting == \E j \in Jobs : place[j] = "stamped" /\ attempts[j] > 0

\* (slip) the time the entry becomes ready at
ReadyAt == clock + 1
Now == clock

\* time.time() is evaluated, for a new job or for one whose backoff has elapsed.
ReadClock(j) ==
    /\ \/ place[j] = "created"
       \/ place[j] = "delayed" /\ ~Promoting
    /\ place' = [place EXCEPT ![j] = "stamped"]
    /\ stamp' = [stamp EXCEPT ![j] = Now]
    /\ UNCHANGED <<clock, priority, attempts, score>>

\* t as a multiple of g, half to even.
Rounded(t, g) == LET q == t \div g IN
    IF 2 * (t % g) < g \/ (2 * (t % g) = g /\ q % 2 = 0) THEN q * g ELSE (q + 1) * g

Granule(p) == IF p = 0 THEN 1 ELSE Ulp

\* (slip) the priority without its factor
PlainScore(p, t) == -p + Rounded(t, Granule(p))
Score(p, t) == -p * Base + Rounded(t, Granule(p))

Zadd(j) ==
    /\ place[j] = "stamped"
    /\ place' = [place EXCEPT ![j] = "queued"]
    /\ score' = [score EXCEPT ![j] = Score(priority[j], stamp[j])]
    /\ UNCHANGED <<clock, priority, attempts, stamp>>

\* ZPOPMIN: the least score, of equal scores the least id.
Before(j, k) == score[j] < score[k] \/ (score[j] = score[k] /\ j < k)

\* (slip) the retry numbered like the first attempt
FirstNumber(n) == 1
NextNumber(n) == n + 1

Pop(j) ==
    /\ j \in Queue /\ \A k \in Queue \ {j} : Before(j, k)
    /\ place' = [place EXCEPT ![j] = "claimed"]
    /\ attempts' = [attempts EXCEPT ![j] = NextNumber(@)]
    /\ UNCHANGED <<clock, priority, stamp, score>>

\* The attempt ends: with a verdict, or with an infrastructure error that is retried.
AttemptEnds(j) ==
    /\ place[j] = "claimed"
    /\ \/ place' = [place EXCEPT ![j] = "ended"]
       \/ attempts[j] < MaxAttempts /\ place' = [place EXCEPT ![j] = "delayed"]
    /\ UNCHANGED <<clock, priority, attempts, stamp, score>>

Next == \/ Tick
        \/ \E j \in Jobs : Create(j) \/ ReadClock(j) \/ Zadd(j) \/ Pop(j) \/ AttemptEnds(j)

Spec == Init /\ [][Next]_vars

\* Requests and promotions run to their end, and an idle worker polls the queue.
\* Nothing obliges the attempts of a job to end, or the job to succeed.
FairSpec == /\ Spec
            /\ \A j \in Jobs : WF_vars(ReadClock(j)) /\ WF_vars(Zadd(j))
            /\ WF_vars(\E j \in Jobs : Pop(j))

-----------------------------------------------------------------------------
(***************************************************************************)
(* Properties                                                              *)
(***************************************************************************)
TypeOK ==
    /\ clock \in 0..MaxTime
    /\ place \in [Jobs -> {"none", "created", "stamped", "queued", "claimed", "delayed", "ended"}]
    /\ priority \in [Jobs -> Priorities]
    /\ attempts \in [Jobs -> Nat]
    /\ stamp \in [Jobs -> 0..MaxTime]
    /\ score \in [Jobs -> Int]

Popped(j) == place[j] = "queued" /\ place'[j] = "claimed"

\* dequeue_one never takes a job while one of higher priority is queued, whatever the
\* two entries' times and however they were rounded.  Of two of the same priority the
\* one stamped later is taken first only if the stamps are within one step of the scores
\* of that priority: for priority 0 never.  A job that is retried counts from its
\* promotion.
Slack(p) == IF p = 0 THEN 0 ELSE Ulp
MayPrecede(j, k) == \/ priority[j] > priority[k]
                    \/ priority[j] = priority[k] /\ stamp[j] - stamp[k] <= Slack(priority[j])
PoppedInOrder ==
    [][\A j \in Jobs : Popped(j) => \A k \in Queue : MayPrecede(j, k)]_vars

\* A queued job does not wait for ever, though others of higher priority fail and
\* are retried ahead of it: their attempts are limited.
QueuedJobIsPopped == \A j \in Jobs : place[j] = "queued" ~> place[j] # "queued"

\* README.md:456-457: "Higher priority comes first; equal priorities remain FIFO."
EqualPriorityFIFO ==
    [][\A j, k \in Jobs : Popped(j) /\ k \in Queue /\ priority[j] = priority[k] =>
          stamp[j] <= stamp[k]]_vars
=============================================================================
