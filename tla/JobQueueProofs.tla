--------------------------- MODULE JobQueueProofs ---------------------------
(***************************************************************************)
(* Theorems about JobQueue: for any jobs, priorities, moments and widths   *)
(* of the scores, as long as the times are small beside Base.              *)
(***************************************************************************)
EXTENDS JobQueue, TLAPS

(***************************************************************************)
(* Arithmetic of the scores                                                *)
(***************************************************************************)
LEMMA Division ==
    ASSUME NEW t \in Nat, NEW g \in Nat \ {0}
    PROVE  /\ t \div g \in Int /\ t % g \in Int
           /\ t = (t \div g) * g + (t % g) /\ 0 <= t % g /\ t % g < g
  <1>1. t \div g \in Int /\ t % g \in 0..(g - 1)
    OBVIOUS
  <1>2. t = g * (t \div g) + (t % g)
    OBVIOUS
  <1>3. \A q \in Int : g * q = q * g
    OBVIOUS
  <1>4. QED
    BY <1>1, <1>2, <1>3

\* A time is rounded to one that is at most half a step away, and not at all when the
\* steps are of one.
LEMMA RoundedIsNear ==
    ASSUME NEW t \in Nat, NEW g \in Nat \ {0}
    PROVE  /\ Rounded(t, g) \in Int
           /\ 2 * (Rounded(t, g) - t) <= g /\ 2 * (t - Rounded(t, g)) <= g
           /\ g = 1 => Rounded(t, g) = t
  <1> DEFINE q == t \div g
             r == t % g
  <1>1. q \in Int /\ r \in Int /\ t = q * g + r /\ 0 <= r /\ r < g
    BY Division
  <1>2. \/ Rounded(t, g) = q * g /\ 2 * r <= g
        \/ Rounded(t, g) = (q + 1) * g /\ 2 * r >= g
    BY <1>1 DEF Rounded
  <1> HIDE DEF q, r
  <1>3. q * g \in Int /\ (q + 1) * g = q * g + g
    BY <1>1
  <1>4. QED
    BY <1>1, <1>2, <1>3

LEMMA RoundedTimes ==
    ASSUME NEW p \in Int, NEW t \in 0..MaxTime
    PROVE  LET r == Rounded(t, Granule(p)) IN
           /\ r \in Int /\ -Ulp <= 2 * r /\ 2 * r <= 2 * MaxTime + Ulp
           /\ 2 * (r - t) <= Slack(p) /\ 2 * (t - r) <= Slack(p)
  <1>1. Granule(p) \in Nat \ {0} /\ Granule(p) <= Ulp /\ Granule(p) = IF p = 0 THEN 1 ELSE Ulp
    BY ScoreAssumption DEF Granule
  <1> DEFINE r == Rounded(t, Granule(p))
  <1>2. /\ r \in Int /\ 2 * (r - t) <= Granule(p) /\ 2 * (t - r) <= Granule(p)
        /\ Granule(p) = 1 => r = t
    <2>1. t \in Nat
      BY TimeAssumption
    <2>2. QED
      BY <1>1, <2>1, RoundedIsNear
  <1>3. Slack(p) = (IF p = 0 THEN 0 ELSE Ulp) /\ Ulp \in Nat /\ MaxTime \in Nat
    BY ScoreAssumption, TimeAssumption DEF Slack
  <1> HIDE DEF r
  <1>4. /\ r \in Int /\ -Ulp <= 2 * r /\ 2 * r <= 2 * MaxTime + Ulp
        /\ 2 * (r - t) <= Slack(p) /\ 2 * (t - r) <= Slack(p)
    BY <1>1, <1>2, <1>3
  <1>5. QED
    BY <1>4 DEF r

LEMMA Multiples ==
    ASSUME NEW p \in Int, NEW q \in Int, NEW b \in Nat, p < q
    PROVE  p * b \in Int /\ q * b \in Int /\ p * b + b <= q * b
  <1>1. q - p - 1 \in Nat /\ q = p + 1 + (q - p - 1)
    OBVIOUS
  <1>2. \A d \in Nat : d * b \in Nat /\ (p + 1 + d) * b = p * b + b + d * b
    OBVIOUS
  <1>3. QED
    BY <1>1, <1>2

\* What a smaller or an equal score says of priorities and times.
LEMMA ScoresTell ==
    ASSUME NEW p \in Int, NEW q \in Int, NEW t \in 0..MaxTime, NEW u \in 0..MaxTime,
           Score(p, t) <= Score(q, u)
    PROVE  p > q \/ (p = q /\ t - u <= Slack(p))
  <1> DEFINE r == Rounded(t, Granule(p))
             s == Rounded(u, Granule(q))
  <1>1. /\ r \in Int /\ -Ulp <= 2 * r /\ 2 * (t - r) <= Slack(p)
        /\ s \in Int /\ 2 * s <= 2 * MaxTime + Ulp /\ 2 * (s - u) <= Slack(q)
    BY RoundedTimes
  <1>2. Score(p, t) = r - p * Base /\ Score(q, u) = s - q * Base
    BY <1>1, ScoreAssumption DEF Score
  <1>3. /\ Ulp \in Nat /\ Base \in Nat /\ MaxTime \in Nat /\ MaxTime + 2 * Ulp < Base
        /\ Slack(p) \in Nat
    BY ScoreAssumption, TimeAssumption DEF Slack
  <1> HIDE DEF r, s
  <1>4. ~(p < q)
    <2> SUFFICES ASSUME p < q PROVE FALSE
      OBVIOUS
    <2>1. p * Base \in Int /\ q * Base \in Int /\ p * Base + Base <= q * Base
      BY <1>3, Multiples
    <2>2. QED
      BY <1>1, <1>2, <1>3, <2>1
  <1>5. CASE p = q
    <2>1. r <= s /\ Slack(p) = Slack(q)
      BY <1>1, <1>2, <1>3, <1>5
    <2>2. t - u <= Slack(p)
      BY <1>1, <1>3, <2>1
    <2>3. QED
      BY <1>5, <2>2
  <1>6. QED
    BY <1>4, <1>5

(***************************************************************************)
(* The queue                                                               *)
(***************************************************************************)
\* An entry has the score of its stamp.
Scored == \A j \in Jobs : place[j] = "queued" => score[j] = Score(priority[j], stamp[j])
Safe == TypeOK /\ Scored

LEMMA ScoreIs ==
    ASSUME NEW p \in Priorities, NEW t \in 0..MaxTime
    PROVE  Score(p, t) \in Int
  <1>1. Rounded(t, Granule(p)) \in Int /\ p * Base \in Int
    BY RoundedTimes, JobsAssumption, ScoreAssumption
  <1>2. QED
    BY <1>1 DEF Score

LEMMA SafeInit == Init => Safe
  BY TimeAssumption DEF Init, Safe, TypeOK, Scored

LEMMA SafeStep == Safe /\ [Next]_vars => Safe'
  <1> SUFFICES ASSUME Safe, [Next]_vars PROVE Safe'
    OBVIOUS
  <1>t. TypeOK /\ Scored /\ MaxTime \in Nat
    BY TimeAssumption DEF Safe
  <1>1. CASE Tick
    BY <1>1, <1>t DEF Tick, Safe, TypeOK, Scored
  <1>2. ASSUME NEW j \in Jobs, Create(j) PROVE Safe'
    BY <1>2, <1>t DEF Create, Safe, TypeOK, Scored
  <1>3. ASSUME NEW j \in Jobs, ReadClock(j) PROVE Safe'
    BY <1>3, <1>t DEF ReadClock, Now, Safe, TypeOK, Scored
  <1>4. ASSUME NEW j \in Jobs, Zadd(j) PROVE Safe'
    <2>1. Score(priority[j], stamp[j]) \in Int
      BY <1>t, ScoreIs DEF TypeOK
    <2>2. QED
      BY <1>4, <1>t, <2>1 DEF Zadd, Safe, TypeOK, Scored
  <1>5. ASSUME NEW j \in Jobs, Pop(j) PROVE Safe'
    BY <1>5, <1>t DEF Pop, NextNumber, Safe, TypeOK, Scored
  <1>6. ASSUME NEW j \in Jobs, AttemptEnds(j) PROVE Safe'
    BY <1>6, <1>t DEF AttemptEnds, Safe, TypeOK, Scored
  <1>7. CASE UNCHANGED vars
    BY <1>7, <1>t DEF vars, Safe, TypeOK, Scored
  <1>8. QED
    BY <1>1, <1>2, <1>3, <1>4, <1>5, <1>6, <1>7 DEF Next

\* Only ZPOPMIN takes a job from the queue.
LEMMA PoppedIs ==
    ASSUME TypeOK, Next, NEW j \in Jobs, Popped(j)
    PROVE  Pop(j)
  BY DEF Next, Popped, Tick, Create, ReadClock, Zadd, Pop, AttemptEnds, TypeOK

\* Types, for any jobs and times.
THEOREM TypeCorrect == Spec => []TypeOK
  <1>1. Safe => TypeOK
    BY DEF Safe
  <1>2. QED
    BY <1>1, SafeInit, SafeStep, PTL DEF Spec

\* The score keeps the order it stands for, through the rounding of a double: a higher
\* priority before a lower one, always, and the older before the newer, up to one step.
THEOREM QueueKeepsOrder == Spec => PoppedInOrder
  <1>1. Safe /\ [Next]_vars => [\A j \in Jobs : Popped(j) => \A k \in Queue : MayPrecede(j, k)]_vars
    <2> SUFFICES ASSUME Safe, Next, NEW j \in Jobs, Popped(j), NEW k \in Queue
                 PROVE  MayPrecede(j, k)
      OBVIOUS
    <2>1. TypeOK /\ Scored /\ j \in Queue /\ k \in Jobs
      BY DEF Safe, Popped, Queue
    <2>2. k = j \/ Before(j, k)
      BY <2>1, PoppedIs DEF Pop
    <2>3. score[j] = Score(priority[j], stamp[j]) /\ score[k] = Score(priority[k], stamp[k])
      BY <2>1 DEF Queue, Scored
    <2>4. /\ score[j] \in Int /\ score[k] \in Int
          /\ stamp[j] \in 0..MaxTime /\ stamp[k] \in 0..MaxTime
          /\ priority[j] \in Int /\ priority[k] \in Int
      BY <2>1, JobsAssumption DEF TypeOK
    <2>5. score[j] <= score[k]
      BY <2>2, <2>4 DEF Before
    <2>6. QED
      BY <2>3, <2>4, <2>5, ScoresTell DEF MayPrecede
  <1>2. QED
    BY <1>1, SafeInit, SafeStep, PTL DEF Spec, PoppedInOrder
=============================================================================
