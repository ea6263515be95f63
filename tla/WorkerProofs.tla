---------------------------- MODULE WorkerProofs ----------------------------
(***************************************************************************)
(* Proofs about module Worker, for every number of registrations and       *)
(* attempts and every choice of the intervals.  Two invariants say how     *)
(* late the reaper can be and how long a lease can outlive its run; two    *)
(* more, which need assumptions on the intervals, how much time a prompt   *)
(* worker has left.                                                        *)
(***************************************************************************)
EXTENDS Worker, TLAPS

ThreadPc == {"off", "asleep", "sent", "handled"}
ThreadType == [pc : ThreadPc, left : Nat]
AttemptType == [status : {"none", "waiting", "active"} \cup Verdict, lease : Int, idle : Nat]
RowType == [status : {"absent", "ONLINE", "DEAD"}, age : Nat]
MainPc == {"registering", "joining", "polling", "claimed", "running", "reporting", "dead"}
MainType == [pc : MainPc, attempt : Attempts \cup {0}, verdict : Verdict \cup {"none"}, left : Nat]

\* The intervals, one by one.
LEMMA Intervals ==
    /\ HeartbeatInterval \in Nat /\ HeartbeatInterval > 0
    /\ RequestTimeout \in Nat /\ RequestTimeout > 0
    /\ LeaseSeconds \in Nat /\ LeaseSeconds > 0
    /\ DeadAfter \in Nat /\ DeadAfter > 0
    /\ ReaperInterval \in Nat /\ ReaperInterval > 0
    /\ Rows = 1..MaxRows /\ Attempts = 1..MaxAttempts /\ 0 \notin Rows /\ 0 \notin Attempts
  BY TimesAssumption, CountsAssumption DEF Rows, Attempts

\* The records a thread, an attempt or the main thread is set to.
LEMMA ThreadRecords ==
    /\ Off \in ThreadType /\ Sent \in ThreadType /\ Pause \in ThreadType /\ Asleep(0) \in ThreadType
    /\ Off.pc = "off" /\ Sent.pc = "sent" /\ Pause.pc = "asleep" /\ Asleep(0).pc = "asleep"
    /\ Sent.left = RequestTimeout /\ Pause.left = HeartbeatInterval /\ Asleep(0).left = 0
  BY Intervals DEF Off, Sent, Pause, Asleep, ThreadType, ThreadPc

LEMMA AttemptRecords ==
    /\ NoAttempt \in AttemptType /\ Waiting \in AttemptType /\ Leased \in AttemptType
    /\ NoAttempt.status = "none" /\ Waiting.status = "waiting"
    /\ Leased.status = "active" /\ Leased.lease = LeaseSeconds /\ Leased.idle = 0
  BY Intervals DEF NoAttempt, Waiting, Leased, AttemptType

LEMMA MainRecords == Polling \in MainType /\ Polling.pc = "polling"
  BY DEF Polling, MainType, MainPc

\* What the main thread becomes when it has its claim's answer.
LEMMA ExecuteIs ==
    ASSUME NEW a \in Attempts, Execute(a)
    PROVE  /\ main' \in MainType /\ main'.attempt = a
           /\ \/ main'.pc = "running" /\ renewer' = [renewer EXCEPT ![a] = Asleep(0)]
              \/ main'.pc = "reporting" /\ main'.verdict = "result" /\ renewer' = renewer
  <1>1. CASE main' = [Polling EXCEPT !.pc = "running", !.attempt = a]
             /\ renewer' = [renewer EXCEPT ![a] = Asleep(0)]
    <2>1. main' = [pc |-> "running", attempt |-> a, verdict |-> "none", left |-> 0]
      BY <1>1 DEF Polling
    <2>2. main' \in MainType /\ main'.attempt = a /\ main'.pc = "running"
      BY <2>1 DEF MainType, MainPc
    <2>3. QED
      BY <1>1, <2>2
  <1>2. CASE main' = [Polling EXCEPT !.pc = "reporting", !.attempt = a, !.verdict = "result"]
             /\ renewer' = renewer
    <2>1. main' = [pc |-> "reporting", attempt |-> a, verdict |-> "result", left |-> 0]
      BY <1>2 DEF Polling
    <2>2. main' \in MainType /\ main'.attempt = a /\ main'.pc = "reporting" /\ main'.verdict = "result"
      BY <2>1 DEF MainType, MainPc, Verdict
    <2>3. QED
      BY <1>2, <2>2
  <1>3. QED
    BY <1>1, <1>2 DEF Execute

\* What it becomes when it has to wait for one.
LEMMA AwaitIs ==
    ASSUME NEW a \in Attempts
    PROVE  LET m == [Polling EXCEPT !.pc = "claimed", !.attempt = a, !.left = RequestTimeout] IN
           m \in MainType /\ m.pc = "claimed" /\ m.attempt = a /\ m.left = RequestTimeout
  BY Intervals DEF Polling, MainType, MainPc

LEMMA JoinIs ==
    ASSUME main \in MainType
    PROVE  LET m == [main EXCEPT !.pc = "joining", !.left = RequestTimeout] IN
           m \in MainType /\ m.pc = "joining" /\ m.left = RequestTimeout
  BY Intervals DEF MainType, MainPc

\* While it waits, time passes for it as for the others.
LEMMA MainAges ==
    ASSUME TypeOK, Tick
    PROVE  /\ main' \in MainType
           /\ main'.pc = main.pc /\ main'.attempt = main.attempt /\ main'.verdict = main.verdict
           /\ Awaits => main.left > 0 /\ main'.left = main.left - 1
  <1>1. main \in MainType
    BY DEF TypeOK, MainType, MainPc
  <1>2. CASE Awaits
    <2> DEFINE l == main.left - 1
    <2>1. main' = [main EXCEPT !.left = l] /\ main.left > 0
      BY <1>2 DEF Tick
    <2>2. l \in Nat
      BY <1>1, <2>1 DEF MainType
    <2> HIDE DEF l
    <2>3. main' \in MainType /\ main'.pc = main.pc /\ main'.attempt = main.attempt
          /\ main'.verdict = main.verdict /\ main'.left = l
      BY <1>1, <2>1, <2>2 DEF MainType
    <2>4. QED
      BY <2>1, <2>3 DEF l
  <1>3. CASE ~Awaits
    <2>1. main' = main
      BY <1>3 DEF Tick
    <2>2. QED
      BY <1>1, <1>3, <2>1
  <1>4. QED
    BY <1>2, <1>3

\* What the ended attempts and their successors become.
LEMMA EndedIs ==
    ASSUME NEW S \in SUBSET Attempts, NEW v \in Verdict, attempt \in [Attempts -> AttemptType]
    PROVE  /\ Ended(S, v) \in [Attempts -> AttemptType]
           /\ \A b \in S : Ended(S, v)[b].status = v
           /\ \A b \in Attempts \ S : Ended(S, v)[b] = attempt[b] \/ (Ended(S, v)[b] = Waiting /\ b - 1 \in S)
  <1>1. \A b \in S : [NoAttempt EXCEPT !.status = v] \in AttemptType
                     /\ [NoAttempt EXCEPT !.status = v].status = v
    BY DEF AttemptType, NoAttempt, Verdict
  <1>2. QED
    BY <1>1, AttemptRecords DEF Ended

\* The type invariant once more, in the words of this module.
LEMMA Types ==
    TypeOK <=> /\ main \in MainType /\ id \in Rows \cup {0}
               /\ beat \in ThreadType /\ renewer \in [Attempts -> ThreadType]
               /\ row \in [Rows -> RowType] /\ attempt \in [Attempts -> AttemptType]
               /\ reaper \in [pc : {"asleep", "leases"}, left : Nat]
               /\ slow \in [beats : Nat, renewals : Nat, claims : Nat, others : Nat]
  BY DEF TypeOK, MainType, MainPc, ThreadType, ThreadPc, RowType, AttemptType

\* When attempts end that were leased, they still follow each other, and none of them
\* waits again.
LEMMA EndedInTurn ==
    ASSUME NEW S \in SUBSET Attempts, NEW v \in Verdict, attempt \in [Attempts -> AttemptType],
           InTurn, \A b \in S : attempt[b].status = "active", attempt' = Ended(S, v)
    PROVE  /\ attempt' \in [Attempts -> AttemptType]
           /\ InTurn'
           /\ \A b \in Attempts : attempt'[b].status \in {"none", "waiting"} =>
                                   attempt[b].status \in {"none", "waiting"}
  <1>1. /\ attempt' \in [Attempts -> AttemptType]
        /\ \A b \in S : attempt'[b].status = v
        /\ \A b \in Attempts \ S : attempt'[b] = attempt[b] \/ (attempt'[b] = Waiting /\ b - 1 \in S)
    BY EndedIs
  <1>2. \A b \in Attempts : b - 1 \in S => attempt[b].status = "none"
    BY Intervals DEF InTurn, Verdict
  <1>3. \A a, b \in Attempts : a < b /\ attempt'[a].status \notin Verdict => attempt'[b].status = "none"
    <2> SUFFICES ASSUME NEW a \in Attempts, NEW b \in Attempts, a < b, attempt'[a].status \notin Verdict
                 PROVE  attempt'[b].status = "none"
      OBVIOUS
    <2>1. a \notin S
      BY <1>1
    <2>2. CASE attempt'[a] = attempt[a]
      <3>1. attempt[b].status = "none"
        BY <2>2 DEF InTurn
      <3>2. b \notin S /\ b - 1 \notin S
        <4>1. b \notin S
          BY <3>1
        <4>2. b - 1 \in S => attempt[b - 1].status = "active" /\ (b - 1 = a \/ a < b - 1)
          BY Intervals
        <4>3. b - 1 \in S => b - 1 # a /\ attempt[b - 1].status = "none"
          BY <2>1, <2>2, <4>2 DEF InTurn
        <4>4. QED
          BY <4>1, <4>2, <4>3
      <3>3. QED
        BY <1>1, <3>1, <3>2
    <2>3. CASE attempt'[a] = Waiting /\ a - 1 \in S
      <3>1. attempt[b].status = "none" /\ attempt[a].status = "none"
        BY <1>2, <2>3 DEF InTurn, Verdict
      <3>2. b \notin S /\ b - 1 \notin S
        <4>1. b \notin S
          BY <3>1
        <4>2. b - 1 \in S => attempt[b - 1].status = "active" /\ (b - 1 = a \/ a < b - 1)
          BY Intervals
        <4>3. b - 1 \in S => attempt[b - 1].status = "none"
          BY <3>1, <4>2 DEF InTurn, Verdict
        <4>4. QED
          BY <4>1, <4>2, <4>3
      <3>3. QED
        BY <1>1, <3>1, <3>2
    <2>4. QED
      BY <1>1, <2>1, <2>2, <2>3
  <1>4. QED
    BY <1>1, <1>2, <1>3 DEF InTurn, Verdict

-----------------------------------------------------------------------------
(***************************************************************************)
(* Types, threads and the order of the attempts                            *)
(***************************************************************************)
LEMMA ShapeInit == Init => TypeOK /\ Threads /\ InTurn
  <1>1. SUFFICES ASSUME Init PROVE TypeOK /\ Threads /\ InTurn
    OBVIOUS
  <1>2. main \in MainType /\ main.pc = "registering"
    BY <1>1, MainRecords DEF Init, MainType, MainPc, Polling
  <1>3. row \in [Rows -> RowType] /\ id \in Rows \cup {0}
    BY <1>1 DEF Init, RowType
  <1>4. TypeOK
    BY <1>1, <1>2, <1>3, ThreadRecords, AttemptRecords, Types DEF Init, Asleep
  <1>5. Threads
    BY <1>1, <1>2, ThreadRecords DEF Init, Threads, Registered, Runs
  <1>6. InTurn
    BY <1>1, AttemptRecords, Intervals DEF Init, InTurn
  <1>7. QED
    BY <1>4, <1>5, <1>6

LEMMA ShapeStep == TypeOK /\ Threads /\ InTurn /\ [Next]_vars => TypeOK' /\ Threads' /\ InTurn'
  <1> SUFFICES ASSUME TypeOK, Threads, InTurn, [Next]_vars PROVE TypeOK' /\ Threads' /\ InTurn'
    OBVIOUS
  <1>t. /\ main \in MainType /\ id \in Rows \cup {0}
        /\ beat \in ThreadType /\ renewer \in [Attempts -> ThreadType]
        /\ row \in [Rows -> RowType] /\ attempt \in [Attempts -> AttemptType]
        /\ reaper \in [pc : {"asleep", "leases"}, left : Nat]
        /\ slow \in [beats : Nat, renewals : Nat, claims : Nat, others : Nat]
    BY Types
  <1>s. ASSUME NEW kind \in {"beats", "renewals", "claims", "others"}, Slow(kind)
        PROVE  slow' \in [beats : Nat, renewals : Nat, claims : Nat, others : Nat]
    BY <1>s, <1>t DEF Slow
  <1>1. CASE Register
    <2>1. row' \in [Rows -> RowType] /\ \A r \in Rows : row[r].status # "absent" => row'[r].status # "absent"
      BY <1>1, <1>t DEF Register, RowType
    <2>2. /\ main' \in MainType /\ main'.pc \in {"registering", "joining", "polling"} /\ id' \in Rows \cup {0}
          /\ slow' \in [beats : Nat, renewals : Nat, claims : Nat, others : Nat] /\ beat' \in ThreadType
          /\ UNCHANGED <<renewer, attempt, reaper>>
      BY <1>1, <1>s, <1>t, MainRecords, JoinIs, ThreadRecords DEF Register
    <2>3. TypeOK'
      BY <1>t, <2>1, <2>2 DEF TypeOK, MainType, MainPc, ThreadType, ThreadPc, RowType, AttemptType
    <2>4. Threads'
      <3>1. main'.pc \in {"joining", "polling"} => id' \in Rows /\ row'[id'].status # "absent"
        BY <1>1, <1>t, MainRecords DEF Register
      <3>2. main'.pc \in {"registering", "joining"} => beat' = Off
        BY <1>1, <2>2, MainRecords DEF Register, Threads
      <3>3. beat'.pc # "off" => id' \in Rows
        BY <1>1, <2>2, ThreadRecords DEF Register, Threads
      <3>4. QED
        BY <1>1, <2>2, <3>1, <3>2, <3>3 DEF Register, Threads, Registered, Runs
    <2>5. QED
      BY <2>2, <2>3, <2>4 DEF InTurn
  <1>2. ASSUME NEW a \in Attempts, Claim(a) PROVE TypeOK' /\ Threads' /\ InTurn'
    <2>1. /\ attempt' = [attempt EXCEPT ![a] = Leased] /\ attempt[a].status = "waiting"
          /\ main.pc = "polling" /\ UNCHANGED <<id, beat, row, reaper>>
      BY <1>2 DEF Claim
    <2>2. attempt' \in [Attempts -> AttemptType] /\ \A b \in Attempts \ {a} : attempt'[b] = attempt[b]
      BY <1>t, <2>1, AttemptRecords
    <2>3. /\ main' \in MainType /\ renewer' \in [Attempts -> ThreadType]
          /\ slow' \in [beats : Nat, renewals : Nat, claims : Nat, others : Nat]
      <3>1. CASE Execute(a) /\ slow' = slow
        BY <1>t, <3>1, ThreadRecords, ExecuteIs
      <3>2. CASE Slow("claims") /\ renewer' = renewer
                 /\ main' = [Polling EXCEPT !.pc = "claimed", !.attempt = a, !.left = RequestTimeout]
        BY <1>s, <1>t, <3>2, AwaitIs
      <3>3. CASE Slow("others") /\ main' = main /\ renewer' = renewer
        BY <1>s, <1>t, <3>3
      <3>4. QED
        BY <1>2, <3>1, <3>2, <3>3 DEF Claim
    <2>4. TypeOK'
      BY <1>t, <2>1, <2>2, <2>3 DEF TypeOK, MainType, MainPc, ThreadType, ThreadPc, RowType, AttemptType
    <2>5. /\ renewer' \in {renewer, [renewer EXCEPT ![a] = Asleep(0)]}
          /\ main'.pc = "running" => main'.attempt = a /\ renewer' = [renewer EXCEPT ![a] = Asleep(0)]
          /\ main'.pc # "running" => renewer' = renewer
          /\ main'.pc \in {"polling", "claimed", "running", "reporting"}
          /\ main'.pc = "claimed" => main'.attempt = a
          /\ main'.pc = "reporting" => main'.attempt = a /\ main'.verdict = "result"
      BY <1>2, <2>1, ExecuteIs, AwaitIs DEF Claim
    <2>6. \A b \in Attempts : renewer[b].pc # "asleep" /\ (b # a => renewer'[b] = renewer[b])
      BY <1>t, <2>1, <2>5 DEF Threads, Runs
    <2>7. Threads'
      BY <1>t, <2>1, <2>2, <2>3, <2>5, <2>6, ThreadRecords, AttemptRecords DEF Threads, Registered, Runs, Verdict
    <2>8. InTurn'
      BY <1>t, <2>1, <2>2, AttemptRecords, Intervals DEF InTurn, Verdict
    <2>9. QED
      BY <2>4, <2>7, <2>8
  <1>3. CASE RunEnds
    <2> DEFINE a == main.attempt
    <2>1. /\ main.pc = "running" /\ a \in Attempts /\ renewer' = [renewer EXCEPT ![a] = Stopped(@)]
          /\ UNCHANGED <<id, beat, row, attempt, reaper, slow>>
      BY <1>3 DEF RunEnds, Threads
    <2>2. main' \in MainType /\ main'.pc = "reporting" /\ main'.attempt = a /\ main'.verdict \in Verdict
      BY <1>3, <1>t DEF RunEnds, MainType, MainPc
    <2>3. renewer' \in [Attempts -> ThreadType] /\ renewer'[a].pc # "asleep"
      BY <1>t, <2>1, ThreadRecords DEF Stopped
    <2>4. \A b \in Attempts : renewer[b].pc = "off" => renewer'[b].pc = "off"
      BY <1>t, <2>1, ThreadRecords DEF Stopped
    <2>5. TypeOK'
      BY <1>t, <2>1, <2>2, <2>3 DEF TypeOK, MainType, MainPc, ThreadType, ThreadPc, RowType, AttemptType
    <2>6. Threads'
      BY <1>t, <2>1, <2>2, <2>3, <2>4 DEF Threads, Registered, Runs
    <2>7. QED
      BY <2>1, <2>5, <2>6 DEF InTurn
  <1>4. CASE Report
    <2> DEFINE a == main.attempt
    <2>1. /\ main.pc = "reporting" /\ a \in Attempts /\ main.verdict \in Verdict
          /\ UNCHANGED <<id, beat, renewer, row, reaper>>
          /\ attempt' = attempt \/ (Active(a) /\ attempt' = Ended({a}, main.verdict))
      BY <1>4 DEF Report, Threads
    <2>2. /\ main' \in MainType /\ main'.pc = "polling"
          /\ slow' \in [beats : Nat, renewals : Nat, claims : Nat, others : Nat]
      BY <1>4, <1>s, <1>t, MainRecords DEF Report
    <2>3. CASE attempt' = attempt
      BY <1>t, <2>1, <2>2, <2>3 DEF TypeOK, MainType, MainPc, ThreadType, ThreadPc, RowType, AttemptType,
                                    Threads, Registered, Runs, InTurn
    <2>4. CASE Active(a) /\ attempt' = Ended({a}, main.verdict)
      <3>1. /\ attempt' \in [Attempts -> AttemptType]
            /\ InTurn'
            /\ \A b \in Attempts : attempt'[b].status \in {"none", "waiting"} =>
                                    attempt[b].status \in {"none", "waiting"}
        <4> HIDE DEF a
        <4>1. {a} \in SUBSET Attempts /\ \A b \in {a} : attempt[b].status = "active"
          BY <2>1, <2>4 DEF Active
        <4>2. QED
          BY <1>t, <2>1, <2>4, <4>1, EndedInTurn
      <3>2. TypeOK'
        BY <1>t, <2>1, <2>2, <3>1 DEF TypeOK, MainType, MainPc, ThreadType, ThreadPc, RowType, AttemptType
      <3>3. Threads'
        BY <1>t, <2>1, <2>2, <3>1 DEF Threads, Registered, Runs
      <3>4. QED
        BY <3>1, <3>2, <3>3
    <2>5. QED
      BY <2>1, <2>3, <2>4
  <1>5. CASE Die
    <2>1. /\ main'.pc = "dead" /\ main' \in MainType
          /\ beat' = Cut(beat) /\ renewer' = [a \in Attempts |-> Cut(renewer[a])]
          /\ UNCHANGED <<id, row, attempt, reaper, slow>>
      BY <1>5, <1>t, MainRecords DEF Die, Polling, MainType, MainPc
    <2>2. /\ beat' \in ThreadType /\ renewer' \in [Attempts -> ThreadType]
          /\ beat'.pc # "off" => beat.pc # "off"
          /\ \A a \in Attempts : /\ renewer'[a].pc # "asleep"
                                 /\ renewer[a].pc = "off" => renewer'[a].pc = "off"
      BY <1>t, <2>1, ThreadRecords DEF Cut
    <2>3. TypeOK'
      BY <1>t, <2>1, <2>2 DEF TypeOK, MainType, MainPc, ThreadType, ThreadPc, RowType, AttemptType
    <2>4. Threads'
      BY <1>t, <2>1, <2>2 DEF Threads, Registered, Runs
    <2>5. QED
      BY <2>1, <2>3, <2>4 DEF InTurn
  <1>6. CASE BeatSteps
    <2>1. /\ beat.pc # "off" /\ id \in Rows /\ main.pc \notin {"registering", "joining"}
          /\ UNCHANGED <<main, id, renewer, attempt, reaper>>
      BY <1>6, ThreadRecords DEF BeatSteps, Beat, SlowBeatArrives, SlowBeatEnds, Due, Threads
    <2>2. beat' \in ThreadType
      BY <1>6, <1>t, ThreadRecords DEF BeatSteps, Beat, SlowBeatArrives, SlowBeatEnds, ThreadType, ThreadPc
    <2>3. slow' \in [beats : Nat, renewals : Nat, claims : Nat, others : Nat]
      BY <1>6, <1>s, <1>t DEF BeatSteps, Beat, SlowBeatArrives, SlowBeatEnds
    <2>4. row' \in {row, [row EXCEPT ![id] = [status |-> "ONLINE", age |-> 0]]}
      BY <1>6 DEF BeatSteps, Beat, SlowBeatArrives, SlowBeatEnds, Heard
    <2>5. row' \in [Rows -> RowType] /\ (row[id].status # "absent" => row'[id].status # "absent")
      BY <1>t, <2>1, <2>4 DEF RowType
    <2>6. TypeOK'
      BY <1>t, <2>1, <2>2, <2>3, <2>5 DEF TypeOK, MainType, MainPc, ThreadType, ThreadPc, RowType, AttemptType
    <2>7. Threads'
      BY <2>1, <2>5 DEF Threads, Registered, Runs
    <2>8. QED
      BY <2>1, <2>6, <2>7 DEF InTurn
  <1>7. ASSUME NEW a \in Attempts, RenewerSteps(a) PROVE TypeOK' /\ Threads' /\ InTurn'
    <2>1. renewer[a].pc # "off" /\ UNCHANGED <<main, id, beat, row, reaper>>
      BY <1>7 DEF RenewerSteps, Renew, SlowRenewalArrives, SlowRenewalEnds, Due
    <2>2. PICK t \in ThreadType : renewer' = [renewer EXCEPT ![a] = t] /\ (t.pc = "off" => ~Runs(a))
                                 /\ (t.pc = "asleep" => Runs(a))
      <3>1. CASE Renew(a)
        BY <1>t, <3>1, ThreadRecords DEF Renew, Due, Threads
      <3>2. CASE SlowRenewalArrives(a)
        <4>1. [renewer[a] EXCEPT !.pc = "handled"] \in ThreadType
          BY <1>t DEF ThreadType, ThreadPc
        <4>2. [renewer[a] EXCEPT !.pc = "handled"].pc = "handled"
          BY <1>t DEF ThreadType
        <4>3. renewer' = [renewer EXCEPT ![a] = [renewer[a] EXCEPT !.pc = "handled"]]
          BY <1>t, <3>2 DEF SlowRenewalArrives, ThreadType
        <4>4. QED
          BY <4>1, <4>2, <4>3
      <3>3. CASE SlowRenewalEnds(a)
        BY <3>3, ThreadRecords DEF SlowRenewalEnds
      <3>4. QED
        BY <1>7, <3>1, <3>2, <3>3 DEF RenewerSteps
    <2>3. slow' \in [beats : Nat, renewals : Nat, claims : Nat, others : Nat]
      BY <1>7, <1>s, <1>t DEF RenewerSteps, Renew, SlowRenewalArrives, SlowRenewalEnds
    <2>4. attempt' \in {attempt, [attempt EXCEPT ![a].lease = LeaseSeconds]}
      BY <1>7 DEF RenewerSteps, Renew, SlowRenewalArrives, SlowRenewalEnds, Renewed
    <2>5. attempt' \in [Attempts -> AttemptType] /\ \A b \in Attempts : attempt'[b].status = attempt[b].status
      <3>1. CASE attempt' = attempt
        BY <1>t, <3>1
      <3>2. CASE attempt' = [attempt EXCEPT ![a].lease = LeaseSeconds]
        <4> DEFINE new == [attempt[a] EXCEPT !.lease = LeaseSeconds]
        <4>1. new \in AttemptType /\ new.status = attempt[a].status
          BY <1>t, Intervals DEF AttemptType
        <4>2. attempt' = [attempt EXCEPT ![a] = new]
          BY <1>t, <3>2
        <4> HIDE DEF new
        <4>3. QED
          BY <1>t, <4>1, <4>2
      <3>3. QED
        BY <2>4, <3>1, <3>2
    <2>6. renewer' \in [Attempts -> ThreadType] /\ renewer'[a] = t
          /\ \A b \in Attempts \ {a} : renewer'[b] = renewer[b]
      BY <1>t, <2>2
    <2>7. TypeOK'
      BY <1>t, <2>1, <2>3, <2>5, <2>6 DEF TypeOK, MainType, MainPc, ThreadType, ThreadPc, RowType, AttemptType
    <2>8. Threads'
      BY <2>1, <2>2, <2>5, <2>6 DEF Threads, Registered, Runs
    <2>9. QED
      BY <2>5, <2>7, <2>8 DEF InTurn
  <1>8. CASE ReapDead
    <2>1. /\ reaper' = [reaper EXCEPT !.pc = "leases"]
          /\ row' = [r \in Rows |-> IF Stale(r) THEN [status |-> "DEAD", age |-> 0] ELSE row[r]]
          /\ UNCHANGED <<main, id, beat, renewer, slow>>
      BY <1>8 DEF ReapDead
    <2>2. /\ row' \in [Rows -> RowType] /\ reaper' \in [pc : {"asleep", "leases"}, left : Nat]
          /\ \A r \in Rows : row[r].status # "absent" => row'[r].status # "absent"
      BY <1>t, <2>1 DEF RowType
    <2>3. attempt' = attempt \/ attempt' = [a \in Attempts |->
            IF Active(a) THEN [attempt[a] EXCEPT !.lease = -1] ELSE attempt[a]]
      BY <1>8 DEF ReapDead
    <2>4. attempt' \in [Attempts -> AttemptType] /\ \A b \in Attempts : attempt'[b].status = attempt[b].status
      BY <1>t, <2>3 DEF AttemptType
    <2>5. TypeOK'
      BY <1>t, <2>1, <2>2, <2>4 DEF TypeOK, MainType, MainPc, ThreadType, ThreadPc, RowType, AttemptType
    <2>6. Threads'
      BY <2>1, <2>2, <2>4 DEF Threads, Registered, Runs
    <2>7. QED
      BY <2>4, <2>5, <2>6 DEF InTurn
  <1>9. CASE ReapLeases
    <2> DEFINE S == {a \in Attempts : Expired(a)}
    <2>1. /\ reaper' = Asleep(ReaperInterval) /\ attempt' = Ended(S, "infra")
          /\ UNCHANGED <<main, id, beat, renewer, row, slow>>
      BY <1>9 DEF ReapLeases
    <2>2. /\ attempt' \in [Attempts -> AttemptType]
          /\ InTurn'
          /\ \A b \in Attempts : attempt'[b].status \in {"none", "waiting"} =>
                                  attempt[b].status \in {"none", "waiting"}
      <3> HIDE DEF S
      <3>1. S \in SUBSET Attempts /\ \A b \in S : attempt[b].status = "active"
        BY DEF S, Expired, Active
      <3>2. QED
        BY <1>t, <2>1, <3>1, EndedInTurn DEF Verdict
    <2>3. reaper' \in [pc : {"asleep", "leases"}, left : Nat]
      BY <2>1, Intervals DEF Asleep
    <2>4. TypeOK'
      BY <1>t, <2>1, <2>2, <2>3 DEF TypeOK, MainType, MainPc, ThreadType, ThreadPc, RowType, AttemptType
    <2>5. Threads'
      BY <2>1, <2>2 DEF Threads, Registered, Runs
    <2>6. QED
      BY <2>2, <2>4, <2>5
  <1>10. CASE Tick
    <2>1. /\ beat' = Later(beat) /\ renewer' = [a \in Attempts |-> Later(renewer[a])]
          /\ MayWait(beat) /\ (\A a \in Attempts : MayWait(renewer[a])) /\ MayWait(reaper)
          /\ reaper' = Later(reaper) /\ UNCHANGED <<id, slow>>
          /\ main' \in MainType
          /\ main'.pc = main.pc /\ main'.attempt = main.attempt /\ main'.verdict = main.verdict
      BY <1>10, MainAges DEF Tick
    <2>2. ASSUME NEW t \in ThreadType, MayWait(t) PROVE Later(t) \in ThreadType /\ Later(t).pc = t.pc
      BY <2>2 DEF MayWait, Later, ThreadType
    <2>3. beat' \in ThreadType /\ beat'.pc = beat.pc
      BY <1>t, <2>1, <2>2
    <2>4. renewer' \in [Attempts -> ThreadType] /\ \A a \in Attempts : renewer'[a].pc = renewer[a].pc
      BY <1>t, <2>1, <2>2
    <2>5. reaper' \in [pc : {"asleep", "leases"}, left : Nat]
      BY <1>t, <2>1 DEF MayWait, Later
    <2>6. row' \in [Rows -> RowType] /\ \A r \in Rows : row'[r].status = row[r].status
      <3> DEFINE older(r) == [row[r] EXCEPT !.age = @ + 1]
      <3>1. row' = [r \in Rows |-> IF row[r].status = "ONLINE" THEN older(r) ELSE row[r]]
        BY <1>10 DEF Tick
      <3>2. ASSUME NEW r \in Rows PROVE older(r) \in RowType /\ older(r).status = row[r].status
        <4>1. row[r] \in RowType
          BY <1>t
        <4>2. QED
          BY <4>1 DEF RowType
      <3> HIDE DEF older
      <3>3. QED
        BY <1>t, <3>1, <3>2
    <2>7. attempt' \in [Attempts -> AttemptType] /\ \A a \in Attempts : attempt'[a].status = attempt[a].status
      <3> DEFINE older(a) == [attempt[a] EXCEPT !.lease = @ - 1, !.idle = IF Holds(a) THEN 0 ELSE @ + 1]
      <3>1. attempt' = [a \in Attempts |-> IF Active(a) THEN older(a) ELSE attempt[a]]
        BY <1>10 DEF Tick
      <3>2. ASSUME NEW a \in Attempts PROVE older(a) \in AttemptType /\ older(a).status = attempt[a].status
        <4> DEFINE e == attempt[a]   i == IF Holds(a) THEN 0 ELSE e.idle + 1
        <4>1. e \in AttemptType /\ older(a) = [e EXCEPT !.lease = e.lease - 1, !.idle = i]
          BY <1>t
        <4>2. e.lease - 1 \in Int /\ i \in Nat
          BY <4>1 DEF AttemptType
        <4> HIDE DEF e, i
        <4>3. [e EXCEPT !.lease = e.lease - 1, !.idle = i] \in AttemptType
              /\ [e EXCEPT !.lease = e.lease - 1, !.idle = i].status = e.status
          BY <4>1, <4>2 DEF AttemptType
        <4>4. QED
          BY <4>1, <4>3 DEF e
      <3> HIDE DEF older
      <3>3. QED
        BY <1>t, <3>1, <3>2
    <2>8. TypeOK'
      BY <1>t, <2>1, <2>3, <2>4, <2>5, <2>6, <2>7
      DEF TypeOK, MainType, MainPc, ThreadType, ThreadPc, RowType, AttemptType
    <2>9. Threads'
      <3>1. beat = Off => beat' = Off
        BY <2>1, ThreadRecords DEF Later
      <3>2. QED
        BY <2>1, <2>3, <2>4, <2>6, <2>7, <3>1 DEF Threads, Registered, Runs
    <2>10. QED
      BY <2>7, <2>8, <2>9 DEF InTurn
  <1>11. CASE UNCHANGED vars
    BY <1>11 DEF vars, TypeOK, Threads, Registered, Runs, InTurn
  <1>12. CASE RegisterAnswered
    <2>1. /\ main.pc = "joining" /\ main' = Polling /\ beat' = Asleep(0)
          /\ UNCHANGED <<id, renewer, row, attempt, reaper, slow>>
      BY <1>12 DEF RegisterAnswered
    <2>2. TypeOK'
      BY <1>t, <2>1, MainRecords, ThreadRecords DEF TypeOK, MainType, MainPc, ThreadType, ThreadPc, RowType, AttemptType
    <2>3. Threads'
      BY <1>t, <2>1, MainRecords, ThreadRecords DEF Threads, Registered, Runs
    <2>4. QED
      BY <2>1, <2>2, <2>3 DEF InTurn
  <1>13. CASE ClaimAnswered
    <2> DEFINE a == main.attempt
    <2>1. /\ main.pc = "claimed" /\ a \in Attempts /\ Execute(a)
          /\ UNCHANGED <<id, beat, row, attempt, reaper, slow>>
          /\ attempt[a].status \notin {"none", "waiting"}
      BY <1>13 DEF ClaimAnswered, Threads
    <2>2. /\ main' \in MainType /\ main'.attempt = a
          /\ \/ main'.pc = "running" /\ renewer' = [renewer EXCEPT ![a] = Asleep(0)]
             \/ main'.pc = "reporting" /\ main'.verdict = "result" /\ renewer' = renewer
      BY <2>1, ExecuteIs
    <2>3. renewer' \in [Attempts -> ThreadType]
      BY <1>t, <2>2, ThreadRecords
    <2>4. TypeOK'
      BY <1>t, <2>1, <2>2, <2>3 DEF TypeOK, MainType, MainPc, ThreadType, ThreadPc, RowType, AttemptType
    <2>5. \A b \in Attempts : renewer[b].pc # "asleep" /\ (b # a => renewer'[b] = renewer[b])
      BY <1>t, <2>1, <2>2 DEF Threads, Runs
    <2>6. Threads'
      BY <1>t, <2>1, <2>2, <2>3, <2>5, ThreadRecords DEF Threads, Registered, Runs, Verdict
    <2>7. QED
      BY <2>1, <2>4, <2>6 DEF InTurn
  <1>14. QED
    BY <1>1, <1>2, <1>3, <1>4, <1>5, <1>6, <1>7, <1>8, <1>9, <1>10, <1>11, <1>12, <1>13 DEF Next, MainSteps

-----------------------------------------------------------------------------
(***************************************************************************)
(* What a step does to an attempt that is leased after it, and to its      *)
(* renewal thread                                                          *)
(***************************************************************************)
Kept(a) == /\ Active(a) /\ attempt'[a] = attempt[a]
           /\ \/ reaper' = reaper
              \/ reaper'.pc = "leases"
              \/ reaper.pc = "leases" /\ attempt[a].lease >= 0 /\ reaper'.left = ReaperInterval
Taken(a) == attempt'[a] = Leased /\ renewer[a].pc = "off" /\ reaper' = reaper
Extended(a) == /\ Active(a) /\ reaper' = reaper /\ main' = main
               /\ attempt'[a].lease = LeaseSeconds /\ attempt'[a].idle = attempt[a].idle
               /\ Runs(a) \/ renewer[a].pc = "sent"
               /\ renewer'[a].pc # "sent"
GivenUp(a) == /\ Active(a) /\ reaper'.pc = "leases"
              /\ attempt'[a].lease = -1 /\ attempt'[a].idle = attempt[a].idle
Aged(a) == /\ Active(a) /\ Tick
           /\ attempt'[a].lease = attempt[a].lease - 1
           /\ attempt'[a].idle = IF Holds(a) THEN 0 ELSE attempt[a].idle + 1

LEMMA AttemptMoves ==
    ASSUME TypeOK, Threads, Next, NEW a \in Attempts, Active(a)'
    PROVE  IF Tick THEN Aged(a) ELSE Kept(a) \/ Taken(a) \/ Extended(a) \/ GivenUp(a)
  <1>t. attempt \in [Attempts -> AttemptType] /\ renewer \in [Attempts -> ThreadType]
    BY Types
  <1>a. attempt'[a].status = "active"
    BY DEF Active
  <1>k. ASSUME attempt'[a] = attempt[a], reaper' = reaper PROVE Kept(a)
    BY <1>a, <1>k DEF Kept, Active
  <1>1. ASSUME Register \/ RegisterAnswered \/ ClaimAnswered \/ RunEnds \/ Die \/ BeatSteps PROVE Kept(a)
    <2>1. UNCHANGED <<attempt, reaper>>
      BY <1>1 DEF Register, RegisterAnswered, ClaimAnswered, RunEnds, Die, BeatSteps, Beat, SlowBeatArrives, SlowBeatEnds
    <2>2. QED
      BY <1>k, <2>1
  <1>2. ASSUME NEW b \in Attempts, Claim(b) PROVE Kept(a) \/ Taken(a)
    <2>1. /\ attempt' = [attempt EXCEPT ![b] = Leased] /\ reaper' = reaper
          /\ attempt[b].status = "waiting"
      BY <1>2 DEF Claim
    <2>2. CASE a = b
      BY <1>t, <2>1, <2>2 DEF Threads, Taken
    <2>3. CASE a # b
      BY <1>t, <1>k, <2>1, <2>3
    <2>4. QED
      BY <2>2, <2>3
  <1>e. ASSUME NEW S \in SUBSET Attempts, NEW v \in Verdict, attempt' = Ended(S, v)
        PROVE  attempt'[a] = attempt[a] /\ a \notin S
    BY <1>a, <1>e, <1>t, EndedIs, AttemptRecords DEF Verdict
  <1>3. ASSUME Report PROVE Kept(a)
    <2> DEFINE S == {main.attempt}
    <2>1. S \in SUBSET Attempts /\ main.verdict \in Verdict /\ reaper' = reaper
      BY <1>3 DEF Report, Threads
    <2>2. attempt' = attempt \/ attempt' = Ended(S, main.verdict)
      BY <1>3 DEF Report
    <2> HIDE DEF S
    <2>3. attempt'[a] = attempt[a]
      BY <1>e, <2>1, <2>2
    <2>4. QED
      BY <1>k, <2>1, <2>3
  <1>4. ASSUME NEW b \in Attempts, RenewerSteps(b) PROVE Kept(a) \/ Extended(a)
    <2>1. reaper' = reaper /\ main' = main
      BY <1>4 DEF RenewerSteps, Renew, SlowRenewalArrives, SlowRenewalEnds
    <2>2. CASE attempt' = attempt
      BY <1>k, <2>1, <2>2
    <2>3. CASE attempt' # attempt
      <3>1. Active(b) /\ attempt' = [attempt EXCEPT ![b].lease = LeaseSeconds]
        BY <1>4, <2>3 DEF RenewerSteps, Renew, SlowRenewalArrives, SlowRenewalEnds, Renewed
      <3>2. (renewer[b].pc = "asleep" \/ renewer[b].pc = "sent") /\ renewer'[b].pc # "sent"
        BY <1>4, <1>t, <2>3, ThreadRecords
        DEF RenewerSteps, Renew, SlowRenewalArrives, SlowRenewalEnds, Due, ThreadType
      <3>3. Runs(b) \/ renewer[b].pc = "sent"
        BY <3>2 DEF Threads
      <3>4. CASE a = b
        <4>1. attempt[a] \in AttemptType
          BY <1>t
        <4>2. attempt'[a] = [attempt[a] EXCEPT !.lease = LeaseSeconds]
          BY <1>t, <3>1, <3>4
        <4>3. attempt'[a].lease = LeaseSeconds /\ attempt'[a].idle = attempt[a].idle
          BY <4>1, <4>2 DEF AttemptType
        <4>4. QED
          BY <2>1, <3>1, <3>2, <3>3, <3>4, <4>3 DEF Extended
      <3>5. CASE a # b
        BY <1>t, <1>k, <2>1, <3>1, <3>5
      <3>6. QED
        BY <3>4, <3>5
    <2>4. QED
      BY <2>2, <2>3
  <1>5. ASSUME ReapDead PROVE Kept(a) \/ GivenUp(a)
    <2>1. reaper'.pc = "leases"
      BY <1>5, Types DEF ReapDead
    <2>2. CASE attempt' = attempt
      BY <1>a, <2>1, <2>2 DEF Kept, Active
    <2>3. CASE attempt' # attempt
      <3>1. attempt' = [b \in Attempts |-> IF Active(b) THEN [attempt[b] EXCEPT !.lease = -1] ELSE attempt[b]]
        BY <1>5, <2>3 DEF ReapDead
      <3>2. Active(a) /\ attempt'[a] = [attempt[a] EXCEPT !.lease = -1] /\ attempt[a] \in AttemptType
        BY <1>a, <1>t, <3>1 DEF Active
      <3>3. attempt'[a].lease = -1 /\ attempt'[a].idle = attempt[a].idle
        BY <3>2 DEF AttemptType
      <3>4. QED
        BY <2>1, <3>2, <3>3 DEF GivenUp
    <2>4. QED
      BY <2>2, <2>3
  <1>6. ASSUME ReapLeases PROVE Kept(a)
    <2> DEFINE S == {b \in Attempts : Expired(b)}
    <2>1. /\ reaper.pc = "leases" /\ reaper'.left = ReaperInterval /\ attempt' = Ended(S, "infra")
          /\ S \in SUBSET Attempts
      BY <1>6 DEF ReapLeases, Asleep
    <2> HIDE DEF S
    <2>2. attempt'[a] = attempt[a] /\ a \notin S
      BY <1>e, <2>1 DEF Verdict
    <2>3. Active(a)
      BY <1>a, <2>2 DEF Active
    <2>4. ~(attempt[a].lease < 0)
      BY <2>2, <2>3 DEF S, Expired
    <2>5. attempt[a].lease >= 0
      BY <1>t, <2>4 DEF AttemptType
    <2>6. QED
      BY <2>1, <2>2, <2>3, <2>5 DEF Kept
  <1>7. ASSUME Tick PROVE Aged(a)
    <2> DEFINE e == attempt[a]   i == IF Holds(a) THEN 0 ELSE e.idle + 1
    <2>1. attempt'[a] = IF Active(a) THEN [e EXCEPT !.lease = e.lease - 1, !.idle = i] ELSE e
      BY <1>7 DEF Tick
    <2>2. Active(a) /\ e \in AttemptType
      BY <1>a, <1>t, <2>1 DEF Active
    <2>3. attempt'[a] = [e EXCEPT !.lease = e.lease - 1, !.idle = i]
      BY <2>1, <2>2
    <2> HIDE DEF i, e
    <2>4. attempt'[a].lease = e.lease - 1 /\ attempt'[a].idle = i
      BY <2>2, <2>3 DEF AttemptType
    <2>5. QED
      BY <1>7, <2>2, <2>4 DEF Aged, e, i
  <1>8. QED
    BY <1>1, <1>2, <1>3, <1>4, <1>5, <1>6, <1>7 DEF Next, MainSteps

\* Its renewal thread does not get more time, except from the run it belongs to.
InFlight(thread) == thread.pc \in {"sent", "handled"}
LEMMA RenewerMoves ==
    ASSUME TypeOK, Threads, Next, ~Tick, NEW a \in Attempts, InFlight(renewer'[a])
    PROVE  \/ /\ InFlight(renewer[a]) /\ renewer'[a].left = renewer[a].left
              /\ renewer'[a].pc = "sent" => renewer[a].pc = "sent"
           \/ renewer'[a] = Sent /\ Runs(a) /\ main' = main
  <1>t. renewer \in [Attempts -> ThreadType]
    BY Types
  <1>1. CASE UNCHANGED renewer
    BY <1>1 DEF InFlight
  <1>2. ASSUME NEW b \in Attempts, Claim(b), renewer' # renewer PROVE renewer'[a] = renewer[a]
    <2>1. renewer' = [renewer EXCEPT ![b] = Asleep(0)]
      BY <1>2, ExecuteIs DEF Claim
    <2>2. QED
      BY <1>t, <2>1, ThreadRecords DEF InFlight
  <1>10. ASSUME ClaimAnswered, renewer' # renewer PROVE renewer'[a] = renewer[a]
    <2>1. main.attempt \in Attempts /\ renewer' = [renewer EXCEPT ![main.attempt] = Asleep(0)]
      BY <1>10, ExecuteIs DEF ClaimAnswered, Threads
    <2>2. QED
      BY <1>t, <2>1, ThreadRecords DEF InFlight
  <1>3. CASE RunEnds
    <2>1. renewer' = [renewer EXCEPT ![main.attempt] = Stopped(@)] /\ main.attempt \in Attempts
      BY <1>3 DEF RunEnds, Threads
    <2>2. renewer'[a] = renewer[a]
      BY <1>t, <2>1, ThreadRecords DEF InFlight, Stopped
    <2>3. QED
      BY <2>2 DEF InFlight
  <1>4. CASE Die
    <2>1. renewer'[a] = Cut(renewer[a])
      BY <1>4 DEF Die
    <2>2. renewer'[a] = renewer[a]
      BY <2>1, ThreadRecords DEF InFlight, Cut
    <2>3. QED
      BY <2>2 DEF InFlight
  <1>5. ASSUME NEW b \in Attempts, RenewerSteps(b), a # b PROVE renewer'[a] = renewer[a]
    BY <1>5, <1>t DEF RenewerSteps, Renew, SlowRenewalArrives, SlowRenewalEnds
  <1>6. CASE Renew(a)
    <2>1. main' = main /\ renewer[a].pc = "asleep" /\ renewer' \in {[renewer EXCEPT ![a] = Pause], [renewer EXCEPT ![a] = Sent]}
      BY <1>6 DEF Renew, Due
    <2>2. QED
      BY <1>t, <2>1, ThreadRecords DEF InFlight, Threads
  <1>7. CASE SlowRenewalArrives(a)
    <2>1. renewer[a].pc = "sent" /\ renewer[a] \in ThreadType
          /\ renewer' = [renewer EXCEPT ![a] = [renewer[a] EXCEPT !.pc = "handled"]]
      BY <1>7, <1>t DEF SlowRenewalArrives, ThreadType
    <2>2. renewer'[a] = [renewer[a] EXCEPT !.pc = "handled"]
      BY <1>t, <2>1
    <2>3. renewer'[a].pc = "handled" /\ renewer'[a].left = renewer[a].left
      BY <2>1, <2>2 DEF ThreadType
    <2>4. QED
      BY <2>1, <2>3 DEF InFlight
  <1>8. CASE SlowRenewalEnds(a)
    <2>1. renewer'[a] = Pause \/ renewer'[a] = Off
      BY <1>8, <1>t DEF SlowRenewalEnds
    <2>2. QED
      BY <2>1, ThreadRecords DEF InFlight
  <1>9. QED
    <2>1. CASE Register \/ RegisterAnswered \/ Report \/ BeatSteps \/ ReapDead \/ ReapLeases
      <3>1. UNCHANGED renewer
        BY <2>1 DEF Register, RegisterAnswered, Report, BeatSteps, Beat, SlowBeatArrives, SlowBeatEnds, ReapDead, ReapLeases
      <3>2. QED
        BY <1>1, <3>1
    <2>2. ASSUME NEW b \in Attempts, Claim(b) PROVE renewer'[a] = renewer[a]
      BY <1>2, <2>2
    <2>3. ASSUME NEW b \in Attempts, RenewerSteps(b) PROVE renewer'[a] = renewer[a] \/ RenewerSteps(a)
      BY <1>5, <2>3
    <2>4. ASSUME ClaimAnswered PROVE renewer'[a] = renewer[a]
      BY <1>10, <2>4
    <2>5. QED
      BY <1>3, <1>4, <1>6, <1>7, <1>8, <2>1, <2>2, <2>3, <2>4 DEF Next, MainSteps, RenewerSteps, InFlight

\* A worker gets hold of an attempt by a claim.
LEMMA HoldBegins ==
    ASSUME TypeOK, Threads, Next, NEW a \in Attempts, Holds(a)', ~Holds(a)
    PROVE  attempt'[a] = Leased /\ reaper' = reaper
  <1>t. attempt \in [Attempts -> AttemptType]
    BY Types
  <1>1. ASSUME NEW b \in Attempts, Claim(b) PROVE attempt'[a] = Leased /\ reaper' = reaper
    <2>1. /\ attempt' = [attempt EXCEPT ![b] = Leased] /\ reaper' = reaper /\ main.pc = "polling"
          /\ main'.pc \in {"claimed", "running"} => main'.attempt = b
      BY <1>1, ExecuteIs, AwaitIs DEF Claim
    <2>2. QED
      BY <1>t, <2>1 DEF Holds
  <1>2. CASE Register \/ RegisterAnswered \/ RunEnds \/ Report \/ Die
    <2>1. main' = main \/ main'.pc \notin {"claimed", "running"}
      BY <1>2, MainRecords, JoinIs, Types
      DEF Register, RegisterAnswered, RunEnds, Report, Die, Polling, MainType, MainPc
    <2>2. QED
      BY <2>1 DEF Holds
  <1>3. ASSUME ClaimAnswered PROVE FALSE
    <2>1. main.pc = "claimed" /\ main'.attempt = main.attempt
      BY <1>3, ExecuteIs DEF ClaimAnswered, Threads
    <2>2. QED
      BY <2>1 DEF Holds
  <1>4. CASE BeatSteps \/ ReapDead \/ ReapLeases \/ Tick
    <2>1. main'.pc = main.pc /\ main'.attempt = main.attempt
      BY <1>4, MainAges DEF BeatSteps, Beat, SlowBeatArrives, SlowBeatEnds, ReapDead, ReapLeases
    <2>2. QED
      BY <2>1 DEF Holds
  <1>5. ASSUME NEW b \in Attempts, RenewerSteps(b) PROVE FALSE
    <2>1. main' = main
      BY <1>5 DEF RenewerSteps, Renew, SlowRenewalArrives, SlowRenewalEnds
    <2>2. QED
      BY <2>1 DEF Holds
  <1>6. QED
    BY <1>1, <1>2, <1>3, <1>4, <1>5 DEF Next, MainSteps

-----------------------------------------------------------------------------
(***************************************************************************)
(* What the reaper finds out, and when                                     *)
(***************************************************************************)
LEMMA LateInit == Init => ReaperOnTime /\ LeaseOutlivesRun /\ AbandonedAttemptEnds
  <1> SUFFICES ASSUME Init PROVE ReaperOnTime /\ LeaseOutlivesRun /\ AbandonedAttemptEnds
    OBVIOUS
  <1>1. /\ \A a \in Attempts : ~Active(a) /\ renewer[a].pc = "off"
        /\ \A r \in Rows : row[r].status = "absent"
        /\ reaper.pc = "asleep" /\ reaper.left = 0
    BY ThreadRecords, AttemptRecords DEF Init, Active, Asleep
  <1>2. QED
    BY <1>1, Intervals DEF ReaperOnTime, LeaseOutlivesRun, AbandonedAttemptEnds

\* The reaper's own state, and the rows it looks at.
LEMMA ReaperMoves ==
    ASSUME TypeOK, Next, reaper' # reaper
    PROVE  \/ reaper.pc = "asleep" /\ reaper.left = 0 /\ reaper'.pc = "leases" /\ reaper'.left = 0
           \/ reaper.pc = "leases" /\ reaper'.pc = "asleep" /\ reaper'.left = ReaperInterval
           \/ Tick /\ reaper.left > 0 /\ reaper'.pc = reaper.pc /\ reaper'.left = reaper.left - 1
  <1>t. reaper \in [pc : {"asleep", "leases"}, left : Nat]
    BY Types
  <1>1. CASE ReapDead
    BY <1>1, <1>t DEF ReapDead, Due
  <1>2. CASE ReapLeases
    BY <1>2 DEF ReapLeases, Asleep
  <1>3. CASE Tick
    BY <1>3, <1>t DEF Tick, Later, MayWait
  <1>4. QED
    BY <1>1, <1>2, <1>3 DEF Next, MainSteps, Register, RegisterAnswered, ClaimAnswered, Claim, RunEnds, Report, Die, BeatSteps, Beat,
       SlowBeatArrives, SlowBeatEnds, RenewerSteps, Renew, SlowRenewalArrives, SlowRenewalEnds

LEMMA RowMoves ==
    ASSUME TypeOK, Threads, Next, NEW r \in Rows, row'[r].status = "ONLINE"
    PROVE  \/ row'[r] = row[r] /\ (ReapDead => row[r].age <= DeadAfter) /\ (reaper' = reaper \/ ReapDead \/ ReapLeases)
           \/ row'[r].age = 0 /\ reaper' = reaper
           \/ Tick /\ row[r].status = "ONLINE" /\ row'[r].age = row[r].age + 1
  <1>t. row \in [Rows -> RowType]
    BY Types
  <1>1. CASE Register \/ BeatSteps
    <2>1. PICK q \in Rows : row' \in {row, [row EXCEPT ![q] = [status |-> "ONLINE", age |-> 0]]}
      BY <1>1, ThreadRecords DEF Register, BeatSteps, Beat, SlowBeatArrives, SlowBeatEnds, Heard, Due, Threads
    <2>2. reaper' = reaper
      BY <1>1 DEF Register, BeatSteps, Beat, SlowBeatArrives, SlowBeatEnds
    <2>3. row'[r] = row[r] \/ row'[r] = [status |-> "ONLINE", age |-> 0]
      BY <1>t, <2>1
    <2>4. ReapDead => row' = [x \in Rows |-> IF Stale(x) THEN [status |-> "DEAD", age |-> 0] ELSE row[x]]
      BY DEF ReapDead
    <2>5. ReapDead => ~Stale(r)
      BY <2>4
    <2>6. row'[r] = row[r] => (ReapDead => row[r].age <= DeadAfter)
      BY <1>t, <2>5, Intervals DEF Stale, RowType
    <2>7. QED
      BY <2>2, <2>3, <2>6
  <1>2. CASE ReapDead
    <2>1. row' = [x \in Rows |-> IF Stale(x) THEN [status |-> "DEAD", age |-> 0] ELSE row[x]]
      BY <1>2 DEF ReapDead
    <2>2. ~Stale(r) /\ row'[r] = row[r]
      BY <2>1
    <2>3. QED
      BY <1>2, <1>t, <2>2, Intervals DEF Stale, RowType
  <1>3. CASE Tick
    <2> DEFINE older == [row[r] EXCEPT !.age = @ + 1]
    <2>1. row'[r] = IF row[r].status = "ONLINE" THEN older ELSE row[r]
      BY <1>3 DEF Tick
    <2>2. older.age = row[r].age + 1
      BY <1>t DEF RowType
    <2> HIDE DEF older
    <2>3. QED
      BY <1>3, <2>1, <2>2
  <1>4. CASE ~ReapDead /\ UNCHANGED row /\ (reaper' = reaper \/ ReapLeases)
    BY <1>4
  <1>5. QED
    BY <1>1, <1>2, <1>3, <1>4 DEF Next, MainSteps, RegisterAnswered, Claim, ClaimAnswered, RunEnds, Report, Die,
       RenewerSteps, Renew, SlowRenewalArrives, SlowRenewalEnds, ReapLeases

LEMMA ReaperStaysOnTime == TypeOK /\ Threads /\ ReaperOnTime /\ Next => ReaperOnTime'
  <1> SUFFICES ASSUME TypeOK, Threads, ReaperOnTime, Next PROVE ReaperOnTime'
    OBVIOUS
  <1>t. /\ reaper \in [pc : {"asleep", "leases"}, left : Nat] /\ row \in [Rows -> RowType]
        /\ attempt \in [Attempts -> AttemptType]
    BY Types
  <1>p. \/ reaper' = reaper
        \/ reaper.pc = "asleep" /\ reaper.left = 0 /\ reaper'.pc = "leases" /\ reaper'.left = 0
        \/ reaper.pc = "leases" /\ reaper'.pc = "asleep" /\ reaper'.left = ReaperInterval
        \/ /\ Tick /\ reaper.pc = "asleep" /\ reaper'.pc = "asleep"
           /\ reaper.left > 0 /\ reaper'.left = reaper.left - 1
    BY <1>t, ReaperMoves DEF ReaperOnTime
  <1>q. /\ Tick => reaper.pc = "asleep" /\ reaper'.pc = "asleep" /\ reaper'.left = reaper.left - 1
        /\ ReapDead => reaper.pc = "asleep" /\ reaper'.pc = "leases"
        /\ ReapLeases => reaper.pc = "leases" /\ reaper'.pc = "asleep" /\ reaper'.left = ReaperInterval
    <2>1. ASSUME Tick PROVE reaper.pc = "asleep" /\ reaper'.pc = "asleep" /\ reaper'.left = reaper.left - 1
      <3>1. reaper.left > 0 /\ reaper' = [reaper EXCEPT !.left = reaper.left - 1]
        BY <1>t, <2>1 DEF Tick, Later, MayWait
      <3>2. reaper.pc = "asleep"
        BY <1>t, <3>1 DEF ReaperOnTime
      <3>3. QED
        BY <1>t, <3>1, <3>2
    <2>2. QED
      BY <1>t, <2>1 DEF ReapDead, ReapLeases, Due, Asleep
  <1>1. reaper'.left <= IF reaper'.pc = "asleep" THEN ReaperInterval ELSE 0
    BY <1>p, <1>t, Intervals DEF ReaperOnTime
  <1>2. ASSUME NEW r \in Rows, row'[r].status = "ONLINE"
        PROVE  row'[r].age <= IF reaper'.pc = "asleep" THEN DeadAfter + ReaperInterval - reaper'.left ELSE DeadAfter
    <2>1. row[r].age \in Nat
      BY <1>t DEF RowType
    <2>2. row[r].status = "ONLINE" =>
            row[r].age <= IF reaper.pc = "asleep" THEN DeadAfter + ReaperInterval - reaper.left ELSE DeadAfter
      BY DEF ReaperOnTime
    <2>3. reaper.left \in Nat /\ reaper.left <= IF reaper.pc = "asleep" THEN ReaperInterval ELSE 0
      BY <1>t DEF ReaperOnTime
    <2>4. CASE row'[r] = row[r] /\ (ReapDead => row[r].age <= DeadAfter) /\ (reaper' = reaper \/ ReapDead \/ ReapLeases)
      BY <1>2, <1>q, <2>1, <2>2, <2>4, Intervals
    <2>5. CASE row'[r].age = 0 /\ reaper' = reaper
      BY <2>3, <2>5, Intervals
    <2>6. CASE Tick /\ row[r].status = "ONLINE" /\ row'[r].age = row[r].age + 1
      BY <1>q, <2>1, <2>2, <2>3, <2>6, Intervals
    <2>7. QED
      BY <1>2, <2>4, <2>5, <2>6, RowMoves
  <1>3. ASSUME NEW a \in Attempts, Active(a)', reaper'.pc = "asleep"
        PROVE  attempt'[a].lease + ReaperInterval >= reaper'.left
    <2>1. attempt[a].lease \in Int /\ reaper.left \in Nat
      BY <1>t DEF AttemptType
    <2>2. Active(a) /\ reaper.pc = "asleep" => attempt[a].lease + ReaperInterval >= reaper.left
      BY DEF ReaperOnTime
    <2>3. CASE Kept(a)
      BY <1>3, <1>p, <2>1, <2>2, <2>3, Intervals DEF Kept
    <2>4. CASE Taken(a) \/ Extended(a)
      BY <1>1, <1>3, <2>1, <2>4, AttemptRecords, Intervals DEF Taken, Extended
    <2>5. CASE GivenUp(a)
      BY <1>3, <2>5 DEF GivenUp
    <2>6. CASE Aged(a)
      BY <1>q, <2>1, <2>2, <2>6, Intervals DEF Aged
    <2>7. QED
      BY <1>3, <2>3, <2>4, <2>5, <2>6, AttemptMoves
  <1>4. QED
    BY <1>1, <1>2, <1>3 DEF ReaperOnTime

\* The part of LeaseOutlivesRun that is about a, and the bound it is there for.
Outlived(a) ==
    /\ InFlight(renewer[a]) => renewer[a].left <= RequestTimeout
    /\ Active(a) =>
          /\ attempt[a].lease <= LeaseSeconds
          /\ Holds(a) => attempt[a].idle = 0
          /\ ~Runs(a) /\ renewer[a].pc = "sent" => attempt[a].idle + renewer[a].left <= RequestTimeout
          /\ ~Runs(a) /\ (attempt[a].lease >= 0 \/ reaper.pc = "asleep") =>
                attempt[a].lease + attempt[a].idle <= LeaseSeconds + RequestTimeout
          /\ attempt[a].idle <= RequestTimeout + LeaseSeconds + ReaperInterval

LEMMA OutlivedByAll == LeaseOutlivesRun /\ AbandonedAttemptEnds <=> \A a \in Attempts : Outlived(a)
  BY DEF LeaseOutlivesRun, AbandonedAttemptEnds, Outlived, InFlight

LEMMA OutlivedStep ==
    ASSUME TypeOK, Threads, ReaperOnTime, ReaperOnTime', Next, TypeOK', NEW a \in Attempts, Outlived(a)
    PROVE  Outlived(a)'
  <1>t. /\ attempt[a].lease \in Int /\ attempt[a].idle \in Nat /\ renewer[a].left \in Nat
        /\ attempt'[a].lease \in Int /\ attempt'[a].idle \in Nat /\ renewer'[a].left \in Nat
        /\ reaper.left \in Nat /\ reaper'.left \in Nat
    <2>1. attempt[a] \in AttemptType /\ renewer[a] \in ThreadType /\ reaper.left \in Nat
      BY Types
    <2>2. attempt'[a] \in AttemptType /\ renewer'[a] \in ThreadType /\ reaper'.left \in Nat
      BY DEF TypeOK, AttemptType, ThreadType, ThreadPc
    <2>3. QED
      BY <2>1, <2>2 DEF AttemptType, ThreadType
  <1>k. Tick => /\ MayWait(renewer[a]) /\ renewer'[a] = Later(renewer[a])
                /\ (Runs(a)' <=> Runs(a)) /\ (Holds(a)' <=> Holds(a))
                /\ reaper.pc = "asleep"
    <2>1. reaper \in [pc : {"asleep", "leases"}, left : Nat]
      BY Types
    <2>2. reaper.left > 0 => reaper.pc = "asleep"
      BY <2>1 DEF ReaperOnTime
    <2>3. Tick => (Runs(a)' <=> Runs(a)) /\ (Holds(a)' <=> Holds(a))
      BY MainAges DEF Runs, Holds
    <2>4. QED
      BY <2>1, <2>2, <2>3 DEF Tick, MayWait
  <1>l. Tick /\ InFlight(renewer'[a]) => /\ InFlight(renewer[a]) /\ renewer'[a].left = renewer[a].left - 1
                                        /\ renewer'[a].pc = renewer[a].pc
    <2>1. renewer[a] \in ThreadType
      BY Types
    <2>2. QED
      BY <1>k, <2>1 DEF Later, InFlight, ThreadType
  <1>1. InFlight(renewer'[a]) => renewer'[a].left <= RequestTimeout
    <2>1. CASE Tick
      BY <1>l, <1>t, <2>1, Intervals DEF Outlived
    <2>2. CASE ~Tick
      BY <1>t, <2>2, RenewerMoves, ThreadRecords, Intervals DEF Outlived
    <2>3. QED
      BY <2>1, <2>2
  <1>2. ASSUME Active(a)', Holds(a)' PROVE attempt'[a].idle = 0
    <2>1. CASE ~Holds(a)
      BY <1>2, <2>1, HoldBegins, AttemptRecords
    <2>2. CASE Holds(a)
      BY <1>2, <2>2, AttemptMoves, AttemptRecords DEF Kept, Taken, Extended, GivenUp, Aged, Outlived
    <2>3. QED
      BY <2>1, <2>2
  <1>m. ASSUME Active(a)'
        PROVE  IF Tick THEN Aged(a) ELSE Kept(a) \/ Taken(a) \/ Extended(a) \/ GivenUp(a)
    BY <1>m, AttemptMoves
  <1>3. ASSUME Active(a)' PROVE attempt'[a].lease <= LeaseSeconds
    <2>1. Active(a) => attempt[a].lease <= LeaseSeconds
      BY DEF Outlived
    <2>2. CASE Taken(a) \/ Extended(a)
      BY <2>2, AttemptRecords, Intervals DEF Taken, Extended
    <2>3. CASE Kept(a)
      BY <2>1, <2>3 DEF Kept
    <2>4. CASE GivenUp(a) \/ Aged(a)
      BY <1>t, <2>1, <2>4, Intervals DEF GivenUp, Aged
    <2>5. QED
      BY <1>3, <1>m, <2>2, <2>3, <2>4
  <1>4. ASSUME Active(a)', ~Runs(a)', renewer'[a].pc = "sent"
        PROVE  attempt'[a].idle + renewer'[a].left <= RequestTimeout
    <2>1. CASE Tick
      <3>1. Aged(a) /\ renewer[a].pc = "sent" /\ renewer'[a].left = renewer[a].left - 1 /\ ~Runs(a)
        BY <1>4, <1>m, <1>k, <1>l, <2>1 DEF InFlight, Runs
      <3>2. Active(a) /\ attempt[a].idle + renewer[a].left <= RequestTimeout
        BY <3>1 DEF Aged, Outlived
      <3>3. QED
        BY <1>t, <3>1, <3>2, Intervals DEF Aged
    <2>2. CASE ~Tick
      <3>1. renewer[a].pc = "sent" /\ renewer'[a].left = renewer[a].left
        BY <1>4, <2>2, RenewerMoves DEF InFlight, Runs
      <3>2. Kept(a) \/ GivenUp(a)
        BY <1>4, <1>m, <2>2, <3>1 DEF Taken, Extended
      <3>3. Active(a) /\ attempt'[a].idle = attempt[a].idle
        BY <3>2 DEF Kept, GivenUp
      <3>4. CASE Runs(a)
        BY <1>t, <3>1, <3>3, <3>4, Intervals DEF Outlived, InFlight, Runs, Holds
      <3>5. CASE ~Runs(a)
        BY <3>1, <3>3, <3>5 DEF Outlived
      <3>6. QED
        BY <3>4, <3>5
    <2>3. QED
      BY <2>1, <2>2
  <1>5. ASSUME Active(a)', ~Runs(a)', attempt'[a].lease >= 0 \/ reaper'.pc = "asleep"
        PROVE  attempt'[a].lease + attempt'[a].idle <= LeaseSeconds + RequestTimeout
    <2>1. CASE Tick
      <3>1. Aged(a) /\ ~Runs(a) /\ reaper.pc = "asleep"
        BY <1>5, <1>m, <1>k, <2>1 DEF Runs
      <3>2. Active(a) /\ attempt[a].lease + attempt[a].idle <= LeaseSeconds + RequestTimeout
        BY <3>1 DEF Aged, Outlived
      <3>3. QED
        BY <1>t, <3>1, <3>2, Intervals DEF Aged
    <2>2. CASE Kept(a) /\ Runs(a)
      BY <1>t, <2>2, Intervals DEF Kept, Outlived, Runs, Holds
    <2>3. CASE Kept(a) /\ ~Runs(a)
      <3>1. attempt[a].lease >= 0 \/ reaper.pc = "asleep"
        BY <1>5, <2>3 DEF Kept
      <3>2. QED
        BY <2>3, <3>1 DEF Kept, Outlived
    <2>4. CASE Taken(a)
      BY <2>4, AttemptRecords, Intervals DEF Taken
    <2>5. CASE Extended(a)
      <3>1. ~Runs(a) /\ renewer[a].pc = "sent" /\ Active(a)
        BY <1>5, <2>5 DEF Extended, Runs
      <3>2. attempt[a].idle + renewer[a].left <= RequestTimeout
        BY <3>1 DEF Outlived
      <3>3. QED
        BY <1>t, <2>5, <3>2, Intervals DEF Extended
    <2>6. CASE GivenUp(a)
      BY <1>5, <2>6 DEF GivenUp
    <2>7. QED
      BY <1>5, <1>m, <2>1, <2>2, <2>3, <2>4, <2>5, <2>6
  <1>6. ASSUME Active(a)' PROVE attempt'[a].idle <= RequestTimeout + LeaseSeconds + ReaperInterval
    <2>1. CASE Tick
      <3>1. CASE ~Runs(a)'
        <4>1. reaper'.pc = "asleep"
          BY <1>k, <2>1, Types DEF Tick, Later
        <4>2. attempt'[a].lease + ReaperInterval >= 0
          BY <1>6, <1>t, <4>1, Intervals DEF ReaperOnTime
        <4>3. QED
          BY <1>6, <1>5, <1>t, <3>1, <4>1, <4>2, Intervals
      <3>2. CASE Runs(a)'
        BY <1>2, <1>6, <3>2, Intervals DEF Runs, Holds
      <3>3. QED
        BY <3>1, <3>2
    <2>2. CASE Kept(a) \/ Extended(a) \/ GivenUp(a)
      BY <2>2 DEF Kept, Extended, GivenUp, Outlived
    <2>3. CASE Taken(a)
      BY <2>3, AttemptRecords, Intervals DEF Taken
    <2>4. QED
      BY <1>6, <1>m, <2>1, <2>2, <2>3
  <1>7. QED
    BY <1>1, <1>2, <1>3, <1>4, <1>5, <1>6 DEF Outlived, InFlight

\* The inductive invariant, for any choice of the intervals.
Late == TypeOK /\ Threads /\ InTurn /\ ReaperOnTime /\ LeaseOutlivesRun /\ AbandonedAttemptEnds

LEMMA LateStep == Late /\ [Next]_vars => Late'
  <1> SUFFICES ASSUME Late, [Next]_vars PROVE Late'
    OBVIOUS
  <1>1. TypeOK' /\ Threads' /\ InTurn'
    BY ShapeStep DEF Late
  <1>2. CASE Next
    <2>1. ReaperOnTime'
      BY <1>2, ReaperStaysOnTime DEF Late
    <2>2. \A a \in Attempts : Outlived(a)
      BY OutlivedByAll DEF Late
    <2>3. ASSUME NEW a \in Attempts PROVE Outlived(a)'
      BY <1>1, <1>2, <2>1, <2>2, OutlivedStep DEF Late
    <2>4. LeaseOutlivesRun' /\ AbandonedAttemptEnds'
      BY <2>3 DEF LeaseOutlivesRun, AbandonedAttemptEnds, Outlived, InFlight
    <2>5. QED
      BY <1>1, <2>1, <2>4 DEF Late
  <1>3. CASE UNCHANGED vars
    <2>1. /\ UNCHANGED <<main, renewer, row, attempt, reaper>>
          /\ \A a \in Attempts : (Runs(a)' <=> Runs(a)) /\ (Holds(a)' <=> Holds(a)) /\ (Active(a)' <=> Active(a))
      BY <1>3 DEF vars, Runs, Holds, Active
    <2>2. ReaperOnTime'
      BY <2>1 DEF Late, ReaperOnTime
    <2>3. LeaseOutlivesRun' /\ AbandonedAttemptEnds'
      BY <2>1 DEF Late, LeaseOutlivesRun, AbandonedAttemptEnds
    <2>4. QED
      BY <1>1, <2>2, <2>3 DEF Late
  <1>4. QED
    BY <1>2, <1>3

LEMMA LateAlways == Spec => []Late
  <1>1. Init => Late
    BY ShapeInit, LateInit DEF Late
  <1>2. Late /\ [Next]_vars => Late'
    BY LateStep
  <1>3. QED
    BY <1>1, <1>2, PTL DEF Spec

\* The variables keep their types: no request waits longer than its timeout.
THEOREM TypeCorrect == Spec => []TypeOK
  <1>1. Late => TypeOK
    BY DEF Late
  <1>2. QED
    BY <1>1, LateAlways, PTL

\* A worker shown as ONLINE was heard of within worker_dead_after_seconds and a turn of
\* the reaper: reap_dead_workers finds a process that died, and a registration whose
\* answer was lost, however heartbeats, ticks and registrations interleave.
THEOREM OnlineWorkersAreHeard == Spec => []OnlineMeansHeard
  <1>1. ASSUME Late, NEW r \in Rows, row[r].status = "ONLINE"
        PROVE  row[r].age <= DeadAfter + ReaperInterval
    <2>1. reaper.left \in Nat /\ row[r].age \in Nat
      BY <1>1, Types DEF Late, RowType
    <2>2. row[r].age <= IF reaper.pc = "asleep" THEN DeadAfter + ReaperInterval - reaper.left ELSE DeadAfter
      BY <1>1 DEF Late, ReaperOnTime
    <2>3. QED
      BY <2>1, <2>2, Intervals
  <1>2. Late => OnlineMeansHeard
    BY <1>1 DEF OnlineMeansHeard
  <1>3. QED
    BY <1>2, LateAlways, PTL

\* An attempt that nobody runs any more (the process died, an answer was lost) ends
\* within RequestTimeout + LeaseSeconds + ReaperInterval, whichever requests are still on
\* their way and for any choice of the intervals.
THEOREM AbandonedAttemptsEnd == Spec => []AbandonedAttemptEnds
  <1>1. Late => AbandonedAttemptEnds
    BY DEF Late
  <1>2. QED
    BY <1>1, LateAlways, PTL

-----------------------------------------------------------------------------
(***************************************************************************)
(* A worker that is prompt                                                 *)
(***************************************************************************)
LEMMA SlowCounts ==
    ASSUME TypeOK, Next
    PROVE  /\ slow.beats \in Nat /\ slow.renewals \in Nat /\ slow.claims \in Nat
           /\ slow'.beats \in Nat /\ slow'.renewals \in Nat /\ slow'.claims \in Nat
           /\ slow'.beats >= slow.beats /\ slow'.renewals >= slow.renewals /\ slow'.claims >= slow.claims
           /\ \/ slow'.beats > slow.beats
              \/ slow'.renewals = slow.renewals /\ slow'.claims = slow.claims
              \/ (\E a \in Attempts : Renew(a)) /\ slow'.renewals = slow.renewals + 1 /\ slow'.claims = slow.claims
              \/ (\E a \in Attempts : Claim(a)) /\ slow'.renewals = slow.renewals /\ slow'.claims = slow.claims + 1
  <1>1. slow \in [beats : Nat, renewals : Nat, claims : Nat, others : Nat]
    BY Types
  <1>2. ASSUME Slow("beats") PROVE slow' = [slow EXCEPT !.beats = slow.beats + 1]
    BY <1>2 DEF Slow
  <1>3. ASSUME Slow("renewals") PROVE slow' = [slow EXCEPT !.renewals = slow.renewals + 1]
    BY <1>3 DEF Slow
  <1>4. ASSUME Slow("claims") PROVE slow' = [slow EXCEPT !.claims = slow.claims + 1]
    BY <1>4 DEF Slow
  <1>5. ASSUME Slow("others") PROVE slow' = [slow EXCEPT !.others = slow.others + 1]
    BY <1>5 DEF Slow
  <1>6. \/ slow' = slow \/ Slow("beats") \/ Slow("others")
        \/ Slow("renewals") /\ \E a \in Attempts : Renew(a)
        \/ Slow("claims") /\ \E a \in Attempts : Claim(a)
    BY DEF Next, MainSteps, Register, RegisterAnswered, Claim, ClaimAnswered, RunEnds, Report, Die, BeatSteps, Beat,
       SlowBeatArrives, SlowBeatEnds, RenewerSteps, Renew, SlowRenewalArrives, SlowRenewalEnds, ReapDead, ReapLeases, Tick
  <1>7. QED
    BY <1>1, <1>2, <1>3, <1>4, <1>5, <1>6

\* The intervals that the reaper's patience has to cover.
Patient == HeartbeatInterval <= DeadAfter /\ RequestTimeout <= DeadAfter

\* Its row before the first heartbeat, and between two.
Joins == row[id].status = "ONLINE" /\ row[id].age + main.left <= DeadAfter
Beats == row[id].status = "ONLINE" /\ beat.pc = "asleep" /\ row[id].age + beat.left <= DeadAfter

LEMMA BeatStaysOnTime ==
    ASSUME Patient, Late, BeatOnTime, Next
    PROVE  /\ main'.pc = "joining" => Joins'
           /\ slow'.beats = 0 /\ Registered' => Beats'
  <1>t. /\ row \in [Rows -> RowType] /\ beat \in ThreadType /\ main \in MainType
        /\ id \in Rows \cup {0} /\ TypeOK /\ Threads /\ (slow'.beats = 0 => slow.beats = 0)
    BY SlowCounts, Types DEF Late
  <1>j. main.pc = "joining" => Joins /\ id \in Rows /\ row[id] \in RowType
    BY <1>t DEF BeatOnTime, Threads, Joins
  <1>i. slow'.beats = 0 /\ Registered => Beats /\ id \in Rows /\ row[id] \in RowType
    BY <1>t DEF BeatOnTime, Threads, Beats
  <1>u. ASSUME UNCHANGED <<id, beat>>, row'[id] = row[id], main' = main \/ (Registered /\ main'.pc # "joining")
        PROVE  /\ main'.pc = "joining" => Joins'
               /\ slow'.beats = 0 /\ Registered' => Beats'
    BY <1>i, <1>j, <1>u DEF Joins, Beats, Registered
  <1>1. CASE Register
    <2>1. PICK r \in Rows :
            /\ row' = [row EXCEPT ![r] = [status |-> "ONLINE", age |-> 0]]
            /\ \/ id' = r /\ main' = Polling /\ beat' = Asleep(0)
               \/ id' = r /\ main' = [main EXCEPT !.pc = "joining", !.left = RequestTimeout]
               \/ main' = main
      BY <1>1 DEF Register
    <2>2. row'[r].status = "ONLINE" /\ row'[r].age = 0
      BY <1>t, <2>1
    <2>3. CASE id' = r /\ main' = Polling /\ beat' = Asleep(0)
      BY <2>2, <2>3, MainRecords, ThreadRecords, Intervals DEF Beats
    <2>4. CASE id' = r /\ main' = [main EXCEPT !.pc = "joining", !.left = RequestTimeout]
      <3>1. main'.pc = "joining" /\ main'.left = RequestTimeout
        BY <1>t, <2>4, JoinIs
      <3>2. QED
        BY <2>2, <2>4, <3>1, Intervals DEF Joins, Registered, Patient
    <2>5. CASE main' = main
      BY <1>1, <2>5 DEF Register, Registered
    <2>6. QED
      BY <2>1, <2>3, <2>4, <2>5
  <1>2. CASE RegisterAnswered
    <2>1. main.pc = "joining" /\ main' = Polling /\ beat' = Asleep(0) /\ UNCHANGED <<id, row>>
      BY <1>2 DEF RegisterAnswered
    <2>2. row[id].age \in Nat /\ main.left \in Nat
      BY <1>j, <1>t, <2>1 DEF RowType, MainType
    <2>3. QED
      BY <1>j, <2>1, <2>2, MainRecords, ThreadRecords, Intervals DEF Joins, Beats
  <1>3. ASSUME (\E a \in Attempts : Claim(a)) \/ ClaimAnswered \/ RunEnds \/ Report
        PROVE  UNCHANGED <<id, beat>> /\ row'[id] = row[id] /\ Registered /\ main'.pc # "joining"
    <2>1. UNCHANGED <<id, beat, row>> /\ main.pc \in {"polling", "claimed", "running", "reporting"}
      BY <1>3 DEF Claim, ClaimAnswered, RunEnds, Report
    <2>2. ASSUME NEW a \in Attempts, Claim(a) PROVE main'.pc # "joining"
      BY <2>2, ExecuteIs, AwaitIs DEF Claim
    <2>3. ASSUME ClaimAnswered PROVE main'.pc # "joining"
      BY <1>t, <2>3, ExecuteIs DEF ClaimAnswered, Threads
    <2>4. ASSUME RunEnds \/ Report PROVE main'.pc # "joining"
      BY <1>t, <2>4, MainRecords DEF RunEnds, Report, MainType
    <2>5. QED
      BY <1>3, <2>1, <2>2, <2>3, <2>4 DEF Registered
  <1>4. ASSUME (\E a \in Attempts : RenewerSteps(a)) \/ ReapLeases
        PROVE  UNCHANGED <<main, id, beat>> /\ row'[id] = row[id]
    BY <1>4 DEF RenewerSteps, Renew, SlowRenewalArrives, SlowRenewalEnds, ReapLeases
  <1>5. CASE Die
    <2>1. main'.pc = "dead"
      BY <1>5, Types DEF Die, Polling
    <2>2. QED
      BY <2>1 DEF Registered
  <1>6. CASE BeatSteps
    <2>1. main' = main /\ id' = id /\ main.pc # "joining"
      BY <1>6, <1>t, ThreadRecords DEF BeatSteps, Beat, SlowBeatArrives, SlowBeatEnds, Due, Threads
    <2> SUFFICES ASSUME slow'.beats = 0, Registered' PROVE Beats'
      BY <2>1
    <2>2. ~Slow("beats") /\ Beats /\ id \in Rows
      BY <1>i, <1>t, <2>1, Types DEF Slow, Registered
    <2>3. beat' = Pause /\ row' = Heard
      BY <1>6, <2>2 DEF BeatSteps, Beat, SlowBeatArrives, SlowBeatEnds, Beats
    <2>4. row'[id] = [status |-> "ONLINE", age |-> 0]
      BY <1>t, <2>2, <2>3 DEF Heard
    <2>5. QED
      BY <2>1, <2>3, <2>4, ThreadRecords, Intervals DEF Beats, Patient
  <1>7. CASE ReapDead
    <2>1. /\ UNCHANGED <<main, id, beat>>
          /\ row' = [r \in Rows |-> IF Stale(r) THEN [status |-> "DEAD", age |-> 0] ELSE row[r]]
      BY <1>7 DEF ReapDead
    <2>2. ASSUME main.pc = "joining" \/ (slow'.beats = 0 /\ Registered) PROVE row'[id] = row[id]
      <3>1. row[id].age \in Nat /\ beat.left \in Nat /\ main.left \in Nat /\ id \in Rows
        BY <1>i, <1>j, <1>t, <2>2 DEF RowType, ThreadType, MainType
      <3>2. row[id].age <= DeadAfter
        BY <1>i, <1>j, <2>2, <3>1, Intervals DEF Joins, Beats
      <3>3. QED
        BY <2>1, <3>1, <3>2, Intervals DEF Stale
    <2>3. QED
      BY <1>i, <1>j, <2>1, <2>2 DEF Joins, Beats, Registered
  <1>8. CASE Tick
    <2>1. /\ id' = id /\ MayWait(beat) /\ beat' = Later(beat)
          /\ row' = [r \in Rows |-> IF row[r].status = "ONLINE" THEN [row[r] EXCEPT !.age = @ + 1] ELSE row[r]]
          /\ main'.pc = main.pc
      BY <1>8, <1>t, MainAges DEF Tick
    <2>2. ASSUME id \in Rows, row[id] \in RowType, row[id].status = "ONLINE"
          PROVE  row'[id].status = "ONLINE" /\ row'[id].age = row[id].age + 1 /\ row[id].age \in Nat
      <3>1. row'[id] = [row[id] EXCEPT !.age = row[id].age + 1]
        BY <2>1, <2>2
      <3>2. QED
        BY <2>2, <3>1 DEF RowType
    <2>3. ASSUME main.pc = "joining" PROVE Joins'
      <3>1. main'.left = main.left - 1 /\ main.left \in Nat
        BY <1>8, <1>t, <2>3, MainAges DEF Awaits, MainType
      <3>2. row[id].age + main.left <= DeadAfter
        BY <1>j, <2>3 DEF Joins
      <3>3. QED
        BY <1>j, <2>1, <2>2, <2>3, <3>1, <3>2, Intervals DEF Joins
    <2>4. ASSUME slow'.beats = 0, Registered PROVE Beats'
      <3>1. Beats /\ id \in Rows /\ row[id] \in RowType
        BY <1>i, <2>4
      <3>2. beat.left \in Nat /\ beat' = [beat EXCEPT !.left = beat.left - 1]
        BY <1>t, <2>1, <3>1 DEF Later, ThreadType, Beats
      <3>3. beat'.pc = "asleep" /\ beat'.left = beat.left - 1
        BY <1>t, <3>1, <3>2 DEF ThreadType, Beats
      <3>4. row'[id].status = "ONLINE" /\ row'[id].age = row[id].age + 1 /\ row[id].age \in Nat
        BY <2>2, <3>1 DEF Beats
      <3>5. row[id].age + beat.left <= DeadAfter
        BY <3>1 DEF Beats
      <3>6. QED
        BY <2>1, <3>2, <3>3, <3>4, <3>5, Intervals DEF Beats
    <2>5. QED
      BY <2>1, <2>3, <2>4 DEF Registered
  <1>9. QED
    BY <1>1, <1>2, <1>3, <1>4, <1>5, <1>6, <1>7, <1>8, <1>u DEF Next, MainSteps

LEMMA PunctualStep == Patient /\ Late /\ BeatOnTime /\ [Next]_vars => BeatOnTime'
  <1>1. ASSUME Patient, Late, BeatOnTime, Next PROVE BeatOnTime'
    BY <1>1, BeatStaysOnTime DEF BeatOnTime, Joins, Beats
  <1>2. ASSUME BeatOnTime, UNCHANGED vars PROVE BeatOnTime'
    BY <1>2 DEF vars, BeatOnTime, Registered
  <1>3. QED
    BY <1>1, <1>2

LEMMA PunctualAlways == ASSUME Patient PROVE Spec => [](Late /\ BeatOnTime)
  <1>1. Init => BeatOnTime
    BY DEF Init, BeatOnTime, Registered, Polling
  <1>2. BeatOnTime /\ Late /\ [Next]_vars => BeatOnTime'
    BY PunctualStep
  <1>3. QED
    BY <1>1, <1>2, LateAlways, PTL DEF Spec

\* A worker whose heartbeats go through is never marked dead, however long its builds
\* take and whatever happens to its other requests, its registration included, if it sends
\* them at least as often as worker_dead_after_seconds, which is also the longest that it
\* waits for the answer to its registration.
THEOREM PunctualWorkersStayOnline ==
    ASSUME Patient
    PROVE  Spec => []PunctualWorkerIsOnline
  <1>1. BeatOnTime => PunctualWorkerIsOnline
    BY DEF BeatOnTime, PunctualWorkerIsOnline
  <1>2. QED
    BY <1>1, PunctualAlways, PTL

\* The parts of LeaseInHand: about the run of a, and about a claim on its way.
Reserve(a) ==
    CASE slow.renewals = 0 /\ slow.claims = 0 -> LeaseSeconds - HeartbeatInterval
      [] slow.claims = 1 \/ (slow.renewals = 1 /\ renewer[a].pc # "asleep") ->
           LeaseSeconds - HeartbeatInterval - RequestTimeout
      [] OTHER -> LeaseSeconds - 2 * HeartbeatInterval - RequestTimeout
InHand(a) == /\ Active(a)
             /\ attempt[a].lease - renewer[a].left >= Reserve(a)
             /\ slow.renewals = 0 => renewer[a].pc = "asleep"
Coming == /\ slow.claims = 1 /\ Active(main.attempt) /\ main.left <= RequestTimeout
          /\ attempt[main.attempt].lease - main.left >= LeaseSeconds - RequestTimeout
Timely == 2 * HeartbeatInterval + RequestTimeout <= LeaseSeconds
Smooth == slow.beats = 0 /\ slow.renewals + slow.claims <= 1
Counts == <<slow.renewals, slow.claims>> \in {<<0, 0>>, <<1, 0>>, <<0, 1>>}

LEMMA InHandOfAll ==
    LeaseInHand <=> (Smooth => /\ main.pc = "claimed" => Coming
                               /\ \A a \in Attempts : Runs(a) => InHand(a))
  BY DEF LeaseInHand, Smooth, InHand, Reserve, Coming

LEMMA CountsAre ==
    ASSUME NEW r \in Nat, NEW c \in Nat, r + c <= 1
    PROVE  <<r, c>> \in {<<0, 0>>, <<1, 0>>, <<0, 1>>}
  <1>1. (r = 0 /\ c = 0) \/ (r = 1 /\ c = 0) \/ (r = 0 /\ c = 1)
    OBVIOUS
  <1>2. QED
    BY <1>1

\* The reserve by cases.
LEMMA ReserveIs ==
    ASSUME NEW a \in Attempts, Counts
    PROVE  /\ slow.renewals = 0 /\ slow.claims = 0 => Reserve(a) = LeaseSeconds - HeartbeatInterval
           /\ slow.claims = 1 \/ (slow.renewals = 1 /\ renewer[a].pc # "asleep") =>
                 Reserve(a) = LeaseSeconds - HeartbeatInterval - RequestTimeout
           /\ slow.renewals = 1 /\ renewer[a].pc = "asleep" =>
                 Reserve(a) = LeaseSeconds - 2 * HeartbeatInterval - RequestTimeout
  <1>1. (slow.renewals = 0 /\ slow.claims = 0) \/ (slow.renewals = 1 /\ slow.claims = 0)
        \/ (slow.renewals = 0 /\ slow.claims = 1)
    BY DEF Counts
  <1>2. QED
    BY <1>1, Intervals DEF Reserve

LEMMA ReserveWillBe ==
    ASSUME NEW a \in Attempts, Counts'
    PROVE  /\ slow'.renewals = 0 /\ slow'.claims = 0 => Reserve(a)' = LeaseSeconds - HeartbeatInterval
           /\ slow'.claims = 1 \/ (slow'.renewals = 1 /\ renewer'[a].pc # "asleep") =>
                 Reserve(a)' = LeaseSeconds - HeartbeatInterval - RequestTimeout
           /\ slow'.renewals = 1 /\ renewer'[a].pc = "asleep" =>
                 Reserve(a)' = LeaseSeconds - 2 * HeartbeatInterval - RequestTimeout
           /\ Reserve(a)' \in Int /\ Reserve(a)' <= LeaseSeconds - HeartbeatInterval
  <1>1. (slow'.renewals = 0 /\ slow'.claims = 0) \/ (slow'.renewals = 1 /\ slow'.claims = 0)
        \/ (slow'.renewals = 0 /\ slow'.claims = 1)
    BY DEF Counts
  <1>2. QED
    BY <1>1, Intervals DEF Reserve

\* Of a worker whose requests, but for one, go through: its row is ONLINE, and how the
\* counts of the slow ones go on.
LEMMA SmoothStep ==
    ASSUME Late, BeatOnTime, LeaseInHand, Next, Smooth'
    PROVE  /\ slow.beats = 0 /\ slow'.beats = 0 /\ Counts /\ Counts' /\ Smooth
           /\ slow.renewals <= slow'.renewals /\ slow.claims <= slow'.claims
           /\ main.pc = "claimed" => Coming /\ main.attempt \in Attempts /\ main.left \in Nat
           /\ Registered => Beats
  <1>1. TypeOK
    BY DEF Late
  <1>2. /\ slow.beats \in Nat /\ slow.renewals \in Nat /\ slow.claims \in Nat
        /\ slow'.beats \in Nat /\ slow'.renewals \in Nat /\ slow'.claims \in Nat
        /\ slow'.beats >= slow.beats /\ slow'.renewals >= slow.renewals /\ slow'.claims >= slow.claims
    BY <1>1, SlowCounts
  <1>3. slow'.beats = 0 /\ slow'.renewals + slow'.claims <= 1
    BY DEF Smooth
  <1>4. slow.beats = 0 /\ slow.renewals + slow.claims <= 1
    BY <1>2, <1>3
  <1>5. Counts /\ Counts'
    BY <1>2, <1>3, <1>4, CountsAre DEF Counts
  <1>6. main.pc = "claimed" => Coming /\ main.attempt \in Attempts /\ main.left \in Nat
    BY <1>1, <1>4, InHandOfAll, Types DEF Smooth, Late, Threads, MainType
  <1>7. Registered => Beats
    BY <1>4 DEF BeatOnTime, Beats
  <1>8. QED
    BY <1>2, <1>3, <1>4, <1>5, <1>6, <1>7 DEF Smooth

\* The reaper leaves such a worker, and the leases it has in hand, alone.
LEMMA NotGivenUp ==
    ASSUME Late, Registered, Beats, ReapDead
    PROVE  UNCHANGED <<main, id, renewer, attempt, slow>>
  <1>1. id \in Rows /\ row[id] \in RowType /\ beat \in ThreadType
    BY Types DEF Late, Threads
  <1>2. ~Stale(id)
    BY <1>1, Intervals DEF Beats, Stale, RowType, ThreadType
  <1>3. QED
    BY <1>2 DEF ReapDead

LEMMA NotReaped ==
    ASSUME Late, ReapLeases, NEW a \in Attempts, Active(a), attempt[a].lease >= 0
    PROVE  attempt'[a] = attempt[a]
  <1> DEFINE S == {b \in Attempts : Expired(b)}
  <1>1. attempt \in [Attempts -> AttemptType] /\ attempt' = Ended(S, "infra")
    BY Types DEF Late, ReapLeases
  <1>2. a \notin S /\ S \in SUBSET Attempts
    BY <1>1 DEF Expired, AttemptType
  <1>3. a - 1 \notin S
    BY Intervals DEF Expired, Active, Late, InTurn, Verdict
  <1> HIDE DEF S
  <1>4. QED
    BY <1>1, <1>2, <1>3, EndedIs DEF Verdict, Active

\* A claim on its way: the lease is at most as old as the wait for the answer.
LEMMA ComingStep ==
    ASSUME Patient, Timely, Late, BeatOnTime, LeaseInHand, Next, Smooth', main'.pc = "claimed"
    PROVE  Coming'
  <1>t. /\ attempt \in [Attempts -> AttemptType] /\ renewer \in [Attempts -> ThreadType] /\ main \in MainType
        /\ slow.renewals \in Nat /\ slow.claims \in Nat /\ TypeOK /\ Threads
    BY Types DEF Late
  <1>n. /\ Counts' /\ slow.renewals <= slow'.renewals /\ slow.claims <= slow'.claims
        /\ Registered => Beats
        /\ main.pc = "claimed" =>
              /\ slow.claims = 1 /\ Active(main.attempt) /\ main.left <= RequestTimeout
              /\ attempt[main.attempt].lease - main.left >= LeaseSeconds - RequestTimeout
              /\ main.attempt \in Attempts /\ main.left \in Nat /\ Registered /\ slow'.claims = 1
              /\ attempt[main.attempt].lease \in Int
    BY <1>t, SmoothStep DEF Coming, Counts, Registered, AttemptType
  <1>k. ASSUME main' = main, attempt'[main.attempt].status = "active",
               attempt'[main.attempt].lease = attempt[main.attempt].lease
                 \/ attempt'[main.attempt].lease = LeaseSeconds
        PROVE  Coming'
    <2>1. attempt'[main.attempt].lease - main.left >= LeaseSeconds - RequestTimeout
      BY <1>k, <1>n, Intervals
    <2>2. QED
      BY <1>k, <1>n, <2>1 DEF Coming, Active
  <1>1. ASSUME NEW b \in Attempts, Claim(b) PROVE Coming'
    <2>1. attempt' = [attempt EXCEPT ![b] = Leased] /\ main.pc = "polling"
      BY <1>1 DEF Claim
    <2>2. Slow("claims") /\ main' = [Polling EXCEPT !.pc = "claimed", !.attempt = b, !.left = RequestTimeout]
      BY <1>1, <2>1, ExecuteIs DEF Claim
    <2>3. main'.attempt = b /\ main'.left = RequestTimeout
      BY <2>2, AwaitIs
    <2>4. slow'.claims = slow.claims + 1
      BY <1>t, <2>2, Types DEF Slow
    <2>5. slow'.claims = 1
      BY <1>n, <1>t, <2>4 DEF Counts
    <2>6. attempt'[b] = Leased
      BY <1>t, <2>1
    <2>7. QED
      BY <2>3, <2>5, <2>6, AttemptRecords, Intervals DEF Coming, Active
  <1>2. CASE Register \/ RegisterAnswered \/ RunEnds \/ Report \/ Die
    BY <1>2, <1>t, MainRecords, JoinIs DEF Register, RegisterAnswered, RunEnds, Report, Die, Polling, MainType
  <1>3. CASE ClaimAnswered
    BY <1>3, <1>n, ExecuteIs DEF ClaimAnswered
  <1>4. CASE BeatSteps
    BY <1>4, <1>k, <1>n DEF BeatSteps, Beat, SlowBeatArrives, SlowBeatEnds, Active
  <1>5. ASSUME NEW b \in Attempts, RenewerSteps(b) PROVE Coming'
    <2>1. main' = main /\ attempt' \in {attempt, Renewed(b)}
      BY <1>5 DEF RenewerSteps, Renew, SlowRenewalArrives, SlowRenewalEnds
    <2>2. CASE attempt' = attempt
      BY <1>k, <1>n, <2>1, <2>2 DEF Active
    <2>3. CASE attempt' = [attempt EXCEPT ![b].lease = LeaseSeconds]
      <3> DEFINE new == [attempt[b] EXCEPT !.lease = LeaseSeconds]
      <3>1. new.lease = LeaseSeconds /\ new.status = attempt[b].status
        BY <1>t DEF AttemptType
      <3>2. attempt' = [attempt EXCEPT ![b] = new]
        BY <1>t, <2>3
      <3> HIDE DEF new
      <3>3. QED
        BY <1>k, <1>n, <1>t, <2>1, <3>1, <3>2 DEF Active
    <2>4. QED
      BY <2>1, <2>2, <2>3 DEF Renewed
  <1>6. CASE ReapDead
    <2>1. main' = main /\ attempt' = attempt
      BY <1>6, <1>n, NotGivenUp DEF ReapDead
    <2>2. QED
      BY <1>k, <1>n, <2>1 DEF Active
  <1>7. CASE ReapLeases
    <2>1. main' = main
      BY <1>7 DEF ReapLeases
    <2>2. attempt[main.attempt].lease >= 0
      BY <1>n, <2>1, Intervals DEF Timely
    <2>3. attempt'[main.attempt] = attempt[main.attempt]
      BY <1>7, <1>n, <2>1, <2>2, NotReaped
    <2>4. QED
      BY <1>k, <1>n, <2>1, <2>3 DEF Active
  <1>8. CASE Tick
    <2> DEFINE a == main.attempt
    <2>1. /\ main.pc = "claimed" /\ main'.attempt = a /\ main'.left = main.left - 1 /\ slow' = slow
      BY <1>8, <1>t, MainAges DEF Awaits, Tick
    <2>2. attempt[a] \in AttemptType /\ attempt[a].status = "active" /\ Holds(a)
      BY <1>n, <1>t, <2>1 DEF Active, Holds
    <2>3. attempt'[a] = [attempt[a] EXCEPT !.lease = attempt[a].lease - 1, !.idle = 0]
      BY <1>8, <1>n, <2>1, <2>2 DEF Tick, Active
    <2>4. attempt'[a].status = "active" /\ attempt'[a].lease = attempt[a].lease - 1
      BY <2>2, <2>3 DEF AttemptType
    <2> HIDE DEF a
    <2>5. attempt[a].lease - main.left >= LeaseSeconds - RequestTimeout /\ attempt[a].lease \in Int
          /\ main.left \in Nat /\ main.left <= RequestTimeout
      BY <1>n, <2>1 DEF a
    <2>6. QED
      BY <1>n, <2>1, <2>4, <2>5, Intervals DEF Coming, Active
  <1>9. QED
    BY <1>1, <1>2, <1>3, <1>4, <1>5, <1>6, <1>7, <1>8 DEF Next, MainSteps

LEMMA InHandStep ==
    ASSUME Patient, Timely, Late, BeatOnTime, LeaseInHand, Next, Late', Smooth',
           NEW a \in Attempts, Runs(a)'
    PROVE  InHand(a)'
  <1>t. /\ attempt \in [Attempts -> AttemptType] /\ renewer \in [Attempts -> ThreadType]
        /\ renewer'[a].left \in Nat /\ TypeOK /\ Threads /\ main \in MainType
        /\ slow.renewals \in Nat /\ slow.claims \in Nat /\ slow'.renewals \in Nat /\ slow'.claims \in Nat
    BY SlowCounts, Types DEF Late, TypeOK, ThreadType, ThreadPc
  <1>n. /\ slow.beats = 0 /\ slow'.beats = 0 /\ Counts /\ Counts' /\ Smooth
        /\ slow.renewals <= slow'.renewals /\ slow.claims <= slow'.claims
        /\ main.pc = "claimed" => Coming /\ main.attempt \in Attempts /\ main.left \in Nat
        /\ Registered => Beats
    BY SmoothStep
  <1>i. Runs(a) => /\ InHand(a) /\ Active(a) /\ attempt[a].lease - renewer[a].left >= Reserve(a)
                   /\ slow.renewals = 0 => renewer[a].pc = "asleep"
                   /\ attempt[a].lease \in Int /\ renewer[a].left \in Nat /\ renewer[a] \in ThreadType
                   /\ attempt[a] \in AttemptType
    BY <1>n, <1>t, InHandOfAll DEF InHand, AttemptType, ThreadType
  <1>k. ASSUME Runs(a), attempt'[a] = attempt[a], renewer'[a] = renewer[a],
               slow'.renewals = slow.renewals, slow'.claims = slow.claims
        PROVE  InHand(a)'
    BY <1>i, <1>k DEF InHand, Active, Reserve
  <1>f. ASSUME attempt'[a].status = "active", attempt'[a].lease = LeaseSeconds,
               renewer'[a] = Asleep(0) \/ renewer'[a] = Pause
        PROVE  InHand(a)'
    <2>1. renewer'[a].pc = "asleep" /\ renewer'[a].left <= HeartbeatInterval
      BY <1>f, ThreadRecords, Intervals
    <2>2. Reserve(a)' \in Int /\ Reserve(a)' <= LeaseSeconds - HeartbeatInterval
      BY <1>n, ReserveWillBe
    <2>3. LeaseSeconds - renewer'[a].left >= Reserve(a)'
      BY <1>t, <2>1, <2>2, Intervals
    <2>4. QED
      BY <1>f, <2>1, <2>3 DEF InHand, Active
  <1>1. CASE Register \/ RegisterAnswered \/ RunEnds \/ Report \/ Die
    <2>1. (main' = main /\ main.pc = "registering") \/ main'.pc # "running"
      BY <1>1, <1>t, MainRecords, JoinIs DEF Register, RegisterAnswered, RunEnds, Report, Die, Polling, MainType
    <2>2. QED
      BY <2>1 DEF Runs
  <1>2. ASSUME NEW b \in Attempts, Claim(b) PROVE InHand(a)'
    <2>1. attempt' = [attempt EXCEPT ![b] = Leased] /\ main.pc = "polling"
      BY <1>2 DEF Claim
    <2>2. Execute(b)
      BY <1>2, <2>1, AwaitIs DEF Claim, Runs
    <2>3. a = b /\ renewer' = [renewer EXCEPT ![b] = Asleep(0)]
      BY <2>2, ExecuteIs DEF Runs
    <2>4. attempt'[a] = Leased /\ renewer'[a] = Asleep(0)
      BY <1>t, <2>1, <2>3
    <2>5. QED
      BY <1>f, <2>4, AttemptRecords
  <1>a. CASE ClaimAnswered
    <2>1. /\ main.pc = "claimed" /\ main.attempt \in Attempts /\ Coming /\ main.left \in Nat
          /\ Execute(main.attempt) /\ attempt' = attempt /\ slow' = slow
      BY <1>a, <1>n DEF ClaimAnswered
    <2>2. a = main.attempt /\ renewer' = [renewer EXCEPT ![main.attempt] = Asleep(0)]
      BY <2>1, ExecuteIs DEF Runs
    <2>3. renewer'[a] = Asleep(0) /\ slow'.claims = 1 /\ slow'.renewals = 0
      BY <1>n, <1>t, <2>1, <2>2 DEF Coming, Counts
    <2>4. Reserve(a)' = LeaseSeconds - HeartbeatInterval - RequestTimeout
      BY <1>n, <2>3, ReserveWillBe
    <2>5. attempt[a].lease \in Int /\ attempt[a].lease - main.left >= LeaseSeconds - RequestTimeout
      BY <1>t, <2>1, <2>2 DEF Coming, AttemptType
    <2>6. attempt'[a].lease - renewer'[a].left >= Reserve(a)'
      BY <2>1, <2>3, <2>4, <2>5, ThreadRecords, Intervals
    <2>7. QED
      BY <2>1, <2>2, <2>3, <2>6, ThreadRecords DEF InHand, Coming, Active
  <1>3. CASE BeatSteps
    <2>1. UNCHANGED <<main, attempt, renewer>> /\ (slow' = slow \/ Slow("beats"))
      BY <1>3 DEF BeatSteps, Beat, SlowBeatArrives, SlowBeatEnds
    <2>2. ~Slow("beats")
      BY <1>n, <1>t, Types DEF Slow
    <2>3. QED
      BY <1>k, <2>1, <2>2 DEF Runs
  <1>4. ASSUME NEW b \in Attempts, RenewerSteps(b), a # b PROVE InHand(a)'
    <2>1. Runs(a) /\ ~Runs(b) /\ attempt'[a] = attempt[a] /\ renewer'[a] = renewer[a]
      BY <1>4, <1>t DEF RenewerSteps, Renew, SlowRenewalArrives, SlowRenewalEnds, Renewed, Runs
    <2>2. ~Renew(b)
      BY <1>t, <2>1 DEF Renew, Due, Threads
    <2>3. slow' = slow
      BY <1>4, <2>2 DEF RenewerSteps, SlowRenewalArrives, SlowRenewalEnds
    <2>4. QED
      BY <1>k, <2>1, <2>3
  <1>r. Runs(a) => /\ Renewed(a) = [attempt EXCEPT ![a].lease = LeaseSeconds]
                   /\ Renewed(a)[a].status = "active" /\ Renewed(a)[a].lease = LeaseSeconds
    <2>1. Runs(a) => Renewed(a) = [attempt EXCEPT ![a].lease = LeaseSeconds]
      BY <1>i DEF Renewed
    <2>2. Runs(a) => Renewed(a)[a] = [attempt[a] EXCEPT !.lease = LeaseSeconds]
      BY <1>t, <2>1
    <2>3. QED
      BY <1>i, <2>1, <2>2 DEF AttemptType, Active
  <1>5. CASE Renew(a)
    <2>1. Runs(a) /\ renewer[a].pc = "asleep" /\ renewer[a].left = 0
      BY <1>5 DEF Renew, Due, Runs
    <2>2. CASE renewer' = [renewer EXCEPT ![a] = Pause] /\ attempt' = Renewed(a)
      BY <1>f, <1>r, <1>t, <2>1, <2>2
    <2>3. CASE Slow("renewals") /\ renewer' = [renewer EXCEPT ![a] = Sent] /\ attempt' = attempt
      <3>1. slow'.renewals = slow.renewals + 1
        BY <1>t, <2>3, Types DEF Slow
      <3>2. slow.renewals = 0 /\ slow'.renewals = 1 /\ slow.claims = 0 /\ slow'.claims = 0
        BY <1>n, <1>t, <3>1 DEF Counts
      <3>3. attempt[a].lease >= LeaseSeconds - HeartbeatInterval
        BY <1>i, <1>n, <2>1, <3>2, ReserveIs, Intervals
      <3>4. renewer'[a] = Sent
        BY <1>t, <2>3
      <3>5. Reserve(a)' = LeaseSeconds - HeartbeatInterval - RequestTimeout
        BY <1>n, <3>2, <3>4, ReserveWillBe, ThreadRecords
      <3>6. attempt'[a].lease - renewer'[a].left >= Reserve(a)'
        BY <1>i, <2>1, <2>3, <3>3, <3>4, <3>5, ThreadRecords, Intervals
      <3>7. QED
        BY <1>i, <2>1, <2>3, <3>2, <3>6 DEF InHand, Active
    <2>4. QED
      BY <1>5, <2>2, <2>3 DEF Renew
  <1>6. CASE SlowRenewalArrives(a)
    <2>1. /\ Runs(a) /\ renewer[a].pc = "sent" /\ attempt' = Renewed(a) /\ slow' = slow
          /\ renewer' = [renewer EXCEPT ![a] = [renewer[a] EXCEPT !.pc = "handled"]]
      BY <1>6, <1>t DEF SlowRenewalArrives, Runs, ThreadType
    <2>2. renewer'[a] = [renewer[a] EXCEPT !.pc = "handled"]
      BY <1>t, <2>1
    <2>3. renewer'[a].pc = "handled" /\ renewer'[a].left = renewer[a].left
      BY <1>i, <2>1, <2>2 DEF ThreadType
    <2>4. renewer[a].left <= RequestTimeout
      BY <2>1 DEF Late, LeaseOutlivesRun
    <2>5. slow'.renewals = 1
      BY <1>i, <1>n, <2>1 DEF Counts
    <2>6. Reserve(a)' = LeaseSeconds - HeartbeatInterval - RequestTimeout
      BY <1>n, <2>3, <2>5, ReserveWillBe
    <2>7. LeaseSeconds - renewer'[a].left >= Reserve(a)'
      BY <1>t, <2>3, <2>4, <2>6, Intervals
    <2>8. QED
      BY <1>r, <2>1, <2>5, <2>7 DEF InHand, Active
  <1>7. CASE SlowRenewalEnds(a)
    <2>1. /\ Runs(a) /\ renewer[a].pc # "asleep" /\ attempt' = attempt /\ slow' = slow
          /\ renewer' = [renewer EXCEPT ![a] = Pause]
      BY <1>7 DEF SlowRenewalEnds, Runs
    <2>2. slow.renewals = 1 /\ slow'.renewals = 1 /\ renewer'[a] = Pause
      BY <1>i, <1>n, <1>t, <2>1 DEF Counts
    <2>3. attempt[a].lease >= LeaseSeconds - HeartbeatInterval - RequestTimeout
      BY <1>i, <1>n, <2>1, <2>2, ReserveIs, Intervals
    <2>4. Reserve(a)' = LeaseSeconds - 2 * HeartbeatInterval - RequestTimeout
      BY <1>n, <2>2, ReserveWillBe, ThreadRecords
    <2>5. attempt'[a].lease - renewer'[a].left >= Reserve(a)'
      BY <1>i, <2>1, <2>2, <2>3, <2>4, ThreadRecords, Intervals
    <2>6. QED
      BY <1>i, <2>1, <2>2, <2>5 DEF InHand, Active
  <1>8. CASE ReapDead
    <2>1. main' = main
      BY <1>8 DEF ReapDead
    <2>2. Runs(a) /\ Registered
      BY <2>1 DEF Runs, Registered
    <2>3. UNCHANGED <<renewer, attempt, slow>>
      BY <1>8, <1>n, <2>2, NotGivenUp
    <2>4. QED
      BY <1>k, <2>2, <2>3
  <1>9. CASE ReapLeases
    <2>1. UNCHANGED <<main, renewer, slow>>
      BY <1>9 DEF ReapLeases
    <2>2. Runs(a)
      BY <2>1 DEF Runs
    <2>3. Reserve(a) >= 0 /\ Reserve(a) \in Int
      <3>1. (slow.renewals = 0 /\ slow.claims = 0) \/ slow.claims = 1 \/ slow.renewals = 1
        BY <1>n DEF Counts
      <3>2. QED
        BY <1>n, <3>1, ReserveIs, Intervals DEF Timely
    <2>4. attempt[a].lease >= 0
      BY <1>i, <2>2, <2>3
    <2>5. attempt'[a] = attempt[a]
      BY <1>9, <1>i, <2>2, <2>4, NotReaped
    <2>6. QED
      BY <1>k, <2>1, <2>2, <2>5
  <1>10. CASE Tick
    <2> DEFINE e == attempt[a]
    <2>1. slow' = slow /\ MayWait(renewer[a]) /\ renewer'[a] = Later(renewer[a])
      BY <1>10 DEF Tick
    <2>2. Runs(a) /\ Holds(a) /\ renewer[a].pc # "off"
      BY <1>10, <1>t, MainAges DEF Runs, Holds, Threads
    <2>3. renewer[a].left > 0 /\ renewer'[a] = [renewer[a] EXCEPT !.left = renewer[a].left - 1]
      BY <2>1, <2>2 DEF MayWait, Later
    <2>4. renewer'[a].pc = renewer[a].pc /\ renewer'[a].left = renewer[a].left - 1
      BY <1>i, <2>2, <2>3 DEF ThreadType
    <2>5. attempt'[a] = [e EXCEPT !.lease = e.lease - 1, !.idle = 0]
      BY <1>10, <1>i, <2>2 DEF Tick
    <2>6. attempt'[a].lease = attempt[a].lease - 1 /\ attempt'[a].status = "active"
      BY <1>i, <2>2, <2>5 DEF AttemptType, Active
    <2>7. Reserve(a)' = Reserve(a)
      BY <2>1, <2>4 DEF Reserve
    <2>8. attempt'[a].lease - renewer'[a].left = attempt[a].lease - renewer[a].left
      BY <1>i, <2>2, <2>4, <2>6
    <2>9. QED
      BY <1>i, <2>1, <2>2, <2>4, <2>6, <2>7, <2>8 DEF InHand, Active
  <1>11. QED
    BY <1>1, <1>2, <1>a, <1>3, <1>4, <1>5, <1>6, <1>7, <1>8, <1>9, <1>10 DEF Next, MainSteps, RenewerSteps

\* A run keeps its lease, however long it takes, also when the answer to its claim, or to
\* one of its renewals, takes as long as the client waits, if two pauses and a timeout fit
\* into the lease and the reaper is at least as patient as a pause and as a timeout.
THEOREM RunsKeepTheirLeases ==
    ASSUME Patient, Timely
    PROVE  Spec => []RunKeepsItsLease
  <1>1. Init => LeaseInHand
    BY DEF Init, LeaseInHand, Runs, Polling
  <1>2. Late /\ BeatOnTime /\ LeaseInHand /\ [Next]_vars => LeaseInHand'
    <2> SUFFICES ASSUME Late, BeatOnTime, LeaseInHand, [Next]_vars PROVE LeaseInHand'
      OBVIOUS
    <2>1. Late'
      BY LateStep
    <2>2. CASE Next
      <3>1. ASSUME Smooth', NEW a \in Attempts, Runs(a)' PROVE InHand(a)'
        BY <2>1, <2>2, <3>1, InHandStep
      <3>2. ASSUME Smooth', main'.pc = "claimed" PROVE Coming'
        BY <2>2, <3>2, ComingStep
      <3>3. QED
        BY <3>1, <3>2 DEF LeaseInHand, Smooth, InHand, Reserve, Coming
    <2>3. CASE UNCHANGED vars
      BY <2>3 DEF vars, LeaseInHand, Runs, Active
    <2>4. QED
      BY <2>2, <2>3
  <1>3. Late /\ LeaseInHand => RunKeepsItsLease
    <2> SUFFICES ASSUME Late, LeaseInHand, Smooth, NEW a \in Attempts, Runs(a)
                 PROVE  Active(a) /\ ~Expired(a)
      BY DEF RunKeepsItsLease, Smooth
    <2>1. InHand(a) /\ attempt[a] \in AttemptType /\ renewer[a] \in ThreadType
      BY InHandOfAll, Types DEF Late
    <2>2. Counts
      BY CountsAre, Types DEF Late, Smooth, Counts
    <2>3. Reserve(a) >= 0 /\ Reserve(a) \in Int
      <3>1. (slow.renewals = 0 /\ slow.claims = 0) \/ slow.claims = 1 \/ slow.renewals = 1
        BY <2>2 DEF Counts
      <3>2. QED
        BY <2>2, <3>1, ReserveIs, Intervals DEF Timely
    <2>4. attempt[a].lease >= 0
      BY <2>1, <2>3 DEF InHand, AttemptType, ThreadType
    <2>5. QED
      BY <2>1, <2>4 DEF InHand, Expired, AttemptType
  <1>4. QED
    BY <1>1, <1>2, <1>3, PunctualAlways, PTL DEF Spec
=============================================================================
