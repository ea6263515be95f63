-------------------------- MODULE LogStreamProofs ---------------------------
(***************************************************************************)
(* Theorems about LogStream: for any number of chunks, any length of the   *)
(* tail and any faults, as long as no post times out.                      *)
(***************************************************************************)
EXTENDS LogStream, SequenceTheorems, TLAPS

Request == [pc : {"none", "sent", "lost", "read", "committed", "done"}, seen : Seq(Chunk)]
ReportType == [pc : {"none", "sent", "lost", "read", "tailed", "done"}, seen : Seq(Chunk)]
Viewer == [pc : {"off", "snapshot", "live", "dropped"}, shown : Seq(Chunk)]

LEMMA Sizes == MaxChunks \in Nat /\ MaxChunks > 0 /\ TailSize \in Nat /\ TailSize > 0
  BY SizeAssumption

LEMMA Types == TypeOK <=>
    /\ buffer \in 0..MaxChunks /\ posting \in 0..MaxChunks /\ faults \in Seq(Faults)
    /\ handler \in [Chunk -> Request] /\ report \in ReportType
    /\ stored \in Seq(Chunk) /\ lease \in {"held", "reaped", "finished"} /\ viewer \in Viewer
  BY DEF TypeOK, Request, ReportType, Viewer

LEMMA TypesThen == TypeOK' <=>
    /\ buffer' \in 0..MaxChunks /\ posting' \in 0..MaxChunks /\ faults' \in Seq(Faults)
    /\ handler' \in [Chunk -> Request] /\ report' \in ReportType
    /\ stored' \in Seq(Chunk) /\ lease' \in {"held", "reaped", "finished"} /\ viewer' \in Viewer
  BY DEF TypeOK, Request, ReportType, Viewer

\* A fault is added to the log of faults, and the log never forgets one.
LEMMA FaultIs ==
    ASSUME NEW kind, faults \in Seq(Faults), Fault(kind)
    PROVE  /\ faults' \in Seq(Faults) /\ Happened(kind)'
           /\ \A k : Happened(k) => Happened(k)'
  <1>1. kind \in Faults /\ faults' = Append(faults, kind)
    BY DEF Fault
  <1>2. /\ faults' \in Seq(Faults) /\ Len(faults') = Len(faults) + 1 /\ Len(faults) \in Nat
        /\ \A i \in 1..Len(faults) : faults'[i] = faults[i]
        /\ faults'[Len(faults) + 1] = kind
    BY <1>1, AppendProperties, LenProperties
  <1>3. QED
    BY <1>2 DEF Happened

\* The last chunks of the buffer, in order.
LEMMA TailIs ==
    ASSUME buffer \in 0..MaxChunks
    PROVE  LET n == IF buffer > TailSize THEN TailSize ELSE buffer IN
           /\ n \in Nat /\ n <= buffer /\ Tail50 \in Seq(Chunk) /\ Len(Tail50) = n
           /\ \A i \in 1..n : Tail50[i] = buffer - n + i
  <1> DEFINE n == IF buffer > TailSize THEN TailSize ELSE buffer
  <1>1. /\ n \in Nat /\ n <= buffer /\ buffer \in Nat
        /\ FirstOfTail = buffer - n + 1
    BY Sizes DEF FirstOfTail
  <1>2. Tail50 = [i \in 1..n |-> buffer - n + i]
    <2>1. buffer - FirstOfTail + 1 = n
      BY <1>1
    <2>2. \A i \in 1..n : FirstOfTail + i - 1 = buffer - n + i
      BY <1>1
    <2> HIDE DEF n
    <2>3. QED
      BY <2>1, <2>2 DEF Tail50
  <1>3. \A i \in 1..n : buffer - n + i \in Chunk
    BY <1>1, Sizes DEF Chunk
  <1> HIDE DEF n
  <1>4. Tail50 \in Seq(Chunk) /\ Len(Tail50) = n
    BY <1>1, <1>2, <1>3
  <1>5. QED
    BY <1>1, <1>2, <1>4 DEF n

(***************************************************************************)
(* Types                                                                   *)
(***************************************************************************)
LEMMA TypeInit == Init => TypeOK
  <1> SUFFICES ASSUME Init PROVE TypeOK
    OBVIOUS
  <1>1. << >> \in Seq(Chunk) /\ << >> \in Seq(Faults)
    BY EmptySeq
  <1>2. Idle \in Request /\ Idle \in ReportType /\ [pc |-> "off", shown |-> << >>] \in Viewer
    BY <1>1 DEF Idle, Request, ReportType, Viewer
  <1>3. QED
    BY <1>1, <1>2, Sizes, Types DEF Init

LEMMA AppendTypes ==
    ASSUME TypeOK, NEW c \in Chunk, AppendRead(c) \/ AppendCommit(c) \/ AppendPublish(c)
    PROVE  TypeOK'
  <1>t. /\ handler \in [Chunk -> Request] /\ stored \in Seq(Chunk) /\ viewer \in Viewer
        /\ << >> \in Seq(Chunk) /\ handler[c].seen \in Seq(Chunk) /\ viewer.shown \in Seq(Chunk)
    BY Types, EmptySeq DEF Request, Viewer
  <1>1. CASE AppendRead(c)
    <2>1. [pc |-> "read", seen |-> stored] \in Request /\ [pc |-> "done", seen |-> << >>] \in Request
      BY <1>t DEF Request
    <2>2. handler' \in [Chunk -> Request]
      BY <1>1, <1>t, <2>1 DEF AppendRead, Refused
    <2>3. QED
      BY <1>1, <2>2, Types, TypesThen DEF AppendRead
  <1>2. CASE AppendCommit(c)
    <2>1. [pc |-> "committed", seen |-> << >>] \in Request /\ Append(handler[c].seen, c) \in Seq(Chunk)
      BY <1>t, AppendProperties DEF Request
    <2>2. handler' \in [Chunk -> Request] /\ stored' \in Seq(Chunk)
      BY <1>2, <1>t, <2>1 DEF AppendCommit, Appended
    <2>3. QED
      BY <1>2, <2>2, Types, TypesThen DEF AppendCommit
  <1>3. CASE AppendPublish(c)
    <2>1. Append(viewer.shown, c) \in Seq(Chunk)
      BY <1>t, AppendProperties
    <2>2. viewer' = viewer \/ viewer' = [viewer EXCEPT !.shown = Append(viewer.shown, c)]
      BY <1>3 DEF AppendPublish
    <2>3. viewer' \in Viewer
      BY <1>t, <2>1, <2>2 DEF Viewer
    <2>4. handler' \in [Chunk -> Request]
      BY <1>3, <1>t DEF AppendPublish, Request
    <2>5. QED
      BY <1>3, <2>3, <2>4, Types, TypesThen DEF AppendPublish
  <1>4. QED
    BY <1>1, <1>2, <1>3

LEMMA TypeStep == TypeOK /\ [Next]_vars => TypeOK'
  <1> SUFFICES ASSUME TypeOK, [Next]_vars PROVE TypeOK'
    OBVIOUS
  <1>t. /\ buffer \in 0..MaxChunks /\ posting \in 0..MaxChunks /\ faults \in Seq(Faults)
        /\ handler \in [Chunk -> Request] /\ report \in ReportType
        /\ stored \in Seq(Chunk) /\ lease \in {"held", "reaped", "finished"} /\ viewer \in Viewer
        /\ << >> \in Seq(Chunk)
    BY Types, EmptySeq
  <1>1. CASE Post
    <2>1. buffer' \in 0..MaxChunks /\ posting' \in 0..MaxChunks /\ buffer + 1 \in Chunk
      BY <1>1, <1>t, Sizes DEF Post, Chunk
    <2>2. handler' \in [Chunk -> Request]
      BY <1>1, <1>t, <2>1 DEF Post, Request
    <2>3. QED
      BY <1>1, <1>t, <2>1, <2>2, TypesThen DEF Post
  <1>2. CASE Answered \/ PostTimesOut
    BY <1>2, <1>t, FaultIs, Sizes, TypesThen DEF Answered, PostTimesOut
  <1>3. CASE PostLost
    <2>1. handler' \in [Chunk -> Request]
      BY <1>3, <1>t DEF PostLost, Request
    <2>2. QED
      BY <1>3, <1>t, <2>1, FaultIs, Sizes, TypesThen DEF PostLost
  <1>4. ASSUME NEW c \in Chunk, AppendRead(c) \/ AppendCommit(c) \/ AppendPublish(c) PROVE TypeOK'
    BY <1>4, AppendTypes
  <1>5. CASE Report
    <2>1. report' \in ReportType
      <3>1. \E pc \in {"sent", "lost"} : report' = [pc |-> pc, seen |-> << >>]
        BY <1>5 DEF Report
      <3>2. QED
        BY <1>t, <3>1 DEF ReportType
    <2>2. QED
      BY <1>5, <1>t, <2>1, FaultIs, TypesThen DEF Report
  <1>6. CASE TailRead \/ Complete
    <2>1. report' \in ReportType
      BY <1>6, <1>t DEF TailRead, Complete, ReportType
    <2>2. QED
      BY <1>6, <1>t, <2>1, TypesThen DEF TailRead, Complete
  <1>7. CASE TailCommit
    <2>1. report' \in ReportType /\ report.seen \in Seq(Chunk)
      BY <1>7, <1>t DEF TailCommit, ReportType
    <2>2. stored' \in Seq(Chunk)
      BY <1>7, <1>t, <2>1, TailIs, ConcatProperties DEF TailCommit, WithTail
    <2>3. QED
      BY <1>7, <1>t, <2>1, <2>2, TypesThen DEF TailCommit
  <1>8. CASE Reap
    BY <1>8, <1>t, FaultIs, TypesThen DEF Reap
  <1>9. CASE Snapshot \/ Subscribe \/ ViewerDrops \/ Close
    <2>1. viewer' \in Viewer
      <3>1. CASE Snapshot \/ Close
        <4>1. [pc |-> "snapshot", shown |-> stored] \in Viewer /\ [pc |-> "off", shown |-> << >>] \in Viewer
          BY <1>t DEF Viewer
        <4>2. QED
          BY <3>1, <4>1 DEF Snapshot, Close
      <3>2. CASE Subscribe \/ ViewerDrops
        <4>1. \E pc \in {"live", "dropped"} : viewer' = [viewer EXCEPT !.pc = pc]
          BY <3>2 DEF Subscribe, ViewerDrops
        <4>2. QED
          BY <1>t, <4>1 DEF Viewer
      <3>3. QED
        BY <1>9, <3>1, <3>2
    <2>2. faults' \in Seq(Faults)
      BY <1>9, <1>t, FaultIs DEF Snapshot, Subscribe, ViewerDrops, Close
    <2>3. QED
      BY <1>9, <1>t, <2>1, <2>2, TypesThen DEF Snapshot, Subscribe, ViewerDrops, Close
  <1>10. CASE UNCHANGED vars
    BY <1>10, <1>t, TypesThen DEF vars
  <1>11. QED
    BY <1>1, <1>2, <1>3, <1>4, <1>5, <1>6, <1>7, <1>8, <1>9, <1>10 DEF Next

(***************************************************************************)
(* What a step does to the log                                             *)
(***************************************************************************)
\* Nothing is written, and no chunk becomes older than it was.
Keeps == /\ stored' = stored
         /\ TailLength' = TailLength /\ (TailWritten => TailWritten')
         /\ Newest' >= Newest

\* A chunk is added: the newest there is.
Adds(c) == /\ handler[c].pc = "read" /\ stored' = Append(stored, c)
           /\ c = buffer /\ Newest = c - 1 /\ Newest' = c
           /\ ~TailWritten /\ ~TailWritten' /\ TailLength = 0 /\ TailLength' = 0

\* The tail is added.
AddsTail == /\ stored' = stored \o Tail50
            /\ buffer' = buffer /\ buffer > 0 /\ Newest = buffer /\ Newest' = buffer
            /\ ~TailWritten /\ TailWritten' /\ TailLength = 0
            /\ TailLength' = IF buffer > TailSize THEN TailSize ELSE buffer

LEMMA LogMoves ==
    ASSUME TypeOK, InTurn, [Next]_vars, OneByOne'
    PROVE  OneByOne /\ (Keeps \/ AddsTail \/ \E c \in Chunk : Adds(c))
  <1>t. /\ buffer \in Nat /\ posting \in Nat /\ faults \in Seq(Faults) /\ TailSize \in Nat /\ TailSize > 0
        /\ handler \in [Chunk -> Request] /\ report \in ReportType /\ MaxChunks \in Nat
        /\ buffer <= MaxChunks
    BY Types, Sizes
  <1>p. posting # 0 => posting = buffer /\ posting \in Chunk /\ report.pc = "none"
    BY <1>t DEF InTurn, Chunk
  <1>f. OneByOne /\ ~Fault("timeout")
    <2>1. \A kind \in {"lost", "timeout", "reaped", "dropped"} :
            Fault(kind) => /\ kind # "timeout"
                           /\ \A k : Happened(k) => Happened(k)'
      BY <1>t, FaultIs DEF OneByOne
    <2>2. faults' = faults \/ \E kind \in {"lost", "timeout", "reaped", "dropped"} : Fault(kind)
      BY DEF Next, vars, Post, Answered, PostLost, PostTimesOut, AppendRead, AppendCommit, AppendPublish,
             Report, TailRead, TailCommit, Complete, Reap, Snapshot, Subscribe, ViewerDrops, Close
    <2>3. faults' = faults => (Happened("timeout") => Happened("timeout")')
      BY DEF Happened
    <2>4. QED
      BY <2>1, <2>2, <2>3 DEF OneByOne
  <1>o. /\ \A c \in Chunk : Busy(c) => c = posting
        /\ \A c \in Chunk : handler[c].pc = "read" => handler[c].seen = stored
        /\ report.pc = "read" => report.seen = stored /\ buffer > 0
    BY <1>f DEF InTurn
  <1>n. Newest = IF posting # 0 /\ handler[posting].pc \in {"sent", "read"} THEN buffer - 1 ELSE buffer
    BY DEF Newest
  <1>m. Newest' = IF posting' # 0 /\ handler'[posting'].pc \in {"sent", "read"} THEN buffer' - 1 ELSE buffer'
    BY DEF Newest
  <1>w. UNCHANGED <<buffer, report>> => TailLength' = TailLength /\ (TailWritten <=> TailWritten')
    BY DEF TailLength, TailWritten
  <1>1. CASE UNCHANGED <<buffer, posting, handler, report, stored>>
    BY <1>1, <1>f, <1>m, <1>n, <1>t, <1>w DEF Keeps
  <1>2. CASE Post
    <2>1. ~TailWritten /\ ~TailWritten' /\ TailLength = 0 /\ TailLength' = 0
      BY <1>2 DEF Post, TailWritten, TailLength
    <2>2. /\ posting' = buffer + 1 /\ buffer' = buffer + 1 /\ stored' = stored /\ posting = 0
          /\ buffer + 1 \in Chunk /\ handler'[buffer + 1].pc = "sent"
      BY <1>2, <1>t DEF Post, Chunk, Request
    <2>3. Newest = buffer /\ Newest' = buffer
      BY <1>m, <1>n, <1>t, <2>2
    <2>4. QED
      BY <1>f, <1>t, <2>1, <2>2, <2>3 DEF Keeps
  <1>3. CASE Answered \/ PostLost
    <2>1. posting' = 0 /\ posting # 0 /\ UNCHANGED <<buffer, report, stored>>
      BY <1>3 DEF Answered, PostLost
    <2>2. Newest' = buffer /\ Newest <= buffer
      BY <1>m, <1>n, <1>t, <2>1
    <2>3. QED
      BY <1>f, <1>t, <1>w, <1>n, <2>1, <2>2 DEF Keeps
  <1>4. ASSUME NEW c \in Chunk, AppendRead(c) PROVE Keeps
    <2>1. /\ UNCHANGED <<buffer, posting, report, stored>> /\ handler[c].pc = "sent" /\ c = posting
      BY <1>4, <1>o DEF AppendRead, Busy
    <2>2. Newest = buffer - 1 /\ Newest' >= buffer - 1
      BY <1>m, <1>n, <1>p, <1>t, <2>1
    <2>3. QED
      BY <1>w, <2>1, <2>2 DEF Keeps
  <1>5. ASSUME NEW c \in Chunk, AppendCommit(c) PROVE Adds(c)
    <2>1. /\ UNCHANGED <<buffer, posting, report>> /\ handler[c].pc = "read" /\ c = posting
          /\ stored' = Append(stored, c)
      BY <1>5, <1>o DEF AppendCommit, Appended, Busy
    <2>2. handler'[c].pc = "committed"
      BY <1>5, <1>t DEF AppendCommit
    <2>3. c = buffer /\ report.pc = "none" /\ c # 0
      BY <1>p, <2>1, <1>t DEF Chunk
    <2>4. Newest = c - 1 /\ Newest' = c
      BY <1>m, <1>n, <1>t, <2>1, <2>2, <2>3
    <2>5. ~TailWritten /\ ~TailWritten' /\ TailLength = 0 /\ TailLength' = 0
      BY <2>1, <2>3 DEF TailWritten, TailLength
    <2>6. QED
      BY <2>1, <2>3, <2>4, <2>5 DEF Adds
  <1>6. ASSUME NEW c \in Chunk, AppendPublish(c) PROVE Keeps
    <2>1. /\ UNCHANGED <<buffer, posting, report, stored>> /\ handler[c].pc = "committed" /\ c = posting
      BY <1>6, <1>o DEF AppendPublish, Busy
    <2>2. handler'[c].pc = "done"
      BY <1>6, <1>t DEF AppendPublish, Request
    <2>3. Newest = buffer /\ Newest' = buffer
      BY <1>m, <1>n, <1>t, <2>1, <2>2
    <2>4. QED
      BY <1>t, <1>w, <2>1, <2>3 DEF Keeps
  <1>7. CASE Report \/ TailRead \/ Complete
    <2>1. UNCHANGED <<buffer, posting, handler, stored>>
      BY <1>7 DEF Report, TailRead, Complete
    <2>2. TailWritten <=> TailWritten'
      BY <1>7, <1>t DEF Report, TailRead, Complete, TailWritten, ReportType
    <2>3. TailLength' = TailLength
      BY <2>1, <2>2 DEF TailLength
    <2>4. Newest' = Newest /\ Newest \in Int
      BY <1>m, <1>n, <1>t, <2>1
    <2>5. QED
      BY <1>f, <2>1, <2>2, <2>3, <2>4 DEF Keeps
  <1>8. CASE TailCommit
    <2>1. /\ UNCHANGED <<buffer, posting, handler>> /\ report.pc = "read" /\ report'.pc = "tailed"
          /\ stored' = stored \o Tail50 /\ buffer > 0
      BY <1>8, <1>o DEF TailCommit, WithTail
    <2>2. posting = 0
      BY <1>p, <2>1
    <2>3. Newest = buffer /\ Newest' = buffer
      BY <1>m, <1>n, <2>1, <2>2
    <2>4. ~TailWritten /\ TailWritten'
      BY <2>1 DEF TailWritten
    <2>5. TailLength = 0 /\ TailLength' = IF buffer > TailSize THEN TailSize ELSE buffer
      BY <2>1, <2>4 DEF TailLength
    <2>6. QED
      BY <1>f, <2>1, <2>3, <2>4, <2>5 DEF AddsTail
  <1>9. CASE UNCHANGED vars \/ Reap \/ Snapshot \/ Subscribe \/ ViewerDrops \/ Close
    <2>1. UNCHANGED <<buffer, posting, handler, report, stored>>
      BY <1>9 DEF vars, Reap, Snapshot, Subscribe, ViewerDrops, Close
    <2>2. QED
      BY <1>1, <1>f, <2>1
  <1>10. CASE PostTimesOut
    BY <1>10, <1>f DEF PostTimesOut
  <1>11. QED
    BY <1>f, <1>2, <1>3, <1>4, <1>5, <1>6, <1>7, <1>8, <1>9, <1>10 DEF Next

(***************************************************************************)
(* The order of the log                                                    *)
(***************************************************************************)
Ordered == StoredInOrder /\ NoneAhead

LEMMA OrderedStep == TypeOK /\ InTurn /\ Ordered /\ [Next]_vars => Ordered'
  <1> SUFFICES ASSUME TypeOK, InTurn, Ordered, [Next]_vars, OneByOne'
               PROVE  Ordered'
    BY DEF Ordered, StoredInOrder, NoneAhead
  <1>m. OneByOne /\ (Keeps \/ AddsTail \/ \E c \in Chunk : Adds(c))
    BY LogMoves
  <1>t. /\ stored \in Seq(Chunk) /\ Len(stored) \in Nat /\ buffer \in Nat /\ TailSize \in Nat
        /\ buffer \in 0..MaxChunks
        /\ \A i \in 1..Len(stored) : stored[i] \in Nat
    BY Types, Sizes, LenProperties, ElementOfSeq DEF Chunk
  <1>n. Newest \in Int /\ Newest' \in Int /\ TailLength \in Nat
    <2>1. buffer' \in Nat
      BY TypeStep, TypesThen
    <2>2. QED
      BY <1>t, <2>1 DEF Newest, TailLength
  <1> DEFINE n == Len(stored) - TailLength
  <1>o. /\ n \in Nat /\ n <= Len(stored)
        /\ \A k \in 1..n, i \in 1..n : i < k => stored[i] < stored[k]
        /\ \A i \in 1..TailLength : stored[n + i] = buffer - TailLength + i
        /\ \A i \in 1..n : stored[i] <= Newest
    BY <1>m, <1>n, <1>t DEF Ordered, StoredInOrder, NoneAhead
  <1>1. CASE Keeps
    <2>1. stored' = stored /\ TailLength' = TailLength /\ Newest' >= Newest
      BY <1>1 DEF Keeps
    <2>2. TailLength # 0 => buffer' = buffer
      BY DEF TailLength, TailWritten, Next, vars, Post, Answered, PostLost, PostTimesOut, AppendRead,
             AppendCommit, AppendPublish, Report, TailRead, TailCommit, Complete, Reap, Snapshot,
             Subscribe, ViewerDrops, Close
    <2>3. StoredInOrder'
      BY <1>n, <1>o, <2>1, <2>2 DEF StoredInOrder
    <2>4. NoneAhead'
      BY <1>n, <1>o, <1>t, <2>1 DEF NoneAhead
    <2>5. QED
      BY <2>3, <2>4 DEF Ordered
  <1>2. ASSUME NEW c \in Chunk, Adds(c) PROVE Ordered'
    <2>1. /\ stored' = Append(stored, c) /\ Newest = c - 1 /\ Newest' = c
          /\ TailLength = 0 /\ TailLength' = 0 /\ c \in Nat
      BY <1>2, Sizes DEF Adds, Chunk
    <2>2. /\ Len(stored') = Len(stored) + 1 /\ stored'[Len(stored) + 1] = c
          /\ \A i \in 1..Len(stored) : stored'[i] = stored[i]
      BY <1>t, <2>1, AppendProperties
    <2>3. /\ \A k \in 1..Len(stored), i \in 1..Len(stored) : i < k => stored[i] < stored[k]
          /\ \A i \in 1..Len(stored) : stored[i] < c
      BY <1>o, <1>t, <2>1
    <2>4. \A k \in 1..Len(stored'), i \in 1..Len(stored') : i < k => stored'[i] < stored'[k]
      BY <1>t, <2>1, <2>2, <2>3
    <2>5. \A i \in 1..Len(stored') : stored'[i] <= Newest'
      BY <1>t, <2>1, <2>2, <2>3
    <2>6. Len(stored') - TailLength' = Len(stored') /\ 1..TailLength' = {} /\ TailLength' <= Len(stored')
      BY <1>t, <2>1, <2>2
    <2>7. QED
      BY <2>4, <2>5, <2>6 DEF Ordered, StoredInOrder, NoneAhead
  <1>3. CASE AddsTail
    <2> DEFINE l == IF buffer > TailSize THEN TailSize ELSE buffer
    <2>1. /\ stored' = stored \o Tail50 /\ buffer' = buffer /\ Newest = buffer /\ Newest' = buffer
          /\ TailLength = 0 /\ TailLength' = l
      BY <1>3 DEF AddsTail
    <2>2. /\ l \in Nat /\ Tail50 \in Seq(Chunk) /\ Len(Tail50) = l
          /\ \A i \in 1..l : Tail50[i] = buffer - l + i
      BY <1>t, TailIs
    <2> HIDE DEF l
    <2>3. /\ Len(stored') = Len(stored) + l
          /\ \A i \in 1..Len(stored) : stored'[i] = stored[i]
          /\ \A i \in 1..l : stored'[Len(stored) + i] = Tail50[i]
      <3>1. /\ Len(stored \o Tail50) = Len(stored) + Len(Tail50)
            /\ \A i \in 1..(Len(stored) + Len(Tail50)) : (stored \o Tail50)[i] =
                  IF i <= Len(stored) THEN stored[i] ELSE Tail50[i - Len(stored)]
        BY <1>t, <2>2, ConcatProperties
      <3>2. QED
        BY <1>t, <2>1, <2>2, <3>1
    <2>4. Len(stored') - TailLength' = Len(stored) /\ n = Len(stored) /\ TailLength' <= Len(stored')
      BY <1>t, <2>1, <2>2, <2>3
    <2>5. \A k \in 1..Len(stored), i \in 1..Len(stored) : i < k => stored'[i] < stored'[k]
      BY <1>o, <2>3, <2>4
    <2>6. \A i \in 1..TailLength' : stored'[Len(stored) + i] = buffer' - TailLength' + i
      BY <2>1, <2>2, <2>3
    <2>7. \A i \in 1..Len(stored) : stored'[i] <= Newest'
      BY <1>o, <2>1, <2>3, <2>4
    <2>8. QED
      BY <2>4, <2>5, <2>6, <2>7 DEF Ordered, StoredInOrder, NoneAhead
  <1>4. QED
    BY <1>m, <1>1, <1>2, <1>3

\* No request writes a log that it read before another one's commit.
LEMMA KeptStep ==
    ASSUME TypeOK, InTurn, [Next]_vars, OneByOne', NEW c \in Chunk, Stored(c)
    PROVE  Stored(c)'
  <1>t. stored \in Seq(Chunk) /\ Len(stored) \in Nat /\ buffer \in 0..MaxChunks
    BY Types, LenProperties
  <1>s. PICK i \in 1..Len(stored) : stored[i] = c
    BY DEF Stored
  <1>1. CASE Keeps
    BY <1>1 DEF Keeps, Stored
  <1>2. ASSUME NEW d \in Chunk, Adds(d) PROVE Stored(c)'
    <2>1. Len(stored') = Len(stored) + 1 /\ stored'[i] = stored[i]
      BY <1>2, <1>t, AppendProperties DEF Adds
    <2>2. QED
      BY <1>s, <1>t, <2>1 DEF Stored
  <1>3. CASE AddsTail
    <2>1. Tail50 \in Seq(Chunk) /\ Len(Tail50) \in Nat
      BY <1>t, TailIs, LenProperties
    <2>2. /\ Len(stored \o Tail50) = Len(stored) + Len(Tail50)
          /\ \A k \in 1..(Len(stored) + Len(Tail50)) : (stored \o Tail50)[k] =
                  IF k <= Len(stored) THEN stored[k] ELSE Tail50[k - Len(stored)]
      BY <1>t, <2>1, ConcatProperties
    <2>3. i \in 1..Len(stored') /\ stored'[i] = stored[i]
      BY <1>3, <1>t, <2>1, <2>2 DEF AddsTail
    <2>4. QED
      BY <1>s, <2>3 DEF Stored
  <1>4. QED
    BY <1>1, <1>2, <1>3, LogMoves

(***************************************************************************)
(* One request after the other                                             *)
(***************************************************************************)
LEMMA InTurnStep == TypeOK /\ InTurn /\ [Next]_vars => InTurn'
  <1> SUFFICES ASSUME TypeOK, InTurn, [Next]_vars PROVE InTurn'
    OBVIOUS
  <1>t. /\ buffer \in Nat /\ posting \in Nat /\ MaxChunks \in Nat /\ buffer <= MaxChunks
        /\ handler \in [Chunk -> Request] /\ report \in ReportType /\ stored \in Seq(Chunk)
    BY Types, Sizes
  <1>p. /\ posting # 0 => posting = buffer /\ posting \in Chunk /\ report.pc = "none"
        /\ report.pc = "read" => buffer > 0
    BY <1>t DEF InTurn, Chunk
  <1>o. OneByOne =>
          /\ \A c \in Chunk : Busy(c) => c = posting
          /\ \A c \in Chunk : handler[c].pc = "read" => handler[c].seen = stored
          /\ \A c \in Chunk : handler[c].pc = "committed" => Stored(c)
          /\ report.pc = "read" => report.seen = stored
    BY DEF InTurn
  <1>b. OneByOne' => OneByOne /\ \A c \in Chunk : Stored(c) => Stored(c)'
    BY LogMoves, KeptStep
  <1>1. CASE UNCHANGED <<buffer, posting, handler, report, stored>>
    BY <1>1, <1>b DEF InTurn, Busy, Stored
  <1>2. CASE Post
    <2>1. /\ posting' = buffer + 1 /\ buffer' = buffer + 1 /\ UNCHANGED <<stored, report>>
          /\ report.pc = "none" /\ posting = 0 /\ buffer + 1 \in Chunk
          /\ handler'[buffer + 1].pc = "sent"
          /\ \A c \in Chunk : c # buffer + 1 => handler'[c] = handler[c]
      BY <1>2, <1>t DEF Post, Chunk, Request
    <2>2. OneByOne => \A c \in Chunk : Busy(c)' => c = posting'
      <3>1. OneByOne => \A c \in Chunk : ~Busy(c)
        BY <1>o, <2>1 DEF Chunk
      <3>2. QED
        BY <2>1, <3>1 DEF Busy
    <2>3. QED
      BY <1>b, <1>o, <1>p, <2>1, <2>2 DEF InTurn
  <1>3. CASE Answered \/ PostLost
    <2>1. posting' = 0 /\ posting # 0 /\ UNCHANGED <<buffer, report, stored>>
      BY <1>3 DEF Answered, PostLost
    <2>2. posting \in Chunk /\ handler'[posting].pc \in {"done", "lost"}
          /\ \A c \in Chunk : c # posting => handler'[c] = handler[c]
      BY <1>3, <1>p, <1>t DEF Answered, PostLost, Request
    <2>3. OneByOne => \A c \in Chunk : ~Busy(c)'
      BY <1>o, <2>2 DEF Busy
    <2>4. QED
      BY <1>b, <1>o, <1>p, <2>1, <2>2, <2>3 DEF InTurn, Busy
  <1>4. CASE PostTimesOut
    <2>1. posting' = 0 /\ UNCHANGED <<buffer, report>> /\ Fault("timeout")
      BY <1>4 DEF PostTimesOut
    <2>2. ~OneByOne'
      BY <2>1, FaultIs, Types DEF OneByOne
    <2>3. QED
      BY <1>p, <2>1, <2>2 DEF InTurn
  <1>5. ASSUME NEW c \in Chunk, AppendRead(c) \/ AppendPublish(c) PROVE InTurn'
    <2>1. /\ UNCHANGED <<buffer, posting, report, stored>> /\ Busy(c)
          /\ \A d \in Chunk : d # c => handler'[d] = handler[d]
          /\ handler'[c].pc \in {"read", "done"} /\ (handler'[c].pc = "read" => handler'[c].seen = stored)
      BY <1>5, <1>t DEF AppendRead, AppendPublish, Refused, Busy, Request
    <2>2. QED
      BY <1>b, <1>o, <1>p, <2>1 DEF InTurn, Busy
  <1>6. ASSUME NEW c \in Chunk, AppendCommit(c) PROVE InTurn'
    <2>1. /\ UNCHANGED <<buffer, posting, report>> /\ Busy(c) /\ stored' = Append(handler[c].seen, c)
          /\ \A d \in Chunk : d # c => handler'[d] = handler[d]
          /\ handler'[c].pc = "committed"
      BY <1>6, <1>t DEF AppendCommit, Appended, Busy, Request
    <2>2. Stored(c)'
      <3>1. handler[c].seen \in Seq(Chunk)
        BY <1>t DEF Request
      <3>2. Len(stored') = Len(handler[c].seen) + 1 /\ stored'[Len(handler[c].seen) + 1] = c
            /\ Len(handler[c].seen) \in Nat
        BY <2>1, <3>1, AppendProperties, LenProperties
      <3>3. QED
        BY <3>2 DEF Stored
    <2>3. OneByOne => c = posting /\ c # 0 /\ report.pc = "none"
      BY <1>o, <1>p, <2>1 DEF Chunk
    <2>4. OneByOne => \A d \in Chunk : d # c => ~Busy(d) /\ ~Busy(d)'
      BY <1>o, <2>1, <2>3 DEF Busy
    <2>5. QED
      BY <1>b, <1>p, <2>1, <2>2, <2>3, <2>4 DEF InTurn, Busy
  <1>7. CASE Report
    <2>1. /\ UNCHANGED <<buffer, posting, handler, stored>> /\ posting = 0 /\ report'.pc \in {"sent", "lost"}
      BY <1>7 DEF Report
    <2>2. QED
      BY <1>b, <1>o, <2>1 DEF InTurn, Busy
  <1>8. CASE TailRead \/ Complete
    <2>1. /\ UNCHANGED <<buffer, posting, handler, stored>> /\ report.pc # "none"
          /\ report'.pc \in {"read", "tailed", "done"}
          /\ report'.pc = "read" => report'.seen = stored /\ buffer # 0
      BY <1>8, <1>t DEF TailRead, Complete, ReportType
    <2>2. posting' = 0 /\ (report'.pc = "read" => buffer' > 0)
      BY <1>p, <1>t, <2>1
    <2>3. QED
      BY <1>b, <1>o, <2>1, <2>2 DEF InTurn, Busy
  <1>9. CASE TailCommit
    <2>1. /\ UNCHANGED <<buffer, posting, handler>> /\ report.pc = "read" /\ report'.pc = "tailed"
      BY <1>9 DEF TailCommit
    <2>2. posting = 0
      BY <1>p, <2>1
    <2>3. OneByOne => \A c \in Chunk : ~Busy(c) /\ ~Busy(c)'
      BY <1>o, <2>1, <2>2 DEF Chunk, Busy
    <2>4. QED
      BY <1>b, <2>1, <2>2, <2>3 DEF InTurn, Busy
  <1>10. CASE UNCHANGED vars \/ Reap \/ Snapshot \/ Subscribe \/ ViewerDrops \/ Close
    <2>1. UNCHANGED <<buffer, posting, handler, report, stored>>
      BY <1>10 DEF vars, Reap, Snapshot, Subscribe, ViewerDrops, Close
    <2>2. QED
      BY <1>1, <2>1
  <1>11. QED
    BY <1>2, <1>3, <1>4, <1>5, <1>6, <1>7, <1>8, <1>9, <1>10 DEF Next

(***************************************************************************)
(* The browser                                                             *)
(***************************************************************************)
LEMMA ShownStep == TypeOK /\ InTurn /\ Ordered /\ ShownIsStored /\ [Next]_vars => ShownIsStored'
  <1> SUFFICES ASSUME TypeOK, InTurn, Ordered, ShownIsStored, [Next]_vars, OneByOne'
               PROVE  /\ \A c \in Chunk : Shown(c)' => Stored(c)'
                      /\ TailWritten' \/ InOrder(viewer'.shown)
    BY DEF ShownIsStored
  <1>m. OneByOne /\ (Keeps \/ AddsTail \/ \E c \in Chunk : Adds(c))
    BY LogMoves
  <1>t. /\ stored \in Seq(Chunk) /\ viewer \in Viewer /\ handler \in [Chunk -> Request]
        /\ viewer.shown \in Seq(Chunk) /\ Len(stored) \in Nat /\ Len(viewer.shown) \in Nat
        /\ \A i \in 1..Len(stored) : stored[i] \in Chunk
        /\ \A i \in 1..Len(viewer.shown) : viewer.shown[i] \in Chunk
        /\ buffer \in Nat /\ posting \in Nat
    BY Types, LenProperties, ElementOfSeq, Sizes DEF Viewer
  <1>k. \A c \in Chunk : Stored(c) => Stored(c)'
    BY <1>m, KeptStep
  <1>w. TailWritten => TailWritten'
    BY <1>m DEF Keeps, Adds, AddsTail
  <1>s. (\A c \in Chunk : Shown(c) => Stored(c)) /\ (TailWritten \/ InOrder(viewer.shown))
    BY <1>m DEF ShownIsStored
  <1>1. CASE viewer'.shown = viewer.shown
    BY <1>1, <1>k, <1>s, <1>w DEF Shown, InOrder
  <1>2. CASE viewer'.shown = << >>
    BY <1>2 DEF Shown, InOrder
  <1>3. CASE Snapshot
    <2>1. viewer'.shown = stored /\ stored' = stored
      BY <1>3 DEF Snapshot
    <2>2. TailWritten \/ InOrder(stored)
      <3>1. SUFFICES ASSUME ~TailWritten PROVE InOrder(stored)
        OBVIOUS
      <3>2. TailLength = 0 /\ Len(stored) - TailLength = Len(stored)
        BY <1>t, <3>1 DEF TailLength
      <3>3. \A k \in 1..Len(stored), i \in 1..Len(stored) : i < k => stored[i] < stored[k]
        BY <1>m, <3>2 DEF Ordered, StoredInOrder
      <3>4. QED
        BY <1>t, <3>3, Sizes DEF InOrder, Chunk
    <2>3. QED
      BY <1>w, <2>1, <2>2 DEF Shown, Stored
  <1>4. ASSUME NEW c \in Chunk, AppendPublish(c), viewer'.shown # viewer.shown
        PROVE  /\ \A d \in Chunk : Shown(d)' => Stored(d)'
               /\ TailWritten' \/ InOrder(viewer'.shown)
    <2>1. /\ viewer'.shown = Append(viewer.shown, c) /\ handler[c].pc = "committed"
          /\ stored' = stored /\ report' = report
      BY <1>4, <1>t DEF AppendPublish, Viewer
    <2>2. /\ Len(viewer'.shown) = Len(viewer.shown) + 1 /\ viewer'.shown[Len(viewer.shown) + 1] = c
          /\ \A i \in 1..Len(viewer.shown) : viewer'.shown[i] = viewer.shown[i]
      BY <1>t, <2>1, AppendProperties
    <2>3. Stored(c) /\ c = posting
      BY <1>m, <2>1 DEF InTurn, Busy
    <2>4. \A d \in Chunk : Shown(d)' => Shown(d) \/ d = c
      BY <1>t, <2>2 DEF Shown
    <2>5. \A d \in Chunk : Shown(d)' => Stored(d)'
      BY <1>k, <1>s, <2>3, <2>4
    <2>6. c = buffer /\ report.pc = "none" /\ Newest \in Int /\ Newest <= buffer
      BY <1>t, <2>3, Sizes DEF InTurn, Chunk, Newest
    <2>7. ~TailWritten /\ TailLength = 0 /\ Len(stored) - TailLength = Len(stored)
      BY <1>t, <2>6 DEF TailWritten, TailLength
    <2>8. \A i \in 1..Len(stored) : stored[i] <= c
      BY <1>m, <1>t, <2>6, <2>7, Sizes DEF Ordered, NoneAhead, Chunk
    <2>9. \A i \in 1..Len(viewer.shown) : viewer.shown[i] <= c
      <3> SUFFICES ASSUME NEW i \in 1..Len(viewer.shown) PROVE viewer.shown[i] <= c
        OBVIOUS
      <3>1. viewer.shown[i] \in Chunk /\ Shown(viewer.shown[i])
        BY <1>t DEF Shown
      <3>2. Stored(viewer.shown[i])
        BY <1>s, <3>1
      <3>3. QED
        BY <2>8, <3>2 DEF Stored
    <2>10. InOrder(viewer'.shown)
      <3>1. /\ c \in Nat /\ \A i \in 1..Len(viewer.shown) : viewer.shown[i] \in Nat
        BY <1>t, Sizes DEF Chunk
      <3>2. \A i, k \in 1..Len(viewer.shown) : i < k => viewer.shown[i] <= viewer.shown[k]
        BY <1>s, <2>7 DEF InOrder
      <3> SUFFICES ASSUME NEW i \in 1..Len(viewer'.shown), NEW k \in 1..Len(viewer'.shown), i < k
                   PROVE  viewer'.shown[i] <= viewer'.shown[k]
        BY DEF InOrder
      <3>3. i \in 1..Len(viewer.shown) /\ viewer'.shown[i] = viewer.shown[i]
        BY <1>t, <2>2
      <3>4. CASE k \in 1..Len(viewer.shown)
        BY <2>2, <3>2, <3>3, <3>4
      <3>5. CASE k = Len(viewer.shown) + 1
        BY <2>2, <2>9, <3>3, <3>5
      <3>6. QED
        BY <1>t, <2>2, <3>4, <3>5
    <2>11. QED
      BY <2>5, <2>10
  <1>5. viewer'.shown = viewer.shown \/ viewer'.shown = << >> \/ Snapshot \/ \E c \in Chunk : AppendPublish(c)
    BY <1>t DEF Next, vars, Post, Answered, PostLost, PostTimesOut, AppendRead, AppendCommit, Report, TailRead,
                TailCommit, Complete, Reap, Subscribe, ViewerDrops, Close, Viewer
  <1>6. QED
    BY <1>1, <1>2, <1>3, <1>4, <1>5

(***************************************************************************)
(* The theorems                                                            *)
(***************************************************************************)
Safe == TypeOK /\ InTurn /\ Ordered /\ ShownIsStored

LEMMA SafeInit == Init => Safe
  <1> SUFFICES ASSUME Init PROVE Safe
    OBVIOUS
  <1>1. /\ buffer = 0 /\ posting = 0 /\ report.pc = "none" /\ stored = << >> /\ viewer.shown = << >>
        /\ \A c \in Chunk : handler[c].pc = "none"
    BY DEF Init, Idle
  <1>2. InTurn
    BY <1>1 DEF InTurn, Busy
  <1>3. TailLength = 0 /\ Len(stored) = 0
    BY <1>1 DEF TailLength, TailWritten
  <1>4. Ordered
    BY <1>3 DEF Ordered, StoredInOrder, NoneAhead
  <1>5. ShownIsStored
    BY <1>1 DEF ShownIsStored, Shown, InOrder
  <1>6. QED
    BY <1>2, <1>4, <1>5, TypeInit DEF Safe

LEMMA SafeStep == Safe /\ [Next]_vars => Safe'
  BY TypeStep, InTurnStep, OrderedStep, ShownStep DEF Safe

\* Types, for any number of chunks and any faults.
THEOREM TypeCorrect == Spec => []TypeOK
  <1>1. Safe => TypeOK
    BY DEF Safe
  <1>2. QED
    BY <1>1, SafeInit, SafeStep, PTL DEF Spec

\* The stored log is the worker's output in order, with gaps, and the tail after it,
\* whatever append_log requests are lost or refused and whenever the report comes.
THEOREM LogIsInOrder == Spec => []StoredInOrder
  <1>1. Safe => StoredInOrder
    BY DEF Safe, Ordered
  <1>2. QED
    BY <1>1, SafeInit, SafeStep, PTL DEF Spec

\* A browser shows nothing that is not stored, and shows it in order, whenever it
\* takes its snapshot and subscribes.
THEOREM BrowsersShowTheLog == Spec => []ShownIsStored
  <1>1. Safe => ShownIsStored
    BY DEF Safe
  <1>2. QED
    BY <1>1, SafeInit, SafeStep, PTL DEF Spec

\* What append_log or complete has stored stays: each writes what it has read, and
\* nothing is written in between.
THEOREM LogOnlyGrows == Spec => NothingErased
  <1>1. Safe /\ [Next]_vars => [OneByOne => \A c \in Chunk : Stored(c) => Stored(c)']_vars
    <2> SUFFICES ASSUME Safe, [Next]_vars, OneByOne, NEW c \in Chunk, Stored(c) PROVE Stored(c)'
      OBVIOUS
    <2>1. CASE OneByOne'
      BY <2>1, KeptStep DEF Safe
    <2>2. CASE ~OneByOne'
      <3>1. faults' # faults
        BY <2>2 DEF OneByOne, Happened
      <3>2. stored' = stored
        BY <3>1 DEF Next, vars, Post, Answered, PostLost, PostTimesOut, AppendRead, AppendCommit,
                    AppendPublish, Report, TailRead, TailCommit, Complete, Reap, Snapshot, Subscribe,
                    ViewerDrops, Close
      <3>3. QED
        BY <3>2 DEF Stored
    <2>3. QED
      BY <2>1, <2>2
  <1>2. QED
    BY <1>1, SafeInit, SafeStep, PTL DEF Spec, NothingErased
=============================================================================
