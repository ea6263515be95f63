----------------------------- MODULE LogStream ------------------------------
(***************************************************************************)
(* The log of one attempt on its way from the worker to the database and   *)
(* to a browser: on_log and _report of worker/worker.py, append_log and    *)
(* the logs_tail half of complete in api/attempts.py, stream_logs in       *)
(* api/websocket.py and useLiveLogs in the dashboard.                      *)
(*                                                                         *)
(* Chunks are numbered as the executor produces them; a log is a sequence  *)
(* of chunk numbers.  A handler reads the attempt, commits and publishes   *)
(* in separate actions: between them other requests run.                   *)
(* A definition marked (slip) is a wrong version of the one after it.      *)
(***************************************************************************)
EXTENDS Naturals, Sequences

CONSTANTS
    MaxChunks,   \* bound: chunks the run produces
    TailSize,    \* chunks in logs_tail (50 in _execute)
    Faults,      \* the kinds of fault that may happen
    MaxFaults    \* bound: faults in a run

ASSUME SizeAssumption == MaxChunks \in Nat \ {0} /\ TailSize \in Nat \ {0}
ASSUME FaultKindsAssumption == Faults \subseteq {"lost", "timeout", "reaped", "dropped"} /\ MaxFaults \in Nat

VARIABLES
    buffer,    \* chunks in the worker's log_buffer
    posting,   \* the chunk whose POST the worker waits for, 0 if none
    handler,   \* handler[c]: the append_log request of chunk c
    report,    \* the complete request
    stored,    \* column logs of the attempt
    lease,     \* whether the worker's lease still is good
    viewer,    \* the WebSocket of a browser
    faults     \* the faults so far

vars == <<buffer, posting, handler, report, stored, lease, viewer, faults>>

Chunk == 1..MaxChunks
Idle == [pc |-> "none", seen |-> << >>]
Shown(c) == \E i \in 1..Len(viewer.shown) : viewer.shown[i] = c
Stored(c) == \E i \in 1..Len(stored) : stored[i] = c

Init == /\ buffer = 0
        /\ posting = 0
        /\ handler = [c \in Chunk |-> Idle]
        /\ report = Idle
        /\ stored = << >>
        /\ lease = "held"
        /\ viewer = [pc |-> "off", shown |-> << >>]
        /\ faults = << >>

Fault(kind) == kind \in Faults /\ Len(faults) < MaxFaults /\ faults' = Append(faults, kind)
Happened(kind) == \E i \in 1..Len(faults) : faults[i] = kind

-----------------------------------------------------------------------------
(* The worker: on_log posts one chunk after the other and does not look at  *)
(* the answer; an httpx.HTTPError is passed over.                           *)

Post ==
    /\ report.pc = "none" /\ posting = 0 /\ buffer < MaxChunks
    /\ buffer' = buffer + 1
    /\ posting' = buffer + 1
    /\ handler' = [handler EXCEPT ![buffer + 1].pc = "sent"]
    /\ UNCHANGED <<report, stored, lease, viewer, faults>>

Answered ==
    /\ posting # 0 /\ handler[posting].pc = "done"
    /\ posting' = 0
    /\ UNCHANGED <<buffer, handler, report, stored, lease, viewer, faults>>

PostLost ==
    /\ posting # 0 /\ handler[posting].pc = "sent"
    /\ Fault("lost")
    /\ posting' = 0
    /\ handler' = [handler EXCEPT ![posting].pc = "lost"]
    /\ UNCHANGED <<buffer, report, stored, lease, viewer>>

\* The client gives up; the request in the server goes on.
PostTimesOut ==
    /\ posting # 0 /\ handler[posting].pc # "done"
    /\ Fault("timeout")
    /\ posting' = 0
    /\ UNCHANGED <<buffer, handler, report, stored, lease, viewer>>

-----------------------------------------------------------------------------
(* append_log.                                                              *)

\* (slip) a refused chunk is shown all the same
RefusedButShown == "committed"
Refused == "done"
\* (slip) the chunk written before what was read
Prepended(seen, c) == <<c>> \o seen
Appended(seen, c) == Append(seen, c)

AppendRead(c) ==
    /\ handler[c].pc = "sent"
    /\ handler' = [handler EXCEPT ![c] = IF lease = "held" THEN [pc |-> "read", seen |-> stored]
                                        ELSE [pc |-> Refused, seen |-> << >>]]
    /\ UNCHANGED <<buffer, posting, report, stored, lease, viewer, faults>>

AppendCommit(c) ==
    /\ handler[c].pc = "read"
    /\ stored' = Appended(handler[c].seen, c)
    /\ handler' = [handler EXCEPT ![c] = [pc |-> "committed", seen |-> << >>]]
    /\ UNCHANGED <<buffer, posting, report, lease, viewer, faults>>

AppendPublish(c) ==
    /\ handler[c].pc = "committed"
    /\ viewer' = IF viewer.pc = "live" THEN [viewer EXCEPT !.shown = Append(@, c)] ELSE viewer
    /\ handler' = [handler EXCEPT ![c].pc = "done"]
    /\ UNCHANGED <<buffer, posting, report, stored, lease, faults>>

-----------------------------------------------------------------------------
(* _report and complete: log_buffer[-50:] goes into the log if the token    *)
(* matches, whatever the status; only then complete_attempt looks at it.    *)

FirstOfTail == IF buffer > TailSize THEN buffer - TailSize + 1 ELSE 1
\* (slip) counted from one too early
EarlyTail == [i \in 1..(buffer - FirstOfTail + 1) |-> FirstOfTail + i - 2]
Tail50 == [i \in 1..(buffer - FirstOfTail + 1) |-> FirstOfTail + i - 1]
\* (slip) the tail written over the log
TailOnly(seen, tail) == tail
WithTail(seen, tail) == seen \o tail

Report ==
    /\ report.pc = "none" /\ posting = 0
    /\ \/ report' = [pc |-> "sent", seen |-> << >>] /\ UNCHANGED faults
       \/ Fault("lost") /\ report' = [pc |-> "lost", seen |-> << >>]
    /\ UNCHANGED <<buffer, posting, handler, stored, lease, viewer>>

TailRead ==
    /\ report.pc = "sent"
    /\ report' = IF buffer = 0 THEN [report EXCEPT !.pc = "tailed"] ELSE [pc |-> "read", seen |-> stored]
    /\ UNCHANGED <<buffer, posting, handler, stored, lease, viewer, faults>>

TailCommit ==
    /\ report.pc = "read"
    /\ stored' = WithTail(report.seen, Tail50)
    /\ report' = [pc |-> "tailed", seen |-> << >>]
    /\ UNCHANGED <<buffer, posting, handler, lease, viewer, faults>>

Complete ==
    /\ report.pc = "tailed"
    /\ lease' = IF lease = "held" THEN "finished" ELSE lease
    /\ report' = [report EXCEPT !.pc = "done"]
    /\ UNCHANGED <<buffer, posting, handler, stored, viewer, faults>>

\* The reaper makes the attempt INFRA_ERROR.
Reap ==
    /\ lease = "held"
    /\ Fault("reaped")
    /\ lease' = "reaped"
    /\ UNCHANGED <<buffer, posting, handler, report, stored, viewer>>

-----------------------------------------------------------------------------
(* stream_logs: the log so far, then the channel.  A browser that selects   *)
(* the attempt again starts afresh; a socket that drops is not reopened.    *)

Snapshot ==
    /\ viewer.pc = "off"
    /\ viewer' = [pc |-> "snapshot", shown |-> stored]
    /\ UNCHANGED <<buffer, posting, handler, report, stored, lease, faults>>

Subscribe ==
    /\ viewer.pc = "snapshot"
    /\ viewer' = [viewer EXCEPT !.pc = "live"]
    /\ UNCHANGED <<buffer, posting, handler, report, stored, lease, faults>>

ViewerDrops ==
    /\ viewer.pc \in {"snapshot", "live"}
    /\ Fault("dropped")
    /\ viewer' = [viewer EXCEPT !.pc = "dropped"]
    /\ UNCHANGED <<buffer, posting, handler, report, stored, lease>>

Close ==
    /\ viewer.pc # "off"
    /\ viewer' = [pc |-> "off", shown |-> << >>]
    /\ UNCHANGED <<buffer, posting, handler, report, stored, lease, faults>>

Next == \/ Post \/ Answered \/ PostLost \/ PostTimesOut
        \/ \E c \in Chunk : AppendRead(c) \/ AppendCommit(c) \/ AppendPublish(c)
        \/ Report \/ TailRead \/ TailCommit \/ Complete \/ Reap
        \/ Snapshot \/ Subscribe \/ ViewerDrops \/ Close

Spec == Init /\ [][Next]_vars

\* The worker and the server run on; nothing obliges a browser to open or close a log.
FairSpec ==
    /\ Spec
    /\ WF_vars(Post) /\ WF_vars(Answered) /\ WF_vars(Report)
    /\ \A c \in Chunk : WF_vars(AppendRead(c)) /\ WF_vars(AppendCommit(c)) /\ WF_vars(AppendPublish(c))
    /\ WF_vars(TailRead) /\ WF_vars(TailCommit) /\ WF_vars(Complete) /\ WF_vars(Subscribe)

-----------------------------------------------------------------------------
(***************************************************************************)
(* Properties                                                              *)
(***************************************************************************)
TypeOK ==
    /\ buffer \in 0..MaxChunks /\ posting \in 0..MaxChunks /\ faults \in Seq(Faults)
    /\ handler \in [Chunk -> [pc : {"none", "sent", "lost", "read", "committed", "done"}, seen : Seq(Chunk)]]
    /\ report \in [pc : {"none", "sent", "lost", "read", "tailed", "done"}, seen : Seq(Chunk)]
    /\ stored \in Seq(Chunk)
    /\ lease \in {"held", "reaped", "finished"}
    /\ viewer \in [pc : {"off", "snapshot", "live", "dropped"}, shown : Seq(Chunk)]

TailWritten == report.pc \in {"tailed", "done"} /\ buffer > 0
\* No post has timed out: requests of the worker do not run beside one another.
OneByOne == ~Happened("timeout")
InOrder(log) == \A i, k \in 1..Len(log) : i < k => log[i] <= log[k]

\* The stored log is what the worker produced, in that order and without repetitions,
\* with gaps where posts were lost or refused; and then, once the report is in, the last
\* chunks once more.  So a run of no more chunks than the tail holds ends with all of its
\* output stored, however many posts were lost.
TailLength == IF ~TailWritten THEN 0 ELSE IF buffer > TailSize THEN TailSize ELSE buffer
StoredInOrder ==
    OneByOne => LET n == Len(stored) - TailLength IN
        /\ \A k \in 1..n, i \in 1..n : i < k => stored[i] < stored[k]
        /\ \A i \in 1..TailLength : stored[n + i] = buffer - TailLength + i

\* What append_log or complete has stored stays in the log: no request writes a log
\* that it read before another one's commit.
NothingErased ==
    [][OneByOne => \A c \in Chunk : Stored(c) => Stored(c)']_vars

\* A browser never shows output that is not in the database, nor output out of
\* order: what it shows it could also have read there.
ShownIsStored ==
    OneByOne => /\ \A c \in Chunk : Shown(c) => Stored(c)
                /\ TailWritten \/ InOrder(viewer.shown)

-----------------------------------------------------------------------------
(* Why they hold.                                                           *)

Busy(c) == handler[c].pc \in {"sent", "read", "committed"}

\* One request after the other, and what it has read is what there is.
InTurn ==
    /\ posting # 0 => posting = buffer /\ report.pc = "none"
    /\ report.pc = "read" => buffer > 0
    /\ OneByOne =>
        /\ \A c \in Chunk : Busy(c) => c = posting
        /\ \A c \in Chunk : handler[c].pc = "read" => handler[c].seen = stored
        /\ \A c \in Chunk : handler[c].pc = "committed" => Stored(c)
        /\ report.pc = "read" => report.seen = stored

\* What is stored before the tail is older than the chunk that is about to be.
Newest == IF posting # 0 /\ handler[posting].pc \in {"sent", "read"} THEN buffer - 1 ELSE buffer
NoneAhead ==
    OneByOne => /\ TailLength <= Len(stored)
                /\ \A i \in 1..(Len(stored) - TailLength) : stored[i] <= Newest

-----------------------------------------------------------------------------
(* What the documents say and the code does not keep.                       *)

\* worker.py:113: "best-effort live streaming; full log still sent on completion".
FullLogOnCompletion == lease = "finished" => \A c \in 1..buffer : Stored(c)

\* api/websocket.py:7-9: "a client that connects mid-job gets an initial snapshot
\* fetched from the DB, then live deltas from here on".
ViewerMissesNothing ==
    viewer.pc = "live" /\ report.pc = "none" /\ (\A c \in Chunk : handler[c].pc \in {"none", "done"}) =>
        \A c \in Chunk : Stored(c) => Shown(c)

\* README.md:297-298: "Provides reconnecting log/status WebSocket hooks."
LogViewReconnects == viewer.pc = "dropped" ~> viewer.pc # "dropped"

\* README.md:437-439: "Renewal, log writes, and completion require the matching
\* token, so a stale worker cannot update a reassigned or terminal attempt."
TerminalLogIsFinal == [][lease # "held" => stored' = stored]_vars
=============================================================================
