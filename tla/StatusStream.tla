---------------------------- MODULE StatusStream ----------------------------
(***************************************************************************)
(* The status of one job on its way to an open JobDetail page: the         *)
(* publish_status of complete (api/attempts.py), stream_status             *)
(* (api/websocket.py), useJobStatus (hooks/useWebSocket.ts) and the        *)
(* refresh of pages/JobDetail.tsx.                                         *)
(*                                                                         *)
(* The job's state is a version, counted up by every commit that changes   *)
(* it.  A message only makes the page fetch the job again; it is received  *)
(* where the handler sends it, its way to the browser being part of its    *)
(* wait in the handler.                                                    *)
(* A definition marked (slip) is a wrong version of the one after it.      *)
(***************************************************************************)
EXTENDS Naturals, Sequences

CONSTANTS
    MaxVersion,  \* bound: changes of the job
    Faults,      \* the kinds of fault that may happen
    MaxFaults    \* bound: faults in a run

ASSUME BoundsAssumption == MaxVersion \in Nat \ {0} /\ MaxFaults \in Nat
ASSUME FaultKindsAssumption == Faults \subseteq {"dropped", "closed", "failed", "left"}

VARIABLES
    version,      \* the job as it is in the database
    unpublished,  \* reports that are committed and not published yet
    stream,       \* stream[s]: stream_status for the s-th socket of the page
    page,         \* the page: "closed", "open" or, when it is unmounted, "left"
    timer,        \* whether reconnectTimer is running
    request,      \* request[r]: the r-th getJob of the page
    shown,        \* the job the page shows, 0 while it is loading
    faults        \* the faults so far

vars == <<version, unpublished, stream, page, timer, request, shown, faults>>

\* A page opens one socket, and one more after each drop; it asks for the job when it
\* opens and after each message.
Sockets == 1..(MaxFaults + 1)
Requests == 1..(MaxVersion + 1)

\* client: whether the browser still holds the socket.
NoStream == [pc |-> "none", client |-> FALSE, queue |-> << >>]
Ended == [pc |-> "ended", client |-> FALSE, queue |-> << >>]
NoRequest == [pc |-> "none", job |-> 0]
Live(s) == stream[s].client
Fault(kind) == kind \in Faults /\ Len(faults) < MaxFaults /\ faults' = Append(faults, kind)
Happened(kind) == \E i \in 1..Len(faults) : faults[i] = kind

\* (slip) a job newer than any there is
LoadingAsNewest == MaxVersion + 1
Loading == 0

Init == /\ version = 1
        /\ unpublished = {}
        /\ stream = [s \in Sockets |-> NoStream]
        /\ page = "closed"
        /\ timer = FALSE
        /\ request = [r \in Requests |-> NoRequest]
        /\ shown = Loading
        /\ faults = << >>

-----------------------------------------------------------------------------
(* The job changes.  Of what changes it only complete publishes: not        *)
(* claim_next_job, mark_running, the reaper or the analysis.                *)

Change ==
    /\ version < MaxVersion
    /\ version' = version + 1
    /\ unpublished' \in {unpublished, unpublished \cup {version + 1}}
    /\ UNCHANGED <<stream, page, timer, request, shown, faults>>

Publish(v) ==
    /\ v \in unpublished
    /\ unpublished' = unpublished \ {v}
    /\ stream' = [s \in Sockets |-> IF stream[s].pc = "subscribed"
                                    THEN [stream[s] EXCEPT !.queue = Append(@, v)]
                                    ELSE stream[s]]
    /\ UNCHANGED <<version, page, timer, request, shown, faults>>

-----------------------------------------------------------------------------
(* refresh: fetch the job, show what comes back, whenever it does.          *)

Asked(r) == request[r].pc # "none"
NextRequest == CHOOSE r \in Requests : ~Asked(r) /\ \A q \in 1..(r - 1) : Asked(q)
Waiting == \E r \in Requests : request[r].pc \in {"sent", "read"}
\* (slip) not while an answer is outstanding
RefreshUnlessWaiting == IF Waiting THEN request ELSE [request EXCEPT ![NextRequest].pc = "sent"]
Refresh == [request EXCEPT ![NextRequest].pc = "sent"]

ReadJob(r) ==
    /\ request[r].pc = "sent"
    /\ request' = [request EXCEPT ![r] = [pc |-> "read", job |-> version]]
    /\ UNCHANGED <<version, unpublished, stream, page, timer, shown, faults>>

Answer(r) ==
    /\ request[r].pc = "read"
    /\ request' = [request EXCEPT ![r].pc = "answered"]
    /\ shown' = IF page = "open" THEN request[r].job ELSE shown
    /\ UNCHANGED <<version, unpublished, stream, page, timer, faults>>

\* The promise of getJob is rejected: nothing handles it.
RequestFails(r) ==
    /\ request[r].pc \in {"sent", "read"}
    /\ Fault("failed")
    /\ request' = [request EXCEPT ![r].pc = "failed"]
    /\ UNCHANGED <<version, unpublished, stream, page, timer, shown>>

-----------------------------------------------------------------------------
(* The page and its socket.                                                 *)

Unused(s) == stream[s].pc = "none" /\ \A u \in 1..(s - 1) : stream[u].pc # "none"
Connecting(s) == [stream EXCEPT ![s].pc = "connecting", ![s].client = TRUE]

Open ==
    /\ page = "closed"
    /\ page' = "open"
    /\ request' = Refresh
    /\ stream' = Connecting(1)
    /\ UNCHANGED <<version, unpublished, timer, shown, faults>>

TimerFired == FALSE

Reconnect(s) ==
    /\ timer /\ Unused(s)
    /\ timer' = TimerFired
    /\ stream' = Connecting(s)
    /\ UNCHANGED <<version, unpublished, page, request, shown, faults>>

\* The browser's end of the socket is gone; a handler that runs goes on.
Gone(s) == [stream EXCEPT ![s].client = FALSE,
                          ![s].pc = IF @ = "connecting" THEN "ended" ELSE @]

\* (slip) the second drop is final
TimerOnce == stream[2].pc = "none"
TimerSet == TRUE

\* onclose with wasClean = false: also when the connection is refused.
SocketDrops(s) ==
    /\ page = "open" /\ Live(s)
    /\ Fault("dropped")
    /\ stream' = Gone(s)
    /\ timer' = TimerSet
    /\ UNCHANGED <<version, unpublished, page, request, shown>>

\* (slip) the timer not cleared
TimerKept == timer
TimerCleared == FALSE

\* The page is unmounted: the cleanup of the effect.
Leave ==
    /\ page = "open"
    /\ Fault("left")
    /\ page' = "left"
    /\ timer' = TimerCleared
    /\ stream' = IF \E s \in Sockets : Live(s) THEN Gone(CHOOSE s \in Sockets : Live(s)) ELSE stream
    /\ UNCHANGED <<version, unpublished, request, shown>>

-----------------------------------------------------------------------------
(* stream_status.                                                           *)

Accept(s) ==
    /\ stream[s].pc = "connecting"
    /\ stream' = [stream EXCEPT ![s].pc = "accepted"]
    /\ UNCHANGED <<version, unpublished, page, timer, request, shown, faults>>

Subscribe(s) ==
    /\ stream[s].pc = "accepted"
    /\ stream' = [stream EXCEPT ![s].pc = "subscribed"]
    /\ UNCHANGED <<version, unpublished, page, timer, request, shown, faults>>

\* The handler ends otherwise, of a Redis error or with the server, which closes the
\* socket with a close frame: onclose with wasClean = true, no timer.
Close(s) ==
    /\ stream[s].pc \in {"accepted", "subscribed"}
    /\ Fault("closed")
    /\ stream' = [stream EXCEPT ![s] = Ended]
    /\ UNCHANGED <<version, unpublished, page, timer, request, shown>>

\* Sending to a browser that is gone raises WebSocketDisconnect, and only that does.
Forward(s) ==
    /\ stream[s].pc = "subscribed" /\ stream[s].queue # << >>
    /\ IF Live(s)
       THEN /\ stream' = [stream EXCEPT ![s].queue = Tail(@)]
            /\ request' = Refresh
       ELSE /\ stream' = [stream EXCEPT ![s] = Ended]
            /\ UNCHANGED request
    /\ UNCHANGED <<version, unpublished, page, timer, shown, faults>>

Next == \/ Change \/ Open \/ Leave
        \/ \E v \in 1..MaxVersion : Publish(v)
        \/ \E r \in Requests : ReadJob(r) \/ Answer(r) \/ RequestFails(r)
        \/ \E s \in Sockets : Reconnect(s) \/ SocketDrops(s)
                              \/ Accept(s) \/ Subscribe(s) \/ Close(s) \/ Forward(s)

Spec == Init /\ [][Next]_vars

\* Requests and handlers run on, and the timer fires after two seconds; nothing
\* obliges the job to change or the page to be opened.
FairSpec ==
    /\ Spec
    /\ \A v \in 1..MaxVersion : WF_vars(Publish(v))
    /\ \A r \in Requests : WF_vars(ReadJob(r)) /\ WF_vars(Answer(r))
    /\ \A s \in Sockets : /\ WF_vars(Reconnect(s)) /\ WF_vars(Accept(s))
                          /\ WF_vars(Subscribe(s)) /\ WF_vars(Forward(s))

-----------------------------------------------------------------------------
(***************************************************************************)
(* Properties                                                              *)
(***************************************************************************)
Versions == 0..MaxVersion

TypeOK ==
    /\ version \in 1..MaxVersion /\ unpublished \subseteq 1..MaxVersion
    /\ stream \in [Sockets -> [pc : {"none", "connecting", "accepted", "subscribed", "ended"},
                               client : BOOLEAN, queue : Seq(1..MaxVersion)]]
    /\ page \in {"closed", "open", "left"} /\ timer \in BOOLEAN
    /\ request \in [Requests -> [pc : {"none", "sent", "read", "answered", "failed"}, job : Versions]]
    /\ shown \in Versions /\ faults \in Seq(Faults)

\* Whatever drops, the page holds one socket at most and waits to reconnect only while
\* it has none; a page that was left holds none and does not connect again, though it
\* was left while it waited to reconnect.
OneSocket == /\ \A s, u \in Sockets : Live(s) /\ Live(u) => s = u
             /\ timer \/ page # "open" => \A s \in Sockets : ~Live(s)
             /\ timer => page = "open"

Subscribed == \E s \in Sockets : Live(s) /\ stream[s].pc = "subscribed"

\* A page that stays open gets its socket back after every unclean close, however many
\* there are and however early they come; a close by the server is final.
PageReconnects ==
    page = "open" ~> page = "left" \/ Subscribed \/ Happened("closed")

Received(v) == \E r \in Requests : request[r].pc = "answered" /\ request[r].job >= v
InQueue(s, v) == \E i \in 1..Len(stream[s].queue) : stream[s].queue[i] = v

\* A report that is published while the page is subscribed reaches it: the page gets
\* an answer that was read after the report's commit, unless it loses the socket
\* first or a request of its own.
PublishedReportIsFetched ==
    \A v \in 1..MaxVersion, s \in Sockets :
        Live(s) /\ InQueue(s, v) ~> Received(v) \/ ~Live(s) \/ Happened("failed")

\* useWebSocket.ts:46: "Only reconnect on unexpected closes (not clean teardown from
\* cleanup)."  So the page does after every close that is not its own.
UnexpectedCloseReconnects == page = "open" ~> page = "left" \/ Subscribed

\* api/websocket.py:7-9: "a client that connects mid-job gets an initial snapshot
\* fetched from the DB, then live deltas from here on".  So a report is in the
\* snapshot or in a delta, and the page shows it in the end.
ReportIsShown ==
    \A v \in 1..MaxVersion :
        v \in unpublished /\ page = "open" ~> page = "left" \/ [](shown >= v \/ page = "left")

\* api/websocket.py:49: "Yield control so we notice client disconnects promptly."
DisconnectIsNoticed ==
    \A s \in Sockets : stream[s].pc = "subscribed" /\ ~Live(s) ~> stream[s].pc = "ended"
=============================================================================
