------------------------- MODULE StatusStreamProofs -------------------------
(***************************************************************************)
(* Theorems about StatusStream: for any number of changes of the job, of   *)
(* drops and of failed requests.                                           *)
(***************************************************************************)
EXTENDS StatusStream, SequenceTheorems, TLAPS

\* The parts of TypeOK.
Stream == [pc : {"none", "connecting", "accepted", "subscribed", "ended"},
           client : BOOLEAN, queue : Seq(1..MaxVersion)]
RequestType == [pc : {"none", "sent", "read", "answered", "failed"}, job : Versions]

LEMMA Types == TypeOK <=>
    /\ version \in 1..MaxVersion /\ unpublished \subseteq 1..MaxVersion
    /\ stream \in [Sockets -> Stream]
    /\ page \in {"closed", "open", "left"} /\ timer \in BOOLEAN
    /\ request \in [Requests -> RequestType]
    /\ shown \in Versions /\ faults \in Seq(Faults)
  BY DEF TypeOK, Stream, RequestType

LEMMA TypesThen == TypeOK' <=>
    /\ version' \in 1..MaxVersion /\ unpublished' \subseteq 1..MaxVersion
    /\ stream' \in [Sockets -> Stream]
    /\ page' \in {"closed", "open", "left"} /\ timer' \in BOOLEAN
    /\ request' \in [Requests -> RequestType]
    /\ shown' \in Versions /\ faults' \in Seq(Faults)
  BY DEF TypeOK, Stream, RequestType

LEMMA FaultIs ==
    ASSUME NEW kind, faults \in Seq(Faults), Fault(kind)
    PROVE  faults' \in Seq(Faults)
  BY AppendProperties DEF Fault

LEMMA RefreshIs ==
    ASSUME request \in [Requests -> RequestType]
    PROVE  Refresh \in [Requests -> RequestType]
  BY DEF Refresh, RequestType

\* What a step may do to the page and its sockets, as long as none is opened: a socket
\* that was not live does not become so, and the timer is set with the last of them gone.
Closes == /\ \A s \in Sockets : Live(s)' => Live(s)
          /\ \/ page' = page /\ timer' = timer
             \/ /\ timer' => page' = "open"
                /\ \A s \in Sockets : ~Live(s)'

LEMMA ClosesKeeps == OneSocket /\ Closes => OneSocket'
  <1> SUFFICES ASSUME OneSocket, Closes PROVE OneSocket'
    OBVIOUS
  <1>1. \A s, u \in Sockets : Live(s)' /\ Live(u)' => s = u
    BY DEF OneSocket, Closes
  <1>2. timer' \/ page' # "open" => \A s \in Sockets : ~Live(s)'
    BY DEF OneSocket, Closes
  <1>3. timer' => page' = "open"
    BY DEF OneSocket, Closes
  <1>4. QED
    BY <1>1, <1>2, <1>3 DEF OneSocket

\* A socket is opened only when there is none, and takes the timer's place.
LEMMA OpensKeeps ==
    ASSUME OneSocket, NEW s \in Sockets, \A u \in Sockets : ~Live(u),
           \A u \in Sockets : Live(u)' => u = s \/ Live(u),
           timer' = FALSE, page' = "open"
    PROVE  OneSocket'
  <1>1. \A u \in Sockets : Live(u)' => u = s
    OBVIOUS
  <1>2. QED
    BY <1>1 DEF OneSocket

\* The socket that the browser lets go.
LEMMA GoneIs ==
    ASSUME stream \in [Sockets -> Stream], NEW s \in Sockets, stream' = Gone(s)
    PROVE  /\ stream' \in [Sockets -> Stream]
           /\ ~Live(s)' /\ \A u \in Sockets : Live(u)' => Live(u)
  BY DEF Gone, Stream, Live

LEMMA ConnectingIs ==
    ASSUME stream \in [Sockets -> Stream], NEW s \in Sockets, stream' = Connecting(s)
    PROVE  /\ stream' \in [Sockets -> Stream]
           /\ \A u \in Sockets : Live(u)' => u = s \/ Live(u)
  BY DEF Connecting, Stream, Live

LEMMA EndedIs == Ended \in Stream /\ Ended.client = FALSE
  BY EmptySeq DEF Ended, Stream

Safe == TypeOK /\ OneSocket

LEMMA SafeInit == Init => Safe
  <1> SUFFICES ASSUME Init PROVE Safe
    OBVIOUS
  <1>1. NoStream \in Stream /\ NoStream.client = FALSE /\ NoRequest \in RequestType
    BY BoundsAssumption DEF NoStream, Stream, NoRequest, RequestType, Versions
  <1>2. TypeOK
    <2>1. /\ version \in 1..MaxVersion /\ unpublished \subseteq 1..MaxVersion /\ shown \in Versions
      BY BoundsAssumption DEF Init, Versions, Loading
    <2>2. faults \in Seq(Faults) /\ page \in {"closed", "open", "left"}
      BY EmptySeq DEF Init
    <2>3. timer \in BOOLEAN
      BY DEF Init
    <2>4. stream \in [Sockets -> Stream] /\ request \in [Requests -> RequestType]
      BY <1>1 DEF Init
    <2>5. QED
      BY <2>1, <2>4, <2>2, <2>3, Types
  <1>3. OneSocket
    BY <1>1 DEF Init, OneSocket, Live
  <1>4. QED
    BY <1>2, <1>3 DEF Safe

LEMMA SafeStep == Safe /\ [Next]_vars => Safe'
  <1> SUFFICES ASSUME Safe, [Next]_vars PROVE Safe'
    OBVIOUS
  <1>t. /\ version \in 1..MaxVersion /\ unpublished \subseteq 1..MaxVersion
        /\ stream \in [Sockets -> Stream]
        /\ page \in {"closed", "open", "left"} /\ timer \in BOOLEAN
        /\ request \in [Requests -> RequestType]
        /\ shown \in Versions /\ faults \in Seq(Faults)
        /\ MaxVersion \in Nat /\ MaxFaults \in Nat /\ OneSocket
    BY Types, BoundsAssumption DEF Safe
  <1>q. TypeOK' /\ Closes => Safe'
    BY <1>t, ClosesKeeps DEF Safe
  <1>s. UNCHANGED <<stream, page, timer>> => Closes
    BY DEF Closes, Live
  <1>1. CASE Change
    <2>1. version' \in 1..MaxVersion /\ unpublished' \subseteq 1..MaxVersion
      BY <1>1, <1>t DEF Change
    <2>2. QED
      BY <1>1, <1>q, <1>s, <1>t, <2>1, TypesThen DEF Change
  <1>2. ASSUME NEW v \in 1..MaxVersion, Publish(v) PROVE Safe'
    <2>1. /\ unpublished' \subseteq 1..MaxVersion
          /\ UNCHANGED <<version, page, timer, request, shown, faults>>
          /\ stream' = [s \in Sockets |-> IF stream[s].pc = "subscribed"
                                          THEN [stream[s] EXCEPT !.queue = Append(@, v)] ELSE stream[s]]
      BY <1>2, <1>t DEF Publish
    <2>2. \A s \in Sockets : Append(stream[s].queue, v) \in Seq(1..MaxVersion)
      BY <1>t, AppendProperties DEF Stream
    <2>3. \A s \in Sockets : stream'[s] \in Stream /\ stream'[s].client = stream[s].client
      BY <1>t, <2>1, <2>2 DEF Stream
    <2>4. stream' \in [Sockets -> Stream]
      BY <2>1, <2>3
    <2>5. Closes
      BY <2>1, <2>3 DEF Closes, Live
    <2>6. QED
      BY <1>q, <1>t, <2>1, <2>4, <2>5, TypesThen
  <1>3. ASSUME NEW r \in Requests, ReadJob(r) \/ Answer(r) \/ RequestFails(r) PROVE Safe'
    <2>1. UNCHANGED <<version, unpublished, stream, page, timer>>
      BY <1>3 DEF ReadJob, Answer, RequestFails
    <2>2. request' \in [Requests -> RequestType]
      <3>1. CASE ReadJob(r)
        <4>1. [pc |-> "read", job |-> version] \in RequestType
          BY <1>t DEF RequestType, Versions
        <4>2. QED
          BY <1>t, <3>1, <4>1 DEF ReadJob
      <3>2. CASE Answer(r) \/ RequestFails(r)
        <4>1. \E pc \in {"answered", "failed"} : request' = [request EXCEPT ![r].pc = pc]
          BY <3>2 DEF Answer, RequestFails
        <4>2. QED
          BY <1>t, <4>1 DEF RequestType
      <3>3. QED
        BY <1>3, <3>1, <3>2
    <2>3. shown' \in Versions
      BY <1>3, <1>t DEF ReadJob, Answer, RequestFails, RequestType
    <2>4. faults' \in Seq(Faults)
      BY <1>3, <1>t, FaultIs DEF ReadJob, Answer, RequestFails
    <2>5. QED
      BY <1>q, <1>s, <1>t, <2>1, <2>2, <2>3, <2>4, TypesThen
  <1>4. CASE Open
    <2>1. /\ page = "closed" /\ page' = "open" /\ request' = Refresh /\ stream' = Connecting(1)
          /\ UNCHANGED <<version, unpublished, timer, shown, faults>> /\ 1 \in Sockets
      BY <1>4, <1>t DEF Open, Sockets
    <2>2. timer = FALSE /\ \A u \in Sockets : ~Live(u)
      BY <1>t, <2>1 DEF OneSocket
    <2>3. stream' \in [Sockets -> Stream] /\ \A u \in Sockets : Live(u)' => u = 1 \/ Live(u)
      BY <1>t, <2>1, ConnectingIs
    <2>4. TypeOK'
      BY <1>t, <2>1, <2>3, RefreshIs, TypesThen
    <2>5. OneSocket'
      BY <1>t, <2>1, <2>2, <2>3, OpensKeeps
    <2>6. QED
      BY <2>4, <2>5 DEF Safe
  <1>5. ASSUME NEW s \in Sockets, Reconnect(s) PROVE Safe'
    <2>1. /\ timer /\ timer' = FALSE /\ stream' = Connecting(s)
          /\ UNCHANGED <<version, unpublished, page, request, shown, faults>>
      BY <1>5 DEF Reconnect, TimerFired
    <2>2. page = "open" /\ \A u \in Sockets : ~Live(u)
      BY <1>t, <2>1 DEF OneSocket
    <2>3. stream' \in [Sockets -> Stream] /\ \A u \in Sockets : Live(u)' => u = s \/ Live(u)
      BY <1>t, <2>1, ConnectingIs
    <2>4. TypeOK'
      BY <1>t, <2>1, <2>3, TypesThen
    <2>5. OneSocket'
      BY <1>t, <2>1, <2>2, <2>3, OpensKeeps
    <2>6. QED
      BY <2>4, <2>5 DEF Safe
  <1>6. ASSUME NEW s \in Sockets, SocketDrops(s) PROVE Safe'
    <2>1. /\ page = "open" /\ Live(s) /\ stream' = Gone(s) /\ timer' = TRUE /\ Fault("dropped")
          /\ UNCHANGED <<version, unpublished, page, request, shown>>
      BY <1>6 DEF SocketDrops, TimerSet
    <2>2. /\ stream' \in [Sockets -> Stream] /\ ~Live(s)' /\ \A u \in Sockets : Live(u)' => Live(u)
      BY <1>t, <2>1, GoneIs
    <2>3. \A u \in Sockets : ~Live(u)'
      BY <1>t, <2>1, <2>2 DEF OneSocket
    <2>4. Closes
      BY <2>1, <2>2, <2>3 DEF Closes
    <2>5. QED
      BY <1>q, <1>t, <2>1, <2>2, <2>4, FaultIs, TypesThen
  <1>7. CASE Leave
    <2>1. /\ page = "open" /\ page' = "left" /\ timer' = FALSE /\ Fault("left")
          /\ UNCHANGED <<version, unpublished, request, shown>>
          /\ stream' = IF \E s \in Sockets : Live(s) THEN Gone(CHOOSE s \in Sockets : Live(s)) ELSE stream
      BY <1>7 DEF Leave, TimerCleared
    <2>2. stream' \in [Sockets -> Stream] /\ \A u \in Sockets : ~Live(u)'
      <3>1. CASE \E s \in Sockets : Live(s)
        <4>1. PICK s \in Sockets : Live(s) /\ stream' = Gone(s)
          BY <2>1, <3>1
        <4>2. stream' \in [Sockets -> Stream] /\ ~Live(s)' /\ \A u \in Sockets : Live(u)' => Live(u)
          BY <1>t, <4>1, GoneIs
        <4>3. QED
          BY <1>t, <4>1, <4>2 DEF OneSocket
      <3>2. CASE ~\E s \in Sockets : Live(s)
        BY <1>t, <2>1, <3>2 DEF Live
      <3>3. QED
        BY <3>1, <3>2
    <2>3. Closes
      BY <2>1, <2>2 DEF Closes
    <2>4. QED
      BY <1>q, <1>t, <2>1, <2>2, <2>3, FaultIs, TypesThen
  <1>8. ASSUME NEW s \in Sockets, Accept(s) \/ Subscribe(s) PROVE Safe'
    <2>1. /\ UNCHANGED <<version, unpublished, page, timer, request, shown, faults>>
          /\ \E pc \in {"accepted", "subscribed"} : stream' = [stream EXCEPT ![s].pc = pc]
      BY <1>8 DEF Accept, Subscribe
    <2>2. PICK pc \in {"accepted", "subscribed"} : stream' = [stream EXCEPT ![s].pc = pc]
      BY <2>1
    <2>3. /\ stream' \in [Sockets -> Stream]
          /\ \A u \in Sockets : stream'[u].client = stream[u].client
      BY <1>t, <2>2 DEF Stream
    <2>4. Closes
      BY <2>1, <2>3 DEF Closes, Live
    <2>5. QED
      BY <1>q, <1>t, <2>1, <2>3, <2>4, TypesThen
  <1>c. ASSUME NEW s \in Sockets, Close(s) PROVE Safe'
    <2>1. /\ stream' = [stream EXCEPT ![s] = Ended] /\ Fault("closed")
          /\ UNCHANGED <<version, unpublished, page, timer, request, shown>>
      BY <1>c DEF Close
    <2>2. /\ stream' \in [Sockets -> Stream]
          /\ \A u \in Sockets : stream'[u].client => stream[u].client
      BY <1>t, <2>1, EndedIs
    <2>3. Closes
      BY <2>1, <2>2 DEF Closes, Live
    <2>4. QED
      BY <1>q, <1>t, <2>1, <2>2, <2>3, FaultIs, TypesThen
  <1>9. ASSUME NEW s \in Sockets, Forward(s) PROVE Safe'
    <2>1. /\ UNCHANGED <<version, unpublished, page, timer, shown, faults>>
          /\ stream[s].queue # << >> /\ request' \in {request, Refresh}
          /\ \/ stream' = [stream EXCEPT ![s].queue = Tail(@)]
             \/ stream' = [stream EXCEPT ![s] = Ended]
      BY <1>9 DEF Forward
    <2>2. Tail(stream[s].queue) \in Seq(1..MaxVersion)
      BY <1>t, <2>1, HeadTailProperties DEF Stream
    <2>3. CASE stream' = [stream EXCEPT ![s].queue = Tail(@)]
      <3>1. /\ stream' \in [Sockets -> Stream]
            /\ \A u \in Sockets : stream'[u].client = stream[u].client
        BY <1>t, <2>2, <2>3 DEF Stream
      <3>2. QED
        BY <2>1, <3>1, <1>q, <1>t, RefreshIs, TypesThen DEF Closes, Live
    <2>4. CASE stream' = [stream EXCEPT ![s] = Ended]
      <3>1. /\ stream' \in [Sockets -> Stream]
            /\ \A u \in Sockets : stream'[u].client => stream[u].client
        BY <1>t, <2>4, EndedIs DEF Stream
      <3>2. QED
        BY <2>1, <3>1, <1>q, <1>t, RefreshIs, TypesThen DEF Closes, Live
    <2>5. QED
      BY <2>1, <2>3, <2>4
  <1>10. CASE UNCHANGED vars
    BY <1>10, <1>q, <1>s, <1>t, TypesThen DEF vars
  <1>11. QED
    BY <1>1, <1>2, <1>3, <1>4, <1>5, <1>6, <1>7, <1>8, <1>c, <1>9, <1>10 DEF Next

\* Types, for any number of changes and faults.
THEOREM TypeCorrect == Spec => []TypeOK
  <1>1. Safe => TypeOK
    BY DEF Safe
  <1>2. QED
    BY <1>1, SafeInit, SafeStep, PTL DEF Spec

\* However often the socket drops, and whenever the page is left: it holds one socket
\* at most, a timer only instead of one, and nothing once it was left.
THEOREM OneSocketAtMost == Spec => []OneSocket
  <1>1. Safe => OneSocket
    BY DEF Safe
  <1>2. QED
    BY <1>1, SafeInit, SafeStep, PTL DEF Spec
=============================================================================
