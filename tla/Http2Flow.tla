------------------------------ MODULE Http2Flow ------------------------------
(***************************************************************************)
(* An HTTP/2 connection between two galay endpoints: the stream table, the *)
(* stream states, flow control in both directions, SETTINGS, RST_STREAM    *)
(* and GOAWAY, as Http2StreamManager runs them over Http2Stream and        *)
(* Http2Conn.  The client's tasks post requests and wait for the response; *)
(* the server's tasks answer them.                                         *)
(*                                                                         *)
(* An endpoint is one record, and a handler of the code is an operator     *)
(* from records to records.  The reader takes a batch of frames, handles   *)
(* them and then runs what it has deferred, all without suspending: one    *)
(* step.  A task's call is one step.  `out' is the send channel and the    *)
(* network behind it: the writer keeps the order.  Header blocks,          *)
(* priorities and PING are left out; a body is a sequence of chunk sizes,  *)
(* and sizes are units that stand for a share of the default window.       *)
(***************************************************************************)
EXTENDS Integers, Sequences, FiniteSets, SequencesExt

CONSTANTS Ids,             \* streams, in the order in which the client opens them
          Default,         \* kDefaultInitialWindowSize
          MaxFrame,        \* max_frame_size
          MaxWindow,       \* 2^31 - 1
          MaxBatch,        \* frames of one readFramesBatch (bound)
          Connections      \* how a connection may be set up: records, see Init

ASSUME FlowAssumption ==
    /\ Ids \subseteq Nat \ {0} /\ IsFiniteSet(Ids)
    /\ Default \in Nat \ {0} /\ MaxFrame \in Nat \ {0} /\ MaxWindow \in Nat
    /\ MaxBatch \in Nat \ {0}

VARIABLES setup,   \* the member of Connections; never changes
          conn,    \* the two endpoints
          task     \* task[e][s]: where the task of stream s is

flowVars == <<setup, conn, task>>

Ends == {"client", "server"}
Peer(e) == IF e = "client" THEN "server" ELSE "client"
Low(a, b) == IF a < b THEN a ELSE b

\* Http2Stream::create and resetForReuse: both windows start at the default.
NewStream ==
    [m_state |-> "Idle", m_send_window |-> Default, m_recv_window |-> Default,
     m_pending_data |-> <<>>, m_frame_queue_closed |-> FALSE,
     completed |-> FALSE,   \* m_response_completed or m_request_completed
     sent |-> FALSE]        \* the waiter of the reply has been notified

Endpoint(e) ==
    [client |-> e = "client",
     active |-> e = "server" /\ setup.mode = "active",
     streams |-> [s \in Ids |-> NewStream],
     m_streams |-> {},      \* the ids in the table
     send |-> Default, recv |-> Default,
     initial |-> Default,   \* initial_window_size of the peer's settings
     actions |-> <<>>, retired |-> {}, spawns |-> {},
     limit |-> setup.limit, \* max_concurrent_streams
     last |-> 0, reject |-> FALSE, goaway_sent |-> FALSE,
     out |-> <<>>]

HEADERS(s, end) == [type |-> "HEADERS", id |-> s, end |-> end]
DATA(s, n, end) == [type |-> "DATA", id |-> s, size |-> n, end |-> end]
RST_STREAM(s, code) == [type |-> "RST_STREAM", id |-> s, code |-> code]
WINDOW_UPDATE(s, n) == [type |-> "WINDOW_UPDATE", id |-> s, size |-> n]
SETTINGS(n) == [type |-> "SETTINGS", id |-> 0, size |-> n]
GOAWAY(s, code) == [type |-> "GOAWAY", id |-> 0, last |-> s, code |-> code]

Enqueue(ep, f) == [ep EXCEPT !.out = Append(@, f)]
Defer(ep, f) == [ep EXCEPT !.actions = Append(@, f)]

-----------------------------------------------------------------------------
(* Stream states *)

canReceiveHeaders(st) ==
    st.m_state \in {"Idle", "ReservedRemote", "Open", "HalfClosedLocal"}
canReceiveData(st) == st.m_state \in {"Open", "HalfClosedLocal"}

\* The state changes, and notifyRetireIfClosed tells a server in active mode.
MoveTo(ep, s, state) ==
    [ep EXCEPT !.streams[s].m_state = state,
               !.retired = IF state = "Closed" /\ ep.active THEN @ \cup {s} ELSE @]

\* Mutant: END_STREAM closes the stream whoever has ended it.
AfterReceived_Closes(state, end) ==
    IF ~end THEN IF state = "Idle" THEN "Open" ELSE state ELSE "Closed"

\* onHeadersReceived, onDataReceived.
AfterReceived(state, end) ==
    LET opened == IF state = "Idle" THEN "Open" ELSE state
    IN IF ~end THEN opened
       ELSE CASE opened = "Open" -> "HalfClosedRemote"
              [] opened = "HalfClosedLocal" -> "Closed"
              [] OTHER -> opened

\* onHeadersSent, onDataSent.
AfterSent(state, end) ==
    LET opened == IF state = "Idle" THEN "Open"
                  ELSE IF state = "ReservedLocal" THEN "HalfClosedRemote" ELSE state
    IN IF ~end THEN opened
       ELSE CASE opened = "Open" -> "HalfClosedLocal"
              [] opened = "HalfClosedRemote" -> "Closed"
              [] OTHER -> opened

\* closeFrameQueue: once; the waiters of data that still waits are notified.
closeFrameQueue(ep, s) ==
    LET st == ep.streams[s]
    IN IF st.m_frame_queue_closed THEN ep
       ELSE [ep EXCEPT !.streams[s] =
                [st EXCEPT !.m_frame_queue_closed = TRUE, !.completed = TRUE,
                           !.sent = @ \/ st.m_pending_data # <<>>,
                           !.m_pending_data = <<>>]]

-----------------------------------------------------------------------------
(* Sending *)

consumeDataSendWindow(ep, s, n) ==
    [ep EXCEPT !.streams[s].m_send_window = @ - n, !.send = @ - n]

\* min over what is left, the frame size and the two windows.
availableDataChunkSize(ep, s, left) ==
    LET room == Low(ep.streams[s].m_send_window, ep.send)
    IN IF room <= 0 THEN 0 ELSE Low(left, Low(MaxFrame, room))

\* flushPendingData: the front of the queue goes out, a chunk at a time, until
\* a window is used up.  It does not look at the stream's state.
RECURSIVE flushPendingData(_, _)
flushPendingData(ep, s) ==
    LET st == ep.streams[s]
    IN IF st.m_pending_data = <<>> THEN ep
       ELSE LET front == Head(st.m_pending_data)
                chunk == availableDataChunkSize(ep, s, front.left)
                final == chunk = front.left
                end == front.end /\ final
                rest == IF final THEN Tail(st.m_pending_data)
                        ELSE <<[front EXCEPT !.left = @ - chunk]>> \o Tail(st.m_pending_data)
                out == Enqueue(consumeDataSendWindow(ep, s, chunk), DATA(s, chunk, end))
                moved == MoveTo(out, s, AfterSent(st.m_state, end))
            IN IF chunk = 0 /\ ~final THEN ep
               ELSE flushPendingData(
                       [moved EXCEPT !.streams[s].m_pending_data = rest,
                                     !.streams[s].sent = @ \/ (final /\ front.end)], s)

queueDataForSend(ep, s, left, end) ==
    flushPendingData(
        [ep EXCEPT !.streams[s].m_pending_data = Append(@, [left |-> left, end |-> end])], s)

\* sendHeaders(headers, end_stream): in one frame.
sendHeaders(ep, s, end) ==
    LET moved == MoveTo(Enqueue(ep, HEADERS(s, end)), s,
                        AfterSent(ep.streams[s].m_state, end))
    IN [moved EXCEPT !.streams[s].sent = @ \/ end]

RECURSIVE sendDataChunks(_, _, _)
sendDataChunks(ep, s, body) ==
    IF body = <<>> THEN ep
    ELSE sendDataChunks(queueDataForSend(ep, s, Head(body), Len(body) = 1), s, Tail(body))

\* sendHeadersAndDataChunks: the last chunk ends the stream and has the waiter.
sendHeadersAndDataChunks(ep, s, body) ==
    sendDataChunks(sendHeaders(ep, s, body = <<>>), s, body)

sendRstStream(ep, s, code) == Enqueue(MoveTo(ep, s, "Closed"), RST_STREAM(s, code))

-----------------------------------------------------------------------------
(* The frames of the connection *)

RECURSIVE FlushAll(_, _)
FlushAll(ep, order) ==
    IF order = <<>> THEN ep ELSE FlushAll(flushPendingData(ep, Head(order)), Tail(order))

\* SETTINGS: the windows of the streams in the table follow the change.
handleSettings(ep, f, order) ==
    LET delta == f.size - ep.initial
        next(s) == ep.streams[s].m_send_window + delta
        adjusted == [ep EXCEPT
            !.initial = f.size,
            !.streams = [s \in Ids |-> IF s \in ep.m_streams
                THEN [ep.streams[s] EXCEPT !.m_send_window = next(s)]
                ELSE ep.streams[s]]]
    IN IF \/ f.size > MaxWindow   \* applySettings
          \/ \E s \in ep.m_streams : next(s) > MaxWindow \/ next(s) < -MaxWindow - 1
       THEN Defer(ep, GOAWAY(0, "FlowControlError"))
       ELSE Enqueue(FlushAll(adjusted, order),
                    [type |-> "ACK", id |-> 0])

\* Mutant: the window grows, and the data that waits for it stays.
handleConnWindowUpdate_NoFlush(ep, f, order) ==
    IF ep.send + f.size > MaxWindow
    THEN Defer(ep, GOAWAY(0, "FlowControlError"))
    ELSE [ep EXCEPT !.send = @ + f.size]

\* The connection's window grows: the data of every stream may go on.
handleConnWindowUpdate(ep, f, order) ==
    IF ep.send + f.size > MaxWindow
    THEN Defer(ep, GOAWAY(0, "FlowControlError"))
    ELSE FlushAll([ep EXCEPT !.send = @ + f.size], order)

\* GOAWAY: no new streams; a client gives up the streams the peer will not serve.
handleGoAway(ep, f) ==
    LET given_up == {s \in ep.m_streams : ep.client /\ s > f.last}
    IN [ep EXCEPT !.reject = TRUE,
                  !.streams = [s \in Ids |-> IF s \in given_up
                      THEN closeFrameQueue(ep, s).streams[s] ELSE ep.streams[s]]]

-----------------------------------------------------------------------------
(* The frames of a stream *)

\* tryRetireClientStream
tryRetireClientStream(ep, s) ==
    IF ep.client /\ ep.streams[s].completed /\ ep.streams[s].m_state = "Closed"
    THEN [ep EXCEPT !.m_streams = @ \ {s}] ELSE ep

drainRetiredStreams(ep) ==
    [ep EXCEPT !.m_streams = @ \ ep.retired, !.retired = {}]

createStreamInternal(ep, s) ==
    LET drained == drainRetiredStreams(ep)
    IN [drained EXCEPT !.m_streams = @ \cup {s}, !.streams[s] = NewStream]

\* The request or the response is complete: its waiter is notified.
Complete(ep, s, end) == [ep EXCEPT !.streams[s].completed = @ \/ end]

\* handleHeadersFrame on a stream of the table, completeReceivedHeaders.
ReceiveHeaders(ep, f) ==
    LET s == f.id
        moved == Complete(MoveTo(ep, s, AfterReceived(ep.streams[s].m_state, f.end)), s, f.end)
        spawned == IF ep.client THEN moved ELSE [moved EXCEPT !.spawns = @ \cup {s}]
    IN IF ~canReceiveHeaders(ep.streams[s]) THEN Defer(ep, RST_STREAM(s, "StreamClosed"))
       ELSE tryRetireClientStream(spawned, s)

\* handleHeadersFrame, findOrCreateHeadersStream.
handleHeadersFrame(ep, f) ==
    LET refusing == ep.reject \/ ep.goaway_sent
    IN IF f.id \in ep.m_streams THEN ReceiveHeaders(ep, f)
       ELSE IF ep.client \/ (~refusing /\ f.id <= ep.last)
            THEN Defer(ep, GOAWAY(0, "ProtocolError"))
       ELSE IF refusing \/ Cardinality(ep.m_streams) >= ep.limit
            THEN Defer(ep, RST_STREAM(f.id, "RefusedStream"))
       ELSE ReceiveHeaders([createStreamInternal(ep, f.id) EXCEPT !.last = f.id], f)

\* evaluateRecvWindowUpdate without a strategy of the user's: a window below 3/4
\* of its target, a uint32_t, is filled up.
Increment(window, target) ==
    IF window < ((target * 3) % (2 * (MaxWindow + 1))) \div 4 THEN target - window ELSE 0

\* Mutant: the increment is sent and not counted.
Refill_Uncounted(ep, s, targets) ==
    LET c == Increment(ep.recv, targets.conn)
        i == Increment(ep.streams[s].m_recv_window, targets.stream)
        first == IF c = 0 THEN ep ELSE Defer(ep, WINDOW_UPDATE(0, c))
    IN IF i = 0 THEN first
       ELSE Defer([first EXCEPT !.streams[s].m_recv_window = @ + i], WINDOW_UPDATE(s, i))

\* applyRecvWindowUpdate
Refill(ep, s, targets) ==
    LET c == Increment(ep.recv, targets.conn)
        i == Increment(ep.streams[s].m_recv_window, targets.stream)
        first == IF c = 0 THEN ep
                 ELSE Defer([ep EXCEPT !.recv = @ + c], WINDOW_UPDATE(0, c))
    IN IF i = 0 THEN first
       ELSE Defer([first EXCEPT !.streams[s].m_recv_window = @ + i], WINDOW_UPDATE(s, i))

\* handleDataFrame.  Data for a stream that is gone or ended is not counted.
handleDataFrame(ep, f, targets) ==
    LET s == f.id
        moved == MoveTo(ep, s, AfterReceived(ep.streams[s].m_state, f.end))
        debited == [moved EXCEPT !.recv = @ - f.size,
                                 !.streams[s].m_recv_window = @ - f.size]
    IN IF s \notin ep.m_streams \/ ~canReceiveData(ep.streams[s])
       THEN Defer(ep, RST_STREAM(s, "StreamClosed"))
       ELSE IF f.size > ep.recv THEN Defer(ep, GOAWAY(0, "FlowControlError"))
       ELSE IF f.size > ep.streams[s].m_recv_window
            THEN Defer(ep, RST_STREAM(s, "FlowControlError"))
       ELSE tryRetireClientStream(Complete(Refill(debited, s, targets), s, f.end), s)

handleRstStreamFrame(ep, f) ==
    IF f.id \notin ep.m_streams THEN ep
    ELSE tryRetireClientStream(
            closeFrameQueue(Complete(MoveTo(ep, f.id, "Closed"), f.id, TRUE), f.id), f.id)

handleWindowUpdateFrame(ep, f) ==
    IF f.id \notin ep.m_streams THEN ep
    ELSE IF ep.streams[f.id].m_send_window + f.size > MaxWindow
         THEN Defer(ep, RST_STREAM(f.id, "FlowControlError"))
    ELSE flushPendingData([ep EXCEPT !.streams[f.id].m_send_window = @ + f.size], f.id)

-----------------------------------------------------------------------------
(* The reader *)

\* readerLoop's dispatch of one frame.
Dispatch(ep, f, order, targets) ==
    CASE f.type = "SETTINGS" -> handleSettings(ep, f, order)
      [] f.type = "ACK" -> ep
      [] f.type = "GOAWAY" -> handleGoAway(ep, f)
      [] f.type = "WINDOW_UPDATE" /\ f.id = 0 -> handleConnWindowUpdate(ep, f, order)
      [] f.type = "WINDOW_UPDATE" /\ f.id # 0 -> handleWindowUpdateFrame(ep, f)
      [] f.type = "HEADERS" -> handleHeadersFrame(ep, f)
      [] f.type = "DATA" -> handleDataFrame(ep, f, targets)
      [] f.type = "RST_STREAM" -> handleRstStreamFrame(ep, f)

RECURSIVE DispatchAll(_, _, _, _)
DispatchAll(ep, frames, order, targets) ==
    IF frames = <<>> THEN ep
    ELSE DispatchAll(Dispatch(ep, Head(frames),
                              SelectSeq(order, LAMBDA s : s \in ep.m_streams), targets),
                     Tail(frames), order, targets)

\* processPendingActions; enqueueGoaway names the last stream that was accepted.
RECURSIVE processPendingActions(_)
processPendingActions(ep) ==
    IF ep.actions = <<>> THEN ep
    ELSE LET f == Head(ep.actions)
             x == [ep EXCEPT !.actions = Tail(@)]
         IN processPendingActions(
                CASE f.type = "GOAWAY" ->
                        Enqueue([x EXCEPT !.goaway_sent = TRUE], GOAWAY(x.last, f.code))
                  [] f.type = "RST_STREAM" /\ f.id \in x.m_streams ->
                        Enqueue(MoveTo(x, f.id, "Closed"), f)
                  [] OTHER -> Enqueue(x, f))

\* The end of a batch.  readerLoop cleans the table in active mode only,
\* sslServiceLoop in the other mode only.
FinishBatch(ep) ==
    LET done == processPendingActions(ep)
    IN [(IF ep.active # setup.tls THEN drainRetiredStreams(done) ELSE done)
        EXCEPT !.spawns = {}]

\* The windows the endpoint fills up to: flow_control_target_window and the
\* local initial_window_size, or what stands for them when they are zero.
Targets(e) ==
    LET stream == IF setup.initial[e] = 0 THEN Default ELSE setup.initial[e]
    IN [conn |-> IF setup.target = 0 THEN stream ELSE setup.target, stream |-> stream]

\* readerLoop: a batch of n frames, and the handlers it spawns.
Read(e) ==
    LET in == conn[Peer(e)].out
    IN /\ in # <<>>
       /\ \E n \in 1..Low(MaxBatch, Len(in)), order \in SetToSeqs(conn[e].m_streams) :
             LET handled == DispatchAll(conn[e], SubSeq(in, 1, n), order, Targets(e))
             IN /\ conn' = [conn EXCEPT ![e] = FinishBatch(handled),
                                        ![Peer(e)].out = SubSeq(in, n + 1, Len(in))]
                /\ task' = [task EXCEPT ![e] =
                       [s \in Ids |-> IF s \in handled.spawns /\ task[e][s] = "idle"
                                      THEN "serve" ELSE task[e][s]]]
       /\ UNCHANGED setup

\* sslServiceLoop also cleans the table between two batches.
Sweep(e) ==
    /\ setup.tls
    /\ conn[e].retired # {}
    /\ conn' = [conn EXCEPT ![e] = drainRetiredStreams(@)]
    /\ UNCHANGED <<setup, task>>

-----------------------------------------------------------------------------
(* The tasks *)

To(e, s, label) == task' = [task EXCEPT ![e][s] = label]

\* H2cClient::get and post: a new stream, its headers and its body.
Post(s) ==
    /\ task.client[s] = "idle"
    /\ \A i \in Ids : i < s => task.client[i] # "idle"
    /\ setup.ahead \/ \A i \in Ids : i < s => task.client[i] = "done"
    /\ conn' = [conn EXCEPT !.client =
           sendHeadersAndDataChunks(createStreamInternal(@, s), s, setup.request)]
    /\ To("client", s, "wait")
    /\ UNCHANGED setup

\* waitResponseComplete
Answered(s) ==
    /\ task.client[s] = "wait"
    /\ conn.client.streams[s].completed
    /\ To("client", s, "done")
    /\ UNCHANGED <<setup, conn>>

\* The client gives its request up.
Cancel(s) ==
    /\ setup.cancels
    /\ task.client[s] = "wait"
    /\ conn' = [conn EXCEPT !.client = sendRstStream(@, s, "Cancel")]
    /\ To("client", s, "done")
    /\ UNCHANGED setup

\* A handler answers, once the request is complete unless it is eager.
Serve(s) ==
    /\ task.server[s] = "serve"
    /\ setup.eager \/ conn.server.streams[s].completed
    /\ conn' = [conn EXCEPT !.server = sendHeadersAndDataChunks(@, s, setup.response)]
    /\ To("server", s, "reply")
    /\ UNCHANGED setup

\* The handler returns, after its reply has been sent unless it does not wait
\* (send... instead of reply...); runHandler retires the stream.
Return(s) ==
    /\ task.server[s] = "reply"
    /\ setup.waits => conn.server.streams[s].sent
    /\ conn' = [conn EXCEPT !.server.retired = IF conn.server.active THEN @ ELSE @ \cup {s}]
    /\ To("server", s, "done")
    /\ UNCHANGED setup

-----------------------------------------------------------------------------
\* Each end sends its SETTINGS first.  A client that has read the server's
\* during the upgrade (h2c) starts with them; one that has not (TLS) may post
\* before they arrive.  prepareForStart opens the server's connection window.
FlowInit ==
    /\ setup \in Connections
    /\ LET more == IF setup.target > Default THEN setup.target - Default ELSE 0
       IN conn =
          [client |-> [Endpoint("client") EXCEPT
                           !.out = <<SETTINGS(setup.initial.client)>>,
                           !.initial = IF setup.tls THEN @ ELSE setup.initial.server],
           server |-> [Endpoint("server") EXCEPT
                           !.out = IF setup.tls THEN <<SETTINGS(setup.initial.server)>>
                                   ELSE <<>>,
                           !.recv = @ + more,
                           !.actions = IF more = 0 THEN <<>> ELSE <<WINDOW_UPDATE(0, more)>>]]
    /\ task = [e \in Ends |-> [s \in Ids |-> "idle"]]

TaskStep(s) == Post(s) \/ Answered(s) \/ Serve(s) \/ Return(s)

FlowNext ==
    \/ \E e \in Ends : Read(e) \/ Sweep(e)
    \/ \E s \in Ids : TaskStep(s) \/ Cancel(s)

FlowSpec == FlowInit /\ [][FlowNext]_flowVars

\* The readers and the tasks run; nobody need post or cancel.  Weak fairness
\* of Read(e) and of Serve(s) is written out, with what enables them.
ReaderRuns(e) ==
    <>[](conn[Peer(e)].out # <<>>) => []<><<Read(e)>>_flowVars
HandlerRuns(s) ==
    <>[](task.server[s] = "serve" /\ (setup.eager \/ conn.server.streams[s].completed)) =>
        []<><<Serve(s)>>_flowVars
FlowFairness ==
    /\ \A e \in Ends : ReaderRuns(e)
    /\ \A s \in Ids : HandlerRuns(s) /\ WF_flowVars(Answered(s)) /\ WF_flowVars(Return(s))
FlowFairSpec == FlowSpec /\ FlowFairness

-----------------------------------------------------------------------------
(* Properties *)

Bytes(q, type, ids) ==
    FoldLeft(LAMBDA n, f : IF f.type = type /\ f.id \in ids THEN n + f.size ELSE n, 0, q)
Granted(e, s) ==
    Bytes(conn[e].out, "WINDOW_UPDATE", {s}) + Bytes(conn[e].actions, "WINDOW_UPDATE", {s})
About(e, s) ==
    {i \in DOMAIN conn[e].out : conn[e].out[i].id = s}
        \cup {i \in DOMAIN conn[e].actions : conn[e].actions[i].id = s}

\* Connections on which no request is answered before it is complete or refused
\* after its data has been sent, and on which the SETTINGS that arrive late do
\* not change the initial window.
Regular ==
    /\ ~setup.eager
    /\ setup.limit >= Cardinality(Ids) \/ setup.request = <<>>
    /\ setup.tls => setup.initial.server = Default

\* No request is cancelled either.
Orderly == Regular /\ ~setup.cancels

\* Credit is conserved: what an endpoint is ready to receive is what its peer
\* may still send, plus the data and the window updates on the way, for the
\* connection and for every stream both ends have.  The four windows are
\* changed by different handlers at the two ends, and an unbalanced change ends
\* the connection with FLOW_CONTROL_ERROR or stalls it.
CreditBalanced ==
    Orderly => \A e \in Ends :
        LET p == Peer(e)
        IN /\ conn[e].recv = conn[p].send + Bytes(conn[p].out, "DATA", Ids) + Granted(e, 0)
           /\ \A s \in conn[e].m_streams \cap conn[p].m_streams :
                 conn[e].streams[s].m_recv_window =
                     conn[p].streams[s].m_send_window
                         + Bytes(conn[p].out, "DATA", {s}) + Granted(e, s)

Mirror(state) ==
    CASE state = "HalfClosedLocal" -> "HalfClosedRemote"
      [] state = "HalfClosedRemote" -> "HalfClosedLocal"
      [] OTHER -> state

\* The two ends agree about a stream whenever nothing about it is on the way,
\* and neither ever takes a frame of the other for an error.
EndsAgree ==
    Orderly =>
        /\ \A s \in Ids :
              task.server[s] # "idle" /\ About("client", s) = {} /\ About("server", s) = {} =>
                  conn.client.streams[s].m_state = Mirror(conn.server.streams[s].m_state)
        /\ \A e \in Ends : \A f \in Range(conn[e].out) :
              f.type \in {"RST_STREAM", "GOAWAY"} => f.code = "RefusedStream"

\* The data of a cancelled request that the server does not count is less than
\* the connection's window.
Affordable ==
    setup.cancels => Cardinality(Ids) * FoldLeft(LAMBDA n, chunk : n + chunk, 0, setup.request)
                         <= Default

\* Every request ends: the response is complete or the stream is refused, also
\* when the bodies are larger than the windows, and when others are cancelled
\* that do not use up the connection's window.
RequestEnds ==
    \A s \in Ids :
        Regular /\ Affordable /\ setup.waits /\ task.client[s] = "wait" ~> task.client[s] = "done"

\* The same on every connection.
EveryRequestEnds ==
    \A s \in Ids : task.client[s] = "wait" ~> task.client[s] = "done"

\* A client that sends one request after the other is never told that the
\* server has reached max_concurrent_streams.
OneAtATimeAccepted ==
    ~setup.ahead => \A f \in Range(conn.server.out) :
        f.type = "RST_STREAM" => f.code # "RefusedStream"
=============================================================================
