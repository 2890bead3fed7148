----------------------------- MODULE Http2Manager -----------------------------
(***************************************************************************)
(* The life of an Http2StreamManager: the reader, the writer and the       *)
(* monitor it starts, the handlers of the streams, and shutdown().  They   *)
(* are coroutines, and a step goes from one suspension to the next, except *)
(* that a handler may run in another thread: the two atomics it shares     *)
(* with the reader, m_active_handlers and m_draining_handlers, are         *)
(* accessed one at a time.                                                 *)
(*                                                                         *)
(* What the frames say is Http2Flow's subject.  Here a frame matters by    *)
(* its waiter, which the writer notifies when it has written the frame or  *)
(* failed to: an item of the send channel is the waiter's name, "frame"    *)
(* for one without a waiter, or "empty", which tells the writer to stop.   *)
(***************************************************************************)
EXTENDS Naturals, Sequences, FiniteSets

CONSTANTS Handlers,    \* streams the peer opens, and their handlers
          Services     \* how the manager is used: records, see ManagerInit

\* The first stream serves a connection in active mode; a handler has a waiter
\* of its own, other than the reader's wait for the handlers.
ASSUME ManagerAssumption ==
    /\ IsFiniteSet(Handlers) /\ "handlers" \notin Handlers
    /\ \A s \in Services : s.first \in Handlers

VARIABLES service,               \* the member of Services; never changes
          m_running, m_closing,
          m_active_handlers, m_draining_handlers,
          m_reject_new_streams, m_waiting_ping_ack,
          m_send_channel, m_send_channel_failed,
          lost,                  \* the peer has closed the connection
          queues_closed,         \* closeFrameQueue, closeActiveStreamQueue
          notified,              \* waiters that have been notified
          batch,                 \* what the writer is writing
          reader, writer, monitor, shutdown, handler,  \* where each one is
          fd_open

channel == <<m_send_channel, m_send_channel_failed>>
shared == <<m_running, m_closing, m_reject_new_streams, m_waiting_ping_ack, channel,
            queues_closed, fd_open>>
counts == <<m_active_handlers, m_draining_handlers>>
places == <<reader, writer, monitor, shutdown, handler>>
managerVars == <<service, shared, counts, lost, notified, batch, places>>

\* A service record: whether this end is a client; whether one handler serves
\* the whole connection (active mode); whether handlers run in another thread
\* than the reader (remote), wait for their replies to be written, or are done
\* before the graceful timeout (prompt); and what may go wrong.
ManagerInit ==
    /\ service \in Services
    /\ m_running = TRUE /\ m_closing = FALSE
    /\ handler = [h \in Handlers |->
           IF service.active /\ h = service.first THEN "run" ELSE "idle"]
    /\ m_active_handlers = (IF service.active THEN 1 ELSE 0)
    /\ m_draining_handlers = FALSE
    /\ m_reject_new_streams = FALSE /\ m_waiting_ping_ack = FALSE
    /\ m_send_channel = <<>> /\ m_send_channel_failed = FALSE /\ lost = FALSE /\ queues_closed = FALSE
    /\ notified = {} /\ batch = <<>>
    /\ reader = "read" /\ writer = "recv" /\ monitor = "sleep" /\ shutdown = "idle"
    /\ fd_open = TRUE

Items(seq) == {seq[i] : i \in DOMAIN seq}

\* An item that the channel has no memory for ("memory") is dropped and its
\* waiter notified.
Refused(item) ==
    /\ "memory" \in service.faults
    /\ notified' = notified \cup ({item} \ {"frame", "empty"})
    /\ UNCHANGED m_send_channel

\* enqueueOutgoingItem: a refused item also closes the connection.
enqueueOutgoingItem(item) ==
    \/ /\ m_send_channel' = Append(m_send_channel, item)
       /\ UNCHANGED <<m_send_channel_failed, m_closing, notified>>
    \/ Refused(item) /\ m_send_channel_failed' = TRUE /\ m_closing' = TRUE

-----------------------------------------------------------------------------
(* The reader *)

\* HEADERS of a new stream: its handler is started unless the manager drains,
\* also when the connection is closing and the frame was read before.
SpawnHandler(h) ==
    /\ reader = "read"
    /\ handler[h] = "idle" /\ ~service.active /\ ~service.client
    /\ ~m_reject_new_streams
    /\ handler' = [handler EXCEPT ![h] = "run"]
    /\ m_active_handlers' = m_active_handlers + 1
    /\ UNCHANGED <<service, shared, m_draining_handlers, lost, notified, batch, reader, writer,
                   monitor, shutdown>>

\* The answer to the last PING.
PingAck ==
    /\ reader = "read" /\ m_waiting_ping_ack /\ ~lost
    /\ "frame" \notin Items(m_send_channel) \cup Items(batch)   \* the PING has been written
    /\ m_waiting_ping_ack' = FALSE
    /\ UNCHANGED <<service, m_running, m_closing, m_reject_new_streams, channel,
                   queues_closed, fd_open, counts, lost, notified, batch, places>>

\* readerLoop ends: the connection is closing or lost, or a frame is wrong and
\* GOAWAY is sent; every stream's frame queue is closed.
EndReader ==
    /\ reader = "read"
    /\ \/ (m_closing \/ lost) /\ UNCHANGED <<channel, m_closing, notified>>
       \/ "error" \in service.faults /\ ~m_closing /\ ~lost /\ enqueueOutgoingItem("frame")
    /\ queues_closed' = TRUE
    /\ reader' = "drain"
    /\ UNCHANGED <<service, m_running, m_reject_new_streams, m_waiting_ping_ack, fd_open,
                   counts, lost, batch, writer, monitor, shutdown, handler>>

\* Mutant: the draining is not announced.
DrainHandlers_Silent ==
    /\ reader = "drain"
    /\ reader' = "check"
    /\ UNCHANGED <<service, shared, counts, lost, notified, batch, writer, monitor, shutdown,
                   handler>>

\* finishForegroundRun: m_draining_handlers is set, then the count is read.
DrainHandlers ==
    /\ reader = "drain"
    /\ m_draining_handlers' = TRUE
    /\ reader' = "check"
    /\ UNCHANGED <<service, shared, m_active_handlers, lost, notified, batch, writer, monitor,
                   shutdown, handler>>

\* Mutant: the handlers that still run are not waited for.
CheckHandlers_Ignored ==
    /\ reader = "check"
    /\ reader' = "stop"
    /\ UNCHANGED <<service, shared, counts, lost, notified, batch, writer, monitor, shutdown,
                   handler>>

CheckHandlers ==
    /\ reader = "check"
    /\ reader' = IF m_active_handlers > 0 THEN "handlers" ELSE "stop"
    /\ UNCHANGED <<service, shared, counts, lost, notified, batch, writer, monitor, shutdown,
                   handler>>

HandlersDone ==
    /\ reader = "handlers" /\ "handlers" \in notified
    /\ reader' = "stop"
    /\ UNCHANGED <<service, shared, counts, lost, notified, batch, writer, monitor, shutdown,
                   handler>>

\* Mutant: the manager is stopped and the writer is not told.
StopWriter_Silent ==
    /\ reader = "stop"
    /\ m_running' = FALSE
    /\ reader' = "writer"
    /\ UNCHANGED <<service, m_closing, m_reject_new_streams, m_waiting_ping_ack, channel,
                   queues_closed, fd_open, counts, lost, notified, batch, writer, monitor,
                   shutdown, handler>>

StopWriter ==
    /\ reader = "stop"
    /\ m_running' = FALSE
    /\ enqueueOutgoingItem("empty")
    /\ reader' = "writer"
    /\ UNCHANGED <<service, m_reject_new_streams, m_waiting_ping_ack, queues_closed, fd_open,
                   counts, lost, batch, writer, monitor, shutdown, handler>>

\* m_writer_done.wait(), m_monitor_done.wait(), m_stop_waiter.notify().
LoopsDone ==
    /\ \/ reader = "writer" /\ writer = "exited" /\ reader' = "monitor"
       \/ reader = "monitor" /\ monitor = "exited" /\ reader' = "exited"
    /\ UNCHANGED <<service, shared, counts, lost, notified, batch, writer, monitor, shutdown,
                   handler>>

-----------------------------------------------------------------------------
(* The writer *)

\* The channel is emptied, up to the item that says stop.
Collect ==
    /\ writer = "recv" /\ m_send_channel # <<>>
    /\ LET stop == {i \in DOMAIN m_send_channel : m_send_channel[i] = "empty"}
           last == IF stop = {} THEN Len(m_send_channel) ELSE CHOOSE i \in stop : TRUE
       IN /\ batch' = SubSeq(m_send_channel, 1, last)
          /\ m_send_channel' = SubSeq(m_send_channel, last + 1, Len(m_send_channel))
    /\ writer' = "write"
    /\ UNCHANGED <<service, m_running, m_closing, m_reject_new_streams, m_waiting_ping_ack,
                   m_send_channel_failed, queues_closed, fd_open, counts, lost, notified, reader,
                   monitor, shutdown, handler>>

\* recv().timeout(kWriterStopPollInterval): the channel is empty and has failed.
EndWriter ==
    /\ writer = "recv" /\ m_send_channel = <<>> /\ m_send_channel_failed
    /\ writer' = "exited"
    /\ UNCHANGED <<service, shared, counts, lost, notified, batch, reader, monitor, shutdown,
                   handler>>

\* writev of the batch.  It may fail once the socket has been shut down or the
\* peer is gone.  Either way the waiters of the batch are
\* notified; the writer ends when it fails or has seen the last item.
Write ==
    /\ writer = "write"
    /\ \E fails \in BOOLEAN :
          /\ fails => batch # <<"empty">> /\ (m_closing \/ lost)
          /\ writer' = IF fails \/ batch[Len(batch)] = "empty" THEN "exited" ELSE "recv"
    /\ notified' = notified \cup (Items(batch) \ {"frame", "empty"})
    /\ batch' = <<>>
    /\ UNCHANGED <<service, shared, counts, lost, reader, monitor, shutdown, handler>>

-----------------------------------------------------------------------------
(* The monitor *)

\* The connection has been idle for ping_interval: a PING is sent.
Ping ==
    /\ monitor = "sleep" /\ m_running /\ ~m_waiting_ping_ack
    /\ enqueueOutgoingItem("frame")
    /\ m_waiting_ping_ack' = TRUE
    /\ UNCHANGED <<service, m_running, m_reject_new_streams, queues_closed, fd_open, counts,
                   lost, batch, places>>

\* The peer does not acknowledge a PING, or the SETTINGS.
Unanswered ==
    /\ monitor = "sleep" /\ m_running /\ "silent" \in service.faults
    /\ \/ m_send_channel' = Append(m_send_channel, "frame")
          /\ UNCHANGED <<m_send_channel_failed, notified>>
       \/ Refused("frame") /\ m_send_channel_failed' = TRUE
    /\ m_closing' = TRUE
    /\ monitor' = "exited"
    /\ UNCHANGED <<service, m_running, m_reject_new_streams, m_waiting_ping_ack, queues_closed,
                   fd_open, counts, lost, batch, reader, writer, shutdown, handler>>

EndMonitor ==
    /\ monitor = "sleep" /\ ~m_running
    /\ monitor' = "exited"
    /\ UNCHANGED <<service, shared, counts, lost, notified, batch, reader, writer, shutdown,
                   handler>>

-----------------------------------------------------------------------------
(* The handlers *)

\* The handler sends a frame and waits for the writer to have written it.  A
\* frame that a stream cannot send does not close the connection.
Reply(h) ==
    /\ handler[h] = "run" /\ service.replies
    /\ \/ m_send_channel' = Append(m_send_channel, h) /\ UNCHANGED notified
       \/ Refused(h)
    /\ handler' = [handler EXCEPT ![h] = "await"]
    /\ UNCHANGED <<service, m_running, m_closing, m_reject_new_streams, m_waiting_ping_ack,
                   m_send_channel_failed, queues_closed, fd_open, counts, lost, batch, reader,
                   writer, monitor, shutdown>>

\* The handler returns: at once, or once its frame has been written.  In active
\* mode the connection ends with it.
HandlerReturns(h) ==
    /\ handler[h] = "run" \/ (handler[h] = "await" /\ h \in notified)
    /\ handler' = [handler EXCEPT ![h] = "leave"]
    /\ m_closing' = (m_closing \/ (service.active /\ m_running))
    /\ UNCHANGED <<service, m_running, m_reject_new_streams, m_waiting_ping_ack, channel,
                   queues_closed, fd_open, counts, lost, notified, batch, reader, writer, monitor,
                   shutdown>>

\* fetch_sub, after which the last one looks whether the reader is waiting.  On
\* the reader's own thread nothing comes between the two.
LeaveSlot(h) ==
    /\ handler[h] = "leave"
    /\ m_active_handlers' = m_active_handlers - 1
    /\ LET last == m_active_handlers = 1
       IN /\ handler' = [handler EXCEPT ![h] = IF last /\ service.remote THEN "last" ELSE "done"]
          /\ notified' = IF last /\ ~service.remote /\ m_draining_handlers
                         THEN notified \cup {"handlers"} ELSE notified
    /\ UNCHANGED <<service, shared, m_draining_handlers, lost, batch, reader, writer, monitor,
                   shutdown>>

NotifyDrained(h) ==
    /\ handler[h] = "last"
    /\ handler' = [handler EXCEPT ![h] = "done"]
    /\ notified' = IF m_draining_handlers THEN notified \cup {"handlers"} ELSE notified
    /\ UNCHANGED <<service, shared, counts, lost, batch, reader, writer, monitor, shutdown>>

-----------------------------------------------------------------------------
(* shutdownImpl *)

\* A manager that has stopped has nothing to shut down.  A client sends one
\* GOAWAY and opens no more streams; a server announces first that it drains.
BeginShutdown ==
    /\ shutdown = "idle"
    /\ \/ /\ ~m_running /\ shutdown' = "done"
          /\ UNCHANGED <<m_reject_new_streams, channel, m_closing, notified>>
       \/ /\ m_running /\ service.client
          /\ m_reject_new_streams' = TRUE
          /\ enqueueOutgoingItem("goaway")
          /\ shutdown' = "goaway"
       \/ /\ m_running /\ ~service.client
          /\ enqueueOutgoingItem("draining")
          /\ shutdown' = "draining"
          /\ UNCHANGED m_reject_new_streams
    /\ UNCHANGED <<service, m_running, m_waiting_ping_ack, queues_closed, fd_open, counts, lost,
                   batch, reader, writer, monitor, handler>>

DrainingSent ==
    /\ shutdown = "draining" /\ "draining" \in notified
    /\ shutdown' = "rtt"
    /\ UNCHANGED <<service, shared, counts, lost, notified, batch, reader, writer, monitor,
                   handler>>

\* graceful_shutdown_rtt later: the GOAWAY that names the last stream.
SecondGoaway ==
    /\ shutdown = "rtt"
    /\ m_reject_new_streams' = TRUE
    /\ enqueueOutgoingItem("goaway")
    /\ shutdown' = "goaway"
    /\ UNCHANGED <<service, m_running, m_waiting_ping_ack, queues_closed, fd_open, counts, lost,
                   batch, reader, writer, monitor, handler>>

GoawaySent ==
    /\ shutdown = "goaway" /\ "goaway" \in notified
    /\ shutdown' = "poll"
    /\ UNCHANGED <<service, shared, counts, lost, notified, batch, reader, writer, monitor,
                   handler>>

\* The streams' queues are closed (the active mode's mailbox is not), the
\* socket is shut down, and a manager that runs is waited for before the file
\* descriptor is closed.
CloseTransport ==
    /\ queues_closed' = (queues_closed \/ ~service.active)
    /\ m_closing' = TRUE
    /\ IF m_running THEN shutdown' = "stop" /\ UNCHANGED fd_open
                    ELSE shutdown' = "done" /\ fd_open' = FALSE

\* The handlers are done, or graceful_shutdown_timeout is over.  Streams that
\* are still open are reset, and their RST_STREAM given 10 ms.
Poll ==
    /\ shutdown = "poll"
    /\ m_active_handlers = 0 \/ ~service.prompt
    /\ \/ /\ enqueueOutgoingItem("frame") /\ shutdown' = "reset"
          /\ UNCHANGED <<queues_closed, fd_open>>
       \/ CloseTransport /\ UNCHANGED <<channel, notified>>
    /\ UNCHANGED <<service, m_running, m_reject_new_streams, m_waiting_ping_ack, counts, lost,
                   batch, reader, writer, monitor, handler>>

ResetSent ==
    /\ shutdown = "reset"
    /\ CloseTransport
    /\ UNCHANGED <<service, m_running, m_reject_new_streams, m_waiting_ping_ack, channel,
                   counts, lost, notified, batch, reader, writer, monitor, handler>>

Stopped ==
    /\ shutdown = "stop" /\ reader = "exited"
    /\ shutdown' = "done" /\ fd_open' = FALSE
    /\ UNCHANGED <<service, m_running, m_closing, m_reject_new_streams, m_waiting_ping_ack,
                   channel, queues_closed, counts, lost, notified, batch, reader, writer,
                   monitor, handler>>

\* The peer closes the connection.
Lose ==
    /\ "lost" \in service.faults /\ ~lost
    /\ lost' = TRUE
    /\ UNCHANGED <<service, shared, counts, notified, batch, places>>

-----------------------------------------------------------------------------
ReaderStep ==
    \/ PingAck \/ EndReader \/ DrainHandlers \/ CheckHandlers \/ HandlersDone
    \/ StopWriter \/ LoopsDone
WriterStep == Collect \/ EndWriter \/ Write
MonitorStep == Ping \/ Unanswered \/ EndMonitor
HandlerStep(h) == HandlerReturns(h) \/ LeaveSlot(h) \/ NotifyDrained(h)
ShutdownStep ==
    \/ DrainingSent \/ SecondGoaway \/ GoawaySent \/ Poll \/ ResetSent \/ Stopped

ManagerNext ==
    \/ ReaderStep \/ WriterStep \/ MonitorStep \/ BeginShutdown \/ ShutdownStep \/ Lose
    \/ \E h \in Handlers : SpawnHandler(h) \/ Reply(h) \/ HandlerStep(h)

\* Every loop is scheduled, and a sleep ends.  A reader notices that its socket
\* is closed; what the peer sends is up to the peer, and so is a wrong frame.
\* A handler returns when its stream's queue has been closed or when it is a
\* prompt one, and an interrupted wait is the writer's business.
ManagerFairness ==
    /\ WF_managerVars((m_closing \/ lost) /\ EndReader)
    /\ WF_managerVars(reader # "read" /\ ReaderStep)
    /\ WF_managerVars(WriterStep) /\ WF_managerVars(EndMonitor)
    /\ WF_managerVars(ShutdownStep)
    /\ \A h \in Handlers :
          WF_managerVars((queues_closed \/ service.prompt \/ handler[h] # "run") /\ HandlerStep(h))

ManagerSpec == ManagerInit /\ [][ManagerNext]_managerVars
ManagerFairSpec == ManagerSpec /\ ManagerFairness

-----------------------------------------------------------------------------
(* Properties *)

\* finishForegroundRun: when start() completes and m_stop_waiter is notified,
\* no writer and no monitor of the manager is running any more, and no handler
\* if the handlers run on the reader's thread.
StopsLast ==
    reader = "exited" =>
        /\ writer = "exited" /\ monitor = "exited"
        /\ ~service.remote => \A h \in Handlers : handler[h] \in {"idle", "done"}

\* Nothing but shutdown() itself ends the connection, and no handler is left
\* waiting for a frame when it does.
Calm == service.faults = {} /\ (service.replies => service.prompt) /\ ~service.active

\* A calm shutdown() returns: the GOAWAYs are written, the reader ends when the
\* socket is shut down, and the writer and the monitor end after it.  The file
\* descriptor is closed when the reader and the writer have ended.
CalmShutdown ==
    Calm => /\ [](fd_open \/ (reader = "exited" /\ writer = "exited"))
            /\ shutdown # "idle" ~> shutdown = "done"

\* When the connection is lost or closed, start() returns, provided the handlers
\* do not wait for their frames to be written.
StartReturns == ~service.replies => (lost \/ m_closing ~> reader = "exited")

\* What the comments promise of every use does not always hold (see README).
\* shutdown() "waits for the StreamManager to stop", and returns.
EveryShutdownReturns == shutdown # "idle" ~> shutdown = "done"

\* start() completes when the connection ends.
EveryStartReturns == lost \/ m_closing ~> reader = "exited"

\* The file descriptor is closed "after the reader and the writer have ended".
FdClosedLast == fd_open \/ (reader = "exited" /\ writer = "exited")

\* No handler outlives start(), wherever it runs.
NoHandlerLeft == reader = "exited" => \A h \in Handlers : handler[h] \in {"idle", "done"}
=============================================================================
