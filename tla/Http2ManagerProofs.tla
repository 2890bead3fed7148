-------------------------- MODULE Http2ManagerProofs --------------------------
(***************************************************************************)
(* Theorems about Http2Manager, for every finite set of streams and every  *)
(* way of using the manager.                                               *)
(***************************************************************************)
EXTENDS Http2Manager, FiniteSetTheorems, SequenceTheorems, TLAPS

\* The handlers that m_active_handlers counts.
Active == {h \in Handlers : handler[h] \in {"run", "await", "leave"}}
Item == Handlers \cup {"frame", "empty", "goaway", "draining"}

IType ==
    /\ service \in Services
    /\ handler \in [Handlers -> {"idle", "run", "await", "leave", "last", "done"}]
    /\ m_send_channel \in Seq(Item) /\ batch \in Seq(Item)

ICount == m_active_handlers = Cardinality(Active)

\* After the draining began no handler is started; on the reader's thread the
\* wait for the handlers is over only when none is left.
IDrain ==
    /\ m_draining_handlers => reader \notin {"read", "drain"}
    /\ ~service.remote =>
        /\ \A h \in Handlers : handler[h] # "last"
        /\ "handlers" \in notified => m_draining_handlers /\ m_active_handlers = 0
        /\ reader \in {"stop", "writer", "monitor", "exited"} => m_active_handlers = 0

IStop ==
    /\ reader \in {"monitor", "exited"} => writer = "exited"
    /\ reader = "exited" => monitor = "exited"

IInv == IType /\ ICount /\ IDrain /\ IStop

-----------------------------------------------------------------------------
(* Lemmas *)

\* The counted handlers are finitely many.
LEMMA ActiveFinite ==
    IsFiniteSet(Active) /\ Cardinality(Active) \in Nat
  BY ManagerAssumption, FS_Subset, FS_CardinalityType DEF Active

\* The items of a sequence belong to the set it is a sequence over: what
\* Write notifies is the waiter of a frame.
LEMMA ItemsOf ==
    ASSUME NEW S, NEW s \in Seq(S)
    PROVE  Items(s) \subseteq S
  BY ElementOfSeq DEF Items

\* What Collect takes from the channel, and what it leaves, are such sequences.
LEMMA Taken ==
    ASSUME NEW S, NEW s \in Seq(S), NEW n \in 1..Len(s)
    PROVE  SubSeq(s, 1, n) \in Seq(S) /\ SubSeq(s, n + 1, Len(s)) \in Seq(S)
  <1>1. Len(s) \in Nat
    BY LenProperties
  <1>2. SubSeq(s, 1, n) \in Seq(S)
    BY <1>1, SubSeqProperties
  <1>3. SubSeq(s, n + 1, Len(s)) \in Seq(S)
    BY <1>1, SubSeqProperties
  <1> QED
    BY <1>2, <1>3

\* Sending an item, or failing to, is not what ends the wait for the handlers.
LEMMA SendKeeps ==
    ASSUME NEW item, item # "handlers", enqueueOutgoingItem(item) \/ Refused(item)
    PROVE  "handlers" \in notified' <=> "handlers" \in notified
  BY DEF enqueueOutgoingItem, Refused

\* What is queued, or refused, leaves a queue of items.
LEMMA QueueOfItems ==
    ASSUME m_send_channel \in Seq(Item), NEW item \in Item,
           m_send_channel' = Append(m_send_channel, item) \/ UNCHANGED m_send_channel
    PROVE  m_send_channel' \in Seq(Item)
  BY AppendProperties

-----------------------------------------------------------------------------
(* The invariant *)

LEMMA InitIInv == ManagerInit => IInv
  <1> SUFFICES ASSUME ManagerInit
               PROVE  IInv
    OBVIOUS
  <1> USE ManagerAssumption DEF ManagerInit
  <1>1. IType
    BY DEF IType
  <1>2. ICount
    <2>1. CASE service.active
      <3>1. Active = {service.first}
        BY <2>1 DEF Active
      <3> QED
        BY <2>1, <3>1, FS_Singleton DEF ICount
    <2>2. CASE ~service.active
      <3>1. Active = {}
        BY <2>2 DEF Active
      <3> QED
        BY <2>2, <3>1, FS_EmptySet DEF ICount
    <2> QED
      BY <2>1, <2>2
  <1>3. IDrain
    BY DEF IDrain
  <1>4. IStop
    BY DEF IStop
  <1> QED
    BY <1>1, <1>2, <1>3, <1>4 DEF IInv

\* Every step sends items of the known kinds and moves a handler to one of
\* the known places.
LEMMA TypeStep ==
    ASSUME IType, [ManagerNext]_managerVars
    PROVE  IType'
  <1> USE DEF IType
  <1>1. ASSUME UNCHANGED <<service, handler, m_send_channel, batch>>
        PROVE  IType'
    BY <1>1
  <1>2. ASSUME NEW item \in Item, enqueueOutgoingItem(item), UNCHANGED <<service, handler, batch>>
        PROVE  IType'
    <2>1. m_send_channel' = Append(m_send_channel, item) \/ UNCHANGED m_send_channel
      BY <1>2 DEF enqueueOutgoingItem, Refused
    <2>2. m_send_channel' \in Seq(Item)
      BY <2>1, QueueOfItems
    <2> QED
      BY <1>2, <2>2
  <1>3. "frame" \in Item /\ "empty" \in Item /\ "goaway" \in Item /\ "draining" \in Item
    BY DEF Item
  <1>4. CASE ReaderStep
    <2>1. CASE EndReader
      BY <2>1, <1>1, <1>2, <1>3 DEF EndReader, channel
    <2>2. CASE StopWriter
      BY <2>2, <1>2, <1>3 DEF StopWriter
    <2>3. CASE PingAck \/ DrainHandlers \/ CheckHandlers \/ HandlersDone \/ LoopsDone
      BY <2>3, <1>1 DEF PingAck, DrainHandlers, CheckHandlers, HandlersDone, LoopsDone, shared,
                        channel, places
    <2> QED
      BY <1>4, <2>1, <2>2, <2>3 DEF ReaderStep
  <1>5. CASE Collect
    <2> DEFINE stop == {i \in DOMAIN m_send_channel : m_send_channel[i] = "empty"}
               last == IF stop = {} THEN Len(m_send_channel) ELSE CHOOSE i \in stop : TRUE
    <2>1. Len(m_send_channel) \in 1..Len(m_send_channel)
      BY <1>5, EmptySeq, LenProperties DEF Collect
    <2>2. last \in 1..Len(m_send_channel)
      BY <2>1, LenProperties
    <2>3. /\ batch' = SubSeq(m_send_channel, 1, last)
          /\ m_send_channel' = SubSeq(m_send_channel, last + 1, Len(m_send_channel))
          /\ UNCHANGED <<service, handler>>
      BY <1>5 DEF Collect
    <2> HIDE DEF last
    <2> QED
      BY <2>2, <2>3, Taken
  <1>6. CASE Write
    BY <1>6, EmptySeq DEF Write, shared, channel
  <1>7. CASE MonitorStep
    <2>1. CASE Ping
      BY <2>1, <1>2, <1>3 DEF Ping, places
    <2>2. CASE Unanswered
      <3>1. /\ m_send_channel' = Append(m_send_channel, "frame") \/ UNCHANGED m_send_channel
            /\ UNCHANGED <<service, handler, batch>>
        BY <2>2 DEF Unanswered, Refused
      <3> QED
        BY <3>1, <1>3, AppendProperties
    <2>3. CASE EndMonitor
      BY <2>3, <1>1 DEF EndMonitor, shared, channel
    <2> QED
      BY <1>7, <2>1, <2>2, <2>3 DEF MonitorStep
  <1>8. CASE BeginShutdown
    BY <1>8, <1>1, <1>2, <1>3 DEF BeginShutdown, channel
  <1>9. CASE ShutdownStep
    <2>1. CASE DrainingSent \/ GoawaySent \/ ResetSent \/ Stopped
      BY <2>1, <1>1 DEF DrainingSent, GoawaySent, ResetSent, Stopped, shared, channel
    <2>2. CASE SecondGoaway
      BY <2>2, <1>2, <1>3 DEF SecondGoaway
    <2>3. CASE Poll
      BY <2>3, <1>1, <1>2, <1>3 DEF Poll, channel
    <2> QED
      BY <1>9, <2>1, <2>2, <2>3 DEF ShutdownStep
  <1>10. CASE Lose
    BY <1>10, <1>1 DEF Lose, shared, channel, places
  <1>11. ASSUME NEW h \in Handlers, SpawnHandler(h) \/ HandlerStep(h)
         PROVE  IType'
    BY <1>11 DEF SpawnHandler, HandlerStep, HandlerReturns, LeaveSlot, NotifyDrained, shared,
                 channel
  <1>12. ASSUME NEW h \in Handlers, Reply(h)
         PROVE  IType'
    <2>1. h \in Item
      BY DEF Item
    <2>2. m_send_channel' = Append(m_send_channel, h) \/ UNCHANGED m_send_channel
      BY <1>12 DEF Reply, Refused
    <2>3. handler' = [handler EXCEPT ![h] = "await"] /\ UNCHANGED <<service, batch>>
      BY <1>12 DEF Reply
    <2>4. m_send_channel' \in Seq(Item)
      BY <2>1, <2>2, QueueOfItems
    <2> QED
      BY <2>3, <2>4
  <1>13. CASE EndWriter
    BY <1>13, <1>1 DEF EndWriter, shared, channel
  <1>14. CASE UNCHANGED managerVars
    BY <1>14, <1>1 DEF managerVars, shared, channel, places
  <1> QED
    BY <1>4, <1>5, <1>6, <1>7, <1>8, <1>9, <1>10, <1>11, <1>12, <1>13, <1>14
       DEF ManagerNext, WriterStep

\* The steps that change neither a handler nor the count.
Elsewhere ==
    \/ ReaderStep \/ WriterStep \/ MonitorStep \/ BeginShutdown \/ ShutdownStep \/ Lose
    \/ UNCHANGED managerVars

LEMMA ElsewhereKeeps ==
    ASSUME Elsewhere
    PROVE  UNCHANGED <<service, handler, m_active_handlers>>
  <1> USE DEF shared, channel, counts, places
  <1>1. CASE ReaderStep
    BY <1>1 DEF ReaderStep, PingAck, EndReader, DrainHandlers, CheckHandlers, HandlersDone,
                StopWriter, LoopsDone
  <1>2. CASE WriterStep
    BY <1>2 DEF WriterStep, Collect, EndWriter, Write
  <1>3. CASE MonitorStep
    BY <1>3 DEF MonitorStep, Ping, Unanswered, EndMonitor
  <1>4. CASE BeginShutdown \/ Lose
    BY <1>4 DEF BeginShutdown, Lose
  <1>5. CASE ShutdownStep
    BY <1>5 DEF ShutdownStep, DrainingSent, SecondGoaway, GoawaySent, Poll, ResetSent, Stopped
  <1>6. CASE UNCHANGED managerVars
    BY <1>6 DEF managerVars
  <1> QED
    BY <1>1, <1>2, <1>3, <1>4, <1>5, <1>6 DEF Elsewhere

\* m_active_handlers counts the handlers that were started and have not left:
\* a start adds one, fetch_sub takes one off.
LEMMA CountStep ==
    ASSUME IType, ICount, [ManagerNext]_managerVars
    PROVE  ICount'
  <1> USE DEF IType, ICount
  <1>1. CASE Elsewhere
    BY <1>1, ElsewhereKeeps DEF Active
  <1>2. ASSUME NEW h \in Handlers, SpawnHandler(h)
        PROVE  ICount'
    <2>1. Active' = Active \cup {h} /\ h \notin Active
      BY <1>2 DEF SpawnHandler, Active
    <2>2. m_active_handlers' = m_active_handlers + 1
      BY <1>2 DEF SpawnHandler
    <2> QED
      BY <2>1, <2>2, ActiveFinite, FS_AddElement
  <1>3. ASSUME NEW h \in Handlers, Reply(h) \/ HandlerReturns(h) \/ NotifyDrained(h)
        PROVE  ICount'
    <2>1. Active' = Active
      BY <1>3 DEF Reply, HandlerReturns, NotifyDrained, Active
    <2>2. m_active_handlers' = m_active_handlers
      BY <1>3 DEF Reply, HandlerReturns, NotifyDrained, counts
    <2> QED
      BY <2>1, <2>2
  <1>4. ASSUME NEW h \in Handlers, LeaveSlot(h)
        PROVE  ICount'
    <2>1. Active' = Active \ {h} /\ h \in Active
      BY <1>4 DEF LeaveSlot, Active
    <2>2. m_active_handlers' = m_active_handlers - 1
      BY <1>4 DEF LeaveSlot
    <2> QED
      BY <2>1, <2>2, ActiveFinite, FS_RemoveElement
  <1> QED
    BY <1>1, <1>2, <1>3, <1>4 DEF ManagerNext, HandlerStep, Elsewhere

\* The draining flag is set when the reader has left its loop, and from then
\* on the count only falls.
LEMMA DrainStep ==
    ASSUME IType, ICount, IDrain, [ManagerNext]_managerVars
    PROVE  IDrain'
  <1>0. m_active_handlers \in Nat
    BY ActiveFinite DEF ICount
  <1> USE DEF IDrain, shared, channel, counts, places
  <1> DEFINE Same == UNCHANGED <<service, handler, m_active_handlers>>
             Kept == "handlers" \in notified' <=> "handlers" \in notified
  <1>a. ASSUME Same, Kept, UNCHANGED <<m_draining_handlers, reader>>
        PROVE  IDrain'
    BY <1>a
  <1>1. CASE ReaderStep
    <2>1. CASE EndReader
      <3>1. Kept
        BY <2>1, SendKeeps DEF EndReader
      <3> QED
        BY <2>1, <3>1 DEF EndReader
    <2>2. CASE StopWriter
      <3>1. Kept
        BY <2>2, SendKeeps DEF StopWriter
      <3> QED
        BY <2>2, <3>1 DEF StopWriter
    <2>3. CASE PingAck \/ DrainHandlers \/ LoopsDone
      BY <2>3 DEF PingAck, DrainHandlers, LoopsDone
    <2>4. CASE CheckHandlers \/ HandlersDone
      BY <1>0, <2>4 DEF CheckHandlers, HandlersDone
    <2> QED
      BY <1>1, <2>1, <2>2, <2>3, <2>4 DEF ReaderStep
  <1>2. CASE Collect \/ EndWriter
    BY <1>2, <1>a DEF Collect, EndWriter
  <1>3. CASE Write
    <2>1. "handlers" \notin Items(batch)
      BY ItemsOf, ManagerAssumption DEF IType, Item
    <2>2. "handlers" \in notified' <=> "handlers" \in notified
      BY <1>3, <2>1 DEF Write
    <2> QED
      BY <1>3, <2>2 DEF Write
  <1>4. CASE MonitorStep
    <2>1. Kept
      BY <1>4, SendKeeps DEF MonitorStep, Ping, Unanswered, EndMonitor
    <2> QED
      BY <1>4, <1>a, <2>1 DEF MonitorStep, Ping, Unanswered, EndMonitor
  <1>5. CASE BeginShutdown
    <2>1. Kept
      BY <1>5, SendKeeps DEF BeginShutdown
    <2> QED
      BY <1>5, <1>a, <2>1 DEF BeginShutdown
  <1>6. CASE ShutdownStep \/ Lose
    <2>1. CASE SecondGoaway \/ Poll
      <3>1. Kept
        BY <2>1, SendKeeps DEF SecondGoaway, Poll
      <3> QED
        BY <2>1, <1>a, <3>1 DEF SecondGoaway, Poll
    <2>2. CASE DrainingSent \/ GoawaySent \/ ResetSent \/ Stopped \/ Lose
      BY <2>2, <1>a DEF DrainingSent, GoawaySent, ResetSent, Stopped, Lose
    <2> QED
      BY <1>6, <2>1, <2>2 DEF ShutdownStep
  <1>7. ASSUME NEW h \in Handlers, SpawnHandler(h)
        PROVE  IDrain'
    BY <1>7 DEF SpawnHandler, IType
  <1>8. ASSUME NEW h \in Handlers, Reply(h) \/ HandlerReturns(h)
        PROVE  IDrain'
    <2>1. Kept
      BY <1>8, SendKeeps, ManagerAssumption DEF Reply, HandlerReturns
    <2> QED
      BY <1>8, <2>1 DEF Reply, HandlerReturns, IType
  <1>9. ASSUME NEW h \in Handlers, LeaveSlot(h)
        PROVE  IDrain'
    <2>1. m_active_handlers > 0
      <3>1. h \in Active
        BY <1>9 DEF LeaveSlot, Active
      <3> QED
        BY <3>1, ActiveFinite, FS_EmptySet DEF ICount
    <2>2. UNCHANGED <<service, m_draining_handlers, reader>>
      BY <1>9 DEF LeaveSlot
    <2>3. ASSUME ~service.remote
          PROVE  /\ \A g \in Handlers : handler'[g] # "last"
                 /\ "handlers" \in notified' => m_draining_handlers /\ m_active_handlers' = 0
      BY <1>0, <1>9, <2>1, <2>3 DEF LeaveSlot, IType
    <2>4. reader \in {"stop", "writer", "monitor", "exited"} => service.remote
      BY <2>1
    <2> QED
      BY <2>2, <2>3, <2>4
  <1>10. ASSUME NEW h \in Handlers, NotifyDrained(h)
         PROVE  IDrain'
    BY <1>10 DEF NotifyDrained, IType
  <1>11. CASE UNCHANGED managerVars
    BY <1>11 DEF managerVars
  <1> QED
    BY <1>1, <1>2, <1>3, <1>4, <1>5, <1>6, <1>7, <1>8, <1>9, <1>10, <1>11
       DEF ManagerNext, HandlerStep, WriterStep

\* A writer or a monitor that has ended does not start again, and the reader
\* passes each wait only when the loop it waits for has ended.
LEMMA StopStep ==
    ASSUME IStop, [ManagerNext]_managerVars
    PROVE  IStop'
  <1> USE DEF IStop, shared, channel, counts, places
  <1>1. CASE ReaderStep
    BY <1>1 DEF ReaderStep, PingAck, EndReader, DrainHandlers, CheckHandlers, HandlersDone,
                StopWriter, LoopsDone
  <1>2. CASE WriterStep
    BY <1>2 DEF WriterStep, Collect, EndWriter, Write
  <1>3. CASE MonitorStep
    BY <1>3 DEF MonitorStep, Ping, Unanswered, EndMonitor
  <1>4. CASE BeginShutdown \/ Lose
    BY <1>4 DEF BeginShutdown, Lose
  <1>5. CASE ShutdownStep
    BY <1>5 DEF ShutdownStep, DrainingSent, SecondGoaway, GoawaySent, Poll, ResetSent, Stopped
  <1>6. ASSUME NEW h \in Handlers, SpawnHandler(h) \/ Reply(h) \/ HandlerStep(h)
        PROVE  IStop'
    BY <1>6 DEF SpawnHandler, Reply, HandlerStep, HandlerReturns, LeaveSlot, NotifyDrained
  <1>7. CASE UNCHANGED managerVars
    BY <1>7 DEF managerVars
  <1> QED
    BY <1>1, <1>2, <1>3, <1>4, <1>5, <1>6, <1>7 DEF ManagerNext

-----------------------------------------------------------------------------
(* Theorems *)

\* The count of the handlers, the draining flag and the ends of the loops stay
\* consistent (m_active_handlers, m_draining_handlers, finishForegroundRun).
THEOREM ManagerInvariant == ManagerSpec => []IInv
  <1>1. ManagerInit => IInv
    BY InitIInv
  <1>2. IInv /\ [ManagerNext]_managerVars => IInv'
    BY TypeStep, CountStep, DrainStep, StopStep DEF IInv
  <1> QED
    BY <1>1, <1>2, PTL DEF ManagerSpec

\* start() completes last: no writer, no monitor and, on one thread, no handler
\* of the manager outlives it (finishForegroundRun).
THEOREM StartEndsLast == ManagerSpec => []StopsLast
  <1>1. IInv => StopsLast
    <2> SUFFICES ASSUME IInv, reader = "exited"
                 PROVE  /\ writer = "exited" /\ monitor = "exited"
                        /\ ~service.remote => \A h \in Handlers : handler[h] \in {"idle", "done"}
      BY DEF StopsLast
    <2>1. writer = "exited" /\ monitor = "exited"
      BY DEF IInv, IStop
    <2>2. ASSUME ~service.remote
          PROVE  \A h \in Handlers : handler[h] \in {"idle", "done"}
      <3>1. Cardinality(Active) = 0 /\ \A h \in Handlers : handler[h] # "last"
        BY <2>2 DEF IInv, ICount, IDrain
      <3>2. Active = {}
        BY <3>1, ActiveFinite, FS_EmptySet
      <3> QED
        BY <3>1, <3>2 DEF IInv, IType, Active
    <2> QED
      BY <2>1, <2>2
  <1> QED
    BY <1>1, ManagerInvariant, PTL
=============================================================================
