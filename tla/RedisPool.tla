------------------------------ MODULE RedisPool ------------------------------
(***************************************************************************)
(* galay-redis's RedisConnectionPool and its PoolAcquireAwaitable (the TLS *)
(* pool is a copy).  Idle connections are in lock-free queues sharded by   *)
(* thread, so any of them may be found first; waiters are in another one;  *)
(* three atomic counters stand beside them.  Tasks acquire and release and *)
(* an administrator cleans up, expands, shrinks or shuts down, from any    *)
(* thread: a step is one queue or atomic operation with the tests that     *)
(* follow it.  Statistics are left out.                                    *)
(*                                                                         *)
(* A wake of a task carries no identity: it resumes the task at whatever   *)
(* co_await it is suspended in, once for any number of wakes.              *)
(***************************************************************************)
EXTENDS Naturals, Sequences, FiniteSets

CONSTANTS Tasks, Admin,
          Conns,               \* PooledConnection objects
          NoConn, NoWaiter,    \* null pointers
          Max,                 \* max_connections
          MaxCalls,            \* bound on acquire() calls of one task
          MaxOps,              \* bound on the administrator's calls
          Setups               \* the configurations to look at

Actors == Tasks \cup {Admin}
Waiters == Tasks \X (1..MaxCalls)

\* Which tasks use timeout(), whether all run on one thread, whether
\* connections break and queues cannot grow, min_connections, and what the
\* administrator does.
Setup == [timed : SUBSET Tasks, oneThread : BOOLEAN, faulty : BOOLEAN, min : 0..Max,
          ops : SUBSET {"cleanup", "expand", "shrink", "shutdown"}]

ASSUME RedisAssumption ==
    /\ Admin \notin Tasks /\ NoConn \notin Conns /\ NoWaiter \notin Waiters
    /\ Max \in Nat \ {0}
    /\ MaxCalls \in Nat /\ MaxOps \in Nat
    /\ Setups \subseteq Setup

VARIABLES setup,                         \* the configuration, chosen once
          available, healthy,            \* idle connections; healthy ones
          late,                          \* connections returned during an actor's scan
          m_idle, m_live, m_is_shutting_down,
          m_waiters, wstate, wconn,      \* waiters: queue, state, connection
          redisPc, goal, hand, picked,   \* locals of an actor
          drained, toWake,               \* locals of the administrator
          calls, ops,                    \* calls made
          queued, fired                  \* wakes and timeouts of a task

idle == <<available, m_idle, late>>
waiting == <<m_waiters, wstate, wconn>>
locals == <<goal, hand, picked>>
adminLocals == <<drained, toWake, ops>>
wakes == <<queued, fired>>
redisVars == <<setup, idle, healthy, m_live, m_is_shutting_down, waiting, redisPc, locals,
               adminLocals, calls, wakes>>

RedisInit ==
    /\ setup \in Setups
    /\ available = {} /\ late = [a \in Actors |-> {}] /\ healthy = {} /\ m_idle = 0 /\ m_live = 0
    /\ m_is_shutting_down = FALSE
    /\ m_waiters = <<>>
    /\ wstate = [w \in Waiters |-> "None"] /\ wconn = [w \in Waiters |-> NoConn]
    /\ redisPc = [a \in Actors |-> "idle"] /\ goal = [a \in Actors |-> "none"]
    /\ hand = [a \in Actors |-> NoConn] /\ picked = [a \in Actors |-> NoWaiter]
    /\ drained = {} /\ toWake = {} /\ ops = 0
    /\ calls = [t \in Tasks |-> 0]
    /\ queued = [t \in Tasks |-> FALSE] /\ fired = [t \in Tasks |-> FALSE]

Is(a, label) == redisPc[a] = label
To(a, label) == redisPc' = [redisPc EXCEPT ![a] = label]
Hand(a, c) == hand' = [hand EXCEPT ![a] = c]
Less(n) == IF n > 0 THEN n - 1 ELSE 0        \* decrementCounter()
waiter(t) == <<t, calls[t]>>                 \* m_waiter of the current call

\* One thread runs a task until it suspends.
Suspended == {"idle", "suspended", "connecting", "using"}
MayRun(a) == setup.oneThread => \A b \in Actors \ {a} : redisPc[b] \in Suspended

\* Where an actor goes when the routine it called is over.
After(a) == CASE goal[a] = "rewake" -> "suspended"
              [] goal[a] = "cleanup" -> "sort"
              [] OTHER -> "idle"

-----------------------------------------------------------------------------
(* The queue of idle connections *)

\* The actor is between two shards of its scan for idle connections.
Scanning(a) ==
    \/ redisPc[a] \in {"dequeue", "counted"}
    \/ Is(a, "destroy") /\ goal[a] \in {"acquire", "rewake"}
    \/ Is(a, "destroy") /\ goal[a] = "shrink" /\ hand[a] \notin healthy
ScanOver(a) == late' = [late EXCEPT ![a] = {}]

\* try_dequeue() in tryAcquireAvailable() and drainAvailableConnections(), shard
\* by shard: a connection that comes back to a shard already passed is missed.
Dequeue(a) ==
    /\ Is(a, "dequeue")
    /\ \/ /\ \E c \in available :
               available' = available \ {c} /\ Hand(a, c) /\ To(a, "counted")
          /\ UNCHANGED late
       \/ /\ available \subseteq late[a]
          /\ To(a, CASE goal[a] = "acquire" -> "create"
                     [] goal[a] = "shutdown" -> "cancelPop"
                     [] OTHER -> After(a))
          /\ ScanOver(a)
          /\ UNCHANGED <<available, hand>>
    /\ UNCHANGED <<setup, healthy, m_idle, m_live, m_is_shutting_down, waiting, goal, picked,
                   adminLocals, calls, wakes>>

\* The counter follows; the connection is drained, used, passed on or, when
\* it is not healthy, destroyed.
CountDown(a) ==
    /\ Is(a, "counted")
    /\ m_idle' = Less(m_idle)
    /\ IF goal[a] \in {"cleanup", "shutdown"}
       THEN /\ drained' = drained \cup {hand[a]} /\ Hand(a, NoConn) /\ To(a, "dequeue")
            /\ UNCHANGED late
       ELSE /\ To(a, CASE hand[a] \notin healthy -> "destroy"
                       [] goal[a] = "acquire" -> "using"
                       [] goal[a] = "rewake" -> "completePop"
                       [] OTHER -> "destroy")
            /\ IF hand[a] \in healthy THEN ScanOver(a) ELSE UNCHANGED late
            /\ UNCHANGED <<drained, hand>>
    /\ UNCHANGED <<setup, available, healthy, m_live, m_is_shutting_down, waiting, goal, picked,
                   toWake, ops, calls, wakes>>

\* Mutant: the slot of a connection that is given up stays counted.
destroyConnectionSlot_Counted(a) ==
    /\ Is(a, "destroy")
    /\ m_live' = IF goal[a] = "failed" THEN m_live ELSE Less(m_live)
    /\ Hand(a, NoConn)
    /\ healthy' = healthy \ {hand[a]}
    /\ To(a, CASE goal[a] \in {"acquire", "rewake"} -> "dequeue"
               [] goal[a] = "shrink" -> IF hand[a] \in healthy THEN "shrink" ELSE "dequeue"
               [] OTHER -> After(a))
    /\ UNCHANGED <<setup, idle, m_is_shutting_down, waiting, goal, picked, adminLocals, calls,
                   wakes>>

destroyConnectionSlot(a) ==
    /\ Is(a, "destroy")
    /\ m_live' = Less(m_live)
    /\ Hand(a, NoConn)
    /\ healthy' = healthy \ {hand[a]}
    /\ To(a, CASE goal[a] \in {"acquire", "rewake"} -> "dequeue"
               [] goal[a] = "shrink" -> IF hand[a] \in healthy THEN "shrink" ELSE "dequeue"
               [] OTHER -> After(a))
    /\ UNCHANGED <<setup, idle, m_is_shutting_down, waiting, goal, picked, adminLocals, calls,
                   wakes>>

\* returnToAvailable(): enqueue, then count; without memory for the queue the
\* connection is destroyed.
Enqueue(a) ==
    /\ Is(a, "return")
    /\ \/ /\ available' = available \cup {hand[a]}
          /\ late' = [b \in Actors |-> IF Scanning(b) THEN late[b] \cup {hand[a]} ELSE late[b]]
          /\ To(a, "countUp") /\ UNCHANGED <<m_live, healthy>>
       \/ /\ setup.faulty
          /\ m_live' = Less(m_live) /\ healthy' = healthy \ {hand[a]}
          /\ To(a, After(a)) /\ UNCHANGED <<available, late>>
    /\ Hand(a, NoConn)
    /\ UNCHANGED <<setup, m_idle, m_is_shutting_down, waiting, goal, picked, adminLocals, calls,
                   wakes>>

CountUp(a) ==
    /\ Is(a, "countUp")
    /\ m_idle' = m_idle + 1
    /\ To(a, After(a))
    /\ UNCHANGED <<setup, available, late, healthy, m_live, m_is_shutting_down, waiting, locals,
                   adminLocals, calls, wakes>>

InUse == available \cup drained \cup {hand[a] : a \in Actors} \cup {wconn[w] : w \in Waiters}

\* createConnectionSlot(): a new connection is not connected and not healthy.
createConnectionSlot(a) ==
    /\ Is(a, "create")
    /\ IF m_live < Max
       THEN /\ m_live' = m_live + 1
            /\ \E c \in Conns \ InUse : Hand(a, c) /\ healthy' = healthy \ {c}
            /\ To(a, IF goal[a] = "acquire" THEN "connecting" ELSE "return")
       ELSE /\ To(a, IF goal[a] = "acquire" THEN "enqueue" ELSE "idle")
            /\ UNCHANGED <<m_live, hand, healthy>>
    /\ UNCHANGED <<setup, idle, m_is_shutting_down, waiting, goal, picked, adminLocals, calls,
                   wakes>>

-----------------------------------------------------------------------------
(* acquire() *)

\* prepareSuspend(): refused once the pool shuts down.
Acquire(t) ==
    /\ Is(t, "idle") /\ calls[t] < MaxCalls
    /\ calls' = [calls EXCEPT ![t] = @ + 1]
    /\ IF m_is_shutting_down THEN UNCHANGED <<redisPc, goal>>
       ELSE To(t, "dequeue") /\ goal' = [goal EXCEPT ![t] = "acquire"]
    /\ UNCHANGED <<setup, idle, healthy, m_live, m_is_shutting_down, waiting, hand, picked,
                   adminLocals, wakes>>

\* The connect of a new connection ends; the timeout of the acquire, or a stale
\* wake, ends it with an error.
Connected(t) ==
    /\ Is(t, "connecting")
    /\ \/ /\ healthy' = healthy \cup {hand[t]}
          /\ To(t, "using") /\ UNCHANGED <<goal, queued>>
       \/ /\ setup.faulty \/ queued[t] \/ t \in setup.timed
          /\ To(t, "destroy") /\ goal' = [goal EXCEPT ![t] = "failed"]
          /\ queued' = [queued EXCEPT ![t] = FALSE]
          /\ UNCHANGED healthy
    /\ UNCHANGED <<setup, idle, m_live, m_is_shutting_down, waiting, hand, picked, adminLocals,
                   calls, fired>>

\* Without memory for the queue of waiters the acquire fails.
enqueueWaiter(t) ==
    /\ Is(t, "enqueue")
    /\ \/ /\ m_waiters' = Append(m_waiters, waiter(t))
          /\ wstate' = [wstate EXCEPT ![waiter(t)] = "Waiting"]
          /\ To(t, "idleHint")
       \/ setup.faulty /\ To(t, "idle") /\ UNCHANGED <<m_waiters, wstate>>
    /\ UNCHANGED <<setup, idle, healthy, m_live, m_is_shutting_down, wconn, locals, adminLocals,
                   calls, wakes>>

\* Queued: a connection may have come back meanwhile
\* (wakeOneWaiterFromAvailable()).
CheckIdle(t) ==
    /\ Is(t, "idleHint")
    /\ IF m_idle > 0
       THEN To(t, "dequeue") /\ goal' = [goal EXCEPT ![t] = "rewake"]
       ELSE To(t, "suspended") /\ UNCHANGED goal
    /\ UNCHANGED <<setup, idle, healthy, m_live, m_is_shutting_down, waiting, hand, picked,
                   adminLocals, calls, wakes>>

\* The timer of a timed wait expires: it marks the wait and wakes the task.
Expire(t) ==
    /\ Is(t, "suspended") /\ t \in setup.timed /\ ~fired[t]
    /\ fired' = [fired EXCEPT ![t] = TRUE] /\ queued' = [queued EXCEPT ![t] = TRUE]
    /\ UNCHANGED <<setup, idle, healthy, m_live, m_is_shutting_down, waiting, redisPc, locals,
                   adminLocals, calls>>

Resume(t) ==
    /\ Is(t, "suspended") /\ queued[t]
    /\ queued' = [queued EXCEPT ![t] = FALSE] /\ fired' = [fired EXCEPT ![t] = FALSE]
    /\ To(t, IF fired[t] THEN "markTimeout" ELSE "awaitResume")
    /\ UNCHANGED <<setup, idle, healthy, m_live, m_is_shutting_down, waiting, locals,
                   adminLocals, calls>>

\* try_complete_waiter(..., TimedOut)
markTimeout(t) ==
    /\ Is(t, "markTimeout")
    /\ wstate' = IF wstate[waiter(t)] = "Waiting"
                 THEN [wstate EXCEPT ![waiter(t)] = "TimedOut"] ELSE wstate
    /\ To(t, "awaitResume")
    /\ UNCHANGED <<setup, idle, healthy, m_live, m_is_shutting_down, m_waiters, wconn, locals,
                   adminLocals, calls, wakes>>

\* Completed: the connection is the task's.  Anything else is an error, and
\* a waiter still Waiting stays in the queue with nobody behind it.
awaitResume(t) ==
    /\ Is(t, "awaitResume")
    /\ IF wstate[waiter(t)] = "Completed"
       THEN Hand(t, wconn[waiter(t)]) /\ To(t, "using")
       ELSE To(t, "idle") /\ UNCHANGED hand
    /\ wconn' = [wconn EXCEPT ![waiter(t)] = NoConn]
    /\ UNCHANGED <<setup, idle, healthy, m_live, m_is_shutting_down, m_waiters, wstate, goal,
                   picked, adminLocals, calls, wakes>>

\* A stale wake that finds the task in another co_await is spent there.
SpendWake(t) ==
    /\ redisPc[t] \in {"idle", "using"} /\ queued[t]
    /\ queued' = [queued EXCEPT ![t] = FALSE]
    /\ UNCHANGED <<setup, idle, healthy, m_live, m_is_shutting_down, waiting, redisPc, locals,
                   adminLocals, calls, fired>>

-----------------------------------------------------------------------------
(* release() *)

\* Mutant: a connection that comes back is not offered to the waiters.
Release_Unoffered(t) ==
    /\ Is(t, "using")
    /\ goal' = [goal EXCEPT ![t] = "release"]
    /\ To(t, "return")
    /\ UNCHANGED <<setup, idle, healthy, m_live, m_is_shutting_down, waiting, hand, picked,
                   adminLocals, calls, wakes>>

\* A connection that broke in use is destroyed, any other is passed on.
Release(t) ==
    /\ Is(t, "using")
    /\ \E broken \in {FALSE, setup.faulty} :
        IF m_is_shutting_down
        THEN Hand(t, NoConn) /\ To(t, "idle") /\ UNCHANGED <<goal, healthy>>
        ELSE /\ goal' = [goal EXCEPT ![t] = "release"]
             /\ To(t, IF broken \/ m_live > Max THEN "destroy" ELSE "completePop")
             /\ healthy' = IF broken THEN healthy \ {hand[t]} ELSE healthy
             /\ UNCHANGED hand
    /\ UNCHANGED <<setup, idle, m_live, m_is_shutting_down, waiting, picked, adminLocals, calls,
                   wakes>>

\* completeOneWaiter(): pop a waiter, then win its state.
PopWaiter(a) ==
    /\ redisPc[a] \in {"completePop", "cancelPop"}
    /\ IF m_waiters = <<>>
       THEN /\ To(a, IF Is(a, "completePop") THEN "return" ELSE "zero")
            /\ UNCHANGED <<m_waiters, picked>>
       ELSE /\ m_waiters' = Tail(m_waiters)
            /\ picked' = [picked EXCEPT ![a] = Head(m_waiters)]
            /\ To(a, IF Is(a, "completePop") THEN "complete" ELSE "cancel")
    /\ UNCHANGED <<setup, idle, healthy, m_live, m_is_shutting_down, wstate, wconn, goal, hand,
                   adminLocals, calls, wakes>>

\* The waiter belongs to a call that is still waiting for it.
Attended(w) == waiter(w[1]) = w /\ redisPc[w[1]] \in {"idleHint", "dequeue", "counted", "destroy",
                    "completePop", "complete", "wake", "return", "countUp", "suspended",
                    "markTimeout", "awaitResume"}

\* Mutant: completing a waiter does not say so, and the connection is also
\* returned.
Complete_Both(a) ==
    LET w == picked[a]
    IN  /\ Is(a, "complete")
        /\ IF wstate[w] = "Waiting"
           THEN /\ wstate' = [wstate EXCEPT ![w] = "Completed"]
                /\ wconn' = [wconn EXCEPT ![w] = IF Attended(w) THEN hand[a] ELSE NoConn]
                /\ queued' = [queued EXCEPT ![w[1]] = TRUE]
                /\ To(a, "return")
           ELSE UNCHANGED <<wstate, wconn, queued>> /\ To(a, "completePop")
        /\ picked' = [picked EXCEPT ![a] = NoWaiter]
        /\ UNCHANGED <<setup, idle, healthy, m_live, m_is_shutting_down, m_waiters, goal, hand,
                       adminLocals, calls, fired>>

\* The connection moves to the waiter whose state is won; it is lost with a
\* waiter nobody attends.
Complete(a) ==
    LET w == picked[a]
    IN  /\ Is(a, "complete")
        /\ IF wstate[w] = "Waiting"
           THEN /\ wstate' = [wstate EXCEPT ![w] = "Completed"]
                /\ wconn' = [wconn EXCEPT ![w] = IF Attended(w) THEN hand[a] ELSE NoConn]
                /\ Hand(a, NoConn) /\ To(a, "wake") /\ UNCHANGED picked
           ELSE /\ To(a, "completePop") /\ picked' = [picked EXCEPT ![a] = NoWaiter]
                /\ UNCHANGED <<wstate, wconn, hand>>
        /\ UNCHANGED <<setup, idle, healthy, m_live, m_is_shutting_down, m_waiters, goal,
                       adminLocals, calls, wakes>>

\* waker.wakeUp(), after the rest of release().
Wake(a) ==
    /\ Is(a, "wake")
    /\ queued' = [queued EXCEPT ![picked[a][1]] = TRUE]
    /\ picked' = [picked EXCEPT ![a] = NoWaiter]
    /\ To(a, After(a))
    /\ UNCHANGED <<setup, idle, healthy, m_live, m_is_shutting_down, waiting, goal, hand,
                   adminLocals, calls, fired>>

-----------------------------------------------------------------------------
(* The administrator *)

\* cleanupUnhealthyConnections(), triggerIdleCleanup(), expandPool(),
\* warmup(), shrinkPool() and shutdown() begin.
StartOp(op) ==
    /\ Is(Admin, "idle") /\ ops < MaxOps
    /\ ops' = ops + 1 /\ goal' = [goal EXCEPT ![Admin] = op]
    /\ IF op = "shutdown"
       THEN /\ m_is_shutting_down' = TRUE
            /\ IF m_is_shutting_down THEN UNCHANGED redisPc ELSE To(Admin, "dequeue")
       ELSE /\ To(Admin, CASE op = "cleanup" -> "dequeue"
                           [] op = "expand" -> "create"
                           [] OTHER -> "shrink")
            /\ UNCHANGED m_is_shutting_down
    /\ UNCHANGED <<setup, idle, healthy, m_live, waiting, hand, picked, drained, toWake, calls,
                   wakes>>

\* Each drained connection is destroyed (unhealthy, or idle for too long
\* with more than min_connections) or returned; triggerHealthCheck() then
\* makes up the minimum.
Sort ==
    /\ Is(Admin, "sort")
    /\ \/ \E c \in drained :
            /\ drained' = drained \ {c} /\ Hand(Admin, c)
            /\ \/ (c \notin healthy \/ m_live > setup.min) /\ To(Admin, "destroy")
               \/ To(Admin, "return")
            /\ UNCHANGED goal
       \/ /\ drained = {}
          /\ \/ To(Admin, "idle") /\ UNCHANGED goal
             \/ m_live < setup.min /\ To(Admin, "create") /\ goal' = [goal EXCEPT ![Admin] = "expand"]
          /\ UNCHANGED <<drained, hand>>
    /\ UNCHANGED <<setup, idle, healthy, m_live, m_is_shutting_down, waiting, picked, toWake, ops,
                   calls, wakes>>

\* shrinkPool(min_connections): one more while there are more than that.
Shrink ==
    /\ Is(Admin, "shrink")
    /\ To(Admin, IF m_live > setup.min THEN "dequeue" ELSE "idle")
    /\ UNCHANGED <<setup, idle, healthy, m_live, m_is_shutting_down, waiting, locals, adminLocals,
                   calls, wakes>>

\* shutdown() cancels the waiters it finds, ...
Cancel ==
    LET w == picked[Admin]
    IN  /\ Is(Admin, "cancel")
        /\ IF wstate[w] = "Waiting"
           THEN wstate' = [wstate EXCEPT ![w] = "Cancelled"] /\ toWake' = toWake \cup {w[1]}
           ELSE UNCHANGED <<wstate, toWake>>
        /\ picked' = [picked EXCEPT ![Admin] = NoWaiter]
        /\ To(Admin, "cancelPop")
        /\ UNCHANGED <<setup, idle, healthy, m_live, m_is_shutting_down, m_waiters, wconn, goal,
                       hand, drained, ops, calls, wakes>>

\* ... clears the counters and drops the connections, and then wakes.
Zero ==
    /\ Is(Admin, "zero")
    /\ m_idle' = 0 /\ m_live' = 0 /\ drained' = {}
    /\ To(Admin, "wakeAll")
    /\ UNCHANGED <<setup, available, late, healthy, m_is_shutting_down, waiting, locals, toWake, ops,
                   calls, wakes>>

WakeAll ==
    /\ Is(Admin, "wakeAll")
    /\ queued' = [t \in Tasks |-> queued[t] \/ t \in toWake]
    /\ toWake' = {} /\ To(Admin, "idle")
    /\ UNCHANGED <<setup, idle, healthy, m_live, m_is_shutting_down, waiting, locals, drained, ops,
                   calls, fired>>

-----------------------------------------------------------------------------
RoutineStep(a) ==
    \/ Dequeue(a) \/ CountDown(a) \/ destroyConnectionSlot(a) \/ Enqueue(a) \/ CountUp(a)
    \/ createConnectionSlot(a) \/ PopWaiter(a) \/ Complete(a) \/ Wake(a)

\* What a task does once it called acquire() until it released.
TaskStep(t) ==
    /\ MayRun(t)
    /\ \/ RoutineStep(t)
       \/ Connected(t) \/ enqueueWaiter(t) \/ CheckIdle(t) \/ Resume(t) \/ markTimeout(t)
       \/ awaitResume(t) \/ Release(t)

AdminStepR ==
    /\ MayRun(Admin)
    /\ RoutineStep(Admin) \/ Sort \/ Shrink \/ Cancel \/ Zero \/ WakeAll

RedisNext ==
    \/ \E t \in Tasks :
        \/ MayRun(t) /\ Acquire(t)
        \/ TaskStep(t)
        \/ Expire(t)
        \/ MayRun(t) /\ SpendWake(t)
    \/ MayRun(Admin) /\ \E op \in setup.ops : StartOp(op)
    \/ AdminStepR

RedisSpec == RedisInit /\ [][RedisNext]_redisVars

\* Schedulers run what is woken, timers expire, connects end, and tasks
\* release what they acquired.
RedisFairness ==
    /\ \A t \in Tasks : WF_redisVars(TaskStep(t)) /\ WF_redisVars(Expire(t))
    /\ WF_redisVars(AdminStepR)
RedisFairSpec == RedisSpec /\ RedisFairness

-----------------------------------------------------------------------------
(* Properties *)

\* A connection has one owner: it is idle, or in the hands of one actor, or
\* handed to one waiter, or drained by the administrator.
OneOwner ==
    \A c \in Conns :
        Cardinality({a \in Actors : hand[a] = c}) + Cardinality({w \in Waiters : wconn[w] = c})
        + (IF c \in available THEN 1 ELSE 0) + (IF c \in drained THEN 1 ELSE 0) <= 1

\* No slot of the pool is lost: until shutdown, and without timeouts,
\* m_live_connections counts the connections that exist, through failed
\* connects, broken connections, cleanup and shrinking.
SlotsAccounted ==
    setup.timed = {} /\ ~m_is_shutting_down =>
        m_live = Cardinality({c \in Conns : c \in InUse})

\* The hint never misses a connection: m_idle_connections, with the
\* increments and without the decrements that are on their way, is at least
\* the number of idle connections, although the decrement may come first.
IdleCovers ==
    ~m_is_shutting_down =>
        m_idle + Cardinality({a \in Actors : Is(a, "countUp")})
            >= Cardinality(available) + Cardinality({a \in Actors : Is(a, "counted")})

\* The two counters that decide whether a connection is made or looked for can
\* be relied upon.
CountersSound == SlotsAccounted /\ IdleCovers

\* acquire() returns: with a timeout always; without one when all tasks are
\* on one thread and no connection breaks.
AcquireReturns ==
    \A t \in Tasks :
        t \in setup.timed \/ (setup.oneThread /\ ~setup.faulty)
            => (Is(t, "suspended") ~> ~Is(t, "suspended"))

\* "Wake a waiter from the idle queue, to avoid the enqueue/release race"
\* (wakeOneWaiterFromAvailable()): no waiter is left alone with an idle
\* connection.
RaceAvoided ==
    [](\A t \in Tasks : (~setup.faulty /\ Is(t, "suspended")) => <>~Is(t, "suspended"))

\* "Only the first callback whose exchange from Waiting succeeds may write the
\* result and wake the coroutine" (PoolWaiterState): a task that runs on after
\* its wait is not woken for that wait again.
OneWake ==
    \A t \in Tasks : Is(t, "using") => ~queued[t]
=============================================================================
