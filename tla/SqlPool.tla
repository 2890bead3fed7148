------------------------------- MODULE SqlPool -------------------------------
(***************************************************************************)
(* MysqlConnectionPool and PostgresConnectionPool: the same lock-free pool *)
(* twice, PostgreSQL's with a second queue for clients to be reconnected.  *)
(* Idle clients and waiters are in concurrent queues, which keep no order  *)
(* between producers, and a counter of idle clients stands beside them: a  *)
(* step is one queue or atomic operation with the tests that follow it.    *)
(*                                                                         *)
(* A node of the waiter queue is named by its caller: it leaves the queue  *)
(* before its caller is woken, and nothing else resumes the caller.  An    *)
(* enqueue fails only when memory runs out, which is left out.             *)
(***************************************************************************)
EXTENDS Integers, FiniteSets

CONSTANTS Callers,             \* the tasks that use the pool
          NoCaller,            \* a null waiter pointer
          MaxSize,             \* bound on max_connections
          CallsEach,           \* bound on acquire() calls of one task
          SqlSetups            \* the configurations to look at

SqlSetup == [kind : {"mysql", "postgres"},
             min : 0..MaxSize, max : 0..MaxSize,   \* min_ and max_connections
             users : SUBSET Callers,   \* the callers there are
             oneThread : BOOLEAN,      \* all callers run on one thread
             connectFails : BOOLEAN,   \* connecting may fail
             breaks : BOOLEAN]         \* a client may come back closed or in a transaction

MinOf(s) == IF s.min < s.max THEN s.min ELSE s.max

ASSUME SqlAssumption ==
    /\ IsFiniteSet(Callers) /\ NoCaller \notin Callers
    /\ MaxSize \in Nat /\ CallsEach \in Nat
    /\ SqlSetups \subseteq SqlSetup

VARIABLES sqlSetup,                   \* the configuration, chosen once
          idleClients, disconnected,  \* m_idle_clients, m_disconnected_clients
          total, idleCount,           \* m_total_connections, m_idle_connections
          sqlWaiters, active, granted,\* m_waiters; active and client of a waiter
          sqlWoken,                   \* callers whose waker was called
          stateWaiting,               \* callers whose m_state is Waiting
          sqlPc, sqlClient, serving,  \* locals: program counter, slot of a client or 0, waiter
          sqlCalls,                   \* acquire() calls a caller has made
          alive                       \* the pool is not destroyed

sqlIdle == <<idleClients, idleCount>>
sqlQueue == <<sqlWaiters, active, granted, sqlWoken>>
sqlVars == <<sqlSetup, sqlIdle, disconnected, total, sqlQueue, stateWaiting, sqlPc, sqlClient,
             serving, sqlCalls, alive>>

\* MySQL ignores min_connections; PostgreSQL makes that many unconnected clients.
SqlInit ==
    /\ sqlSetup \in SqlSetups
    /\ total = IF sqlSetup.kind = "postgres" THEN MinOf(sqlSetup) ELSE 0
    /\ disconnected = 1..total
    /\ idleClients = {} /\ idleCount = 0
    /\ sqlWaiters = {} /\ active = {} /\ sqlWoken = {}
    /\ granted = [a \in Callers |-> 0] /\ stateWaiting = {}
    /\ sqlPc = [a \in Callers |-> "out"]
    /\ sqlClient = [a \in Callers |-> 0]
    /\ serving = [a \in Callers |-> NoCaller]
    /\ sqlCalls = [a \in Callers |-> 0]
    /\ alive = TRUE

\* Outside the pool's functions; on one thread no one else is inside them.
Resting == {"out", "connecting", "suspended", "holding"}

At(a, pc) ==
    /\ sqlPc[a] = pc
    /\ sqlSetup.oneThread => \A b \in Callers \ {a} : sqlPc[b] \in Resting

MovesTo(a, pc) == sqlPc' = [sqlPc EXCEPT ![a] = pc]

Carry(a, c) == sqlClient' = [sqlClient EXCEPT ![a] = c]

\* wakeOneWaiter() returns into await_suspend, which suspends, or release().
Back(a) == IF a \in stateWaiting THEN "suspended" ELSE "out"

-----------------------------------------------------------------------------

\* acquire(): the idle queue first.
acquire(a) ==
    /\ At(a, "out") /\ alive /\ a \in sqlSetup.users /\ sqlCalls[a] < CallsEach
    /\ sqlCalls' = [sqlCalls EXCEPT ![a] = @ + 1]
    /\ \/ \E c \in idleClients :
            /\ idleClients' = idleClients \ {c}
            /\ Carry(a, c) /\ MovesTo(a, "taken")
       \/ /\ idleClients = {}
          /\ MovesTo(a, IF sqlSetup.kind = "postgres" THEN "recycled" ELSE "create")
          /\ UNCHANGED <<idleClients, sqlClient>>
    /\ UNCHANGED <<sqlSetup, idleCount, disconnected, total, sqlQueue, serving, stateWaiting, alive>>

\* tryAcquire()'s fetch_sub, in acquire() and in wakeOneWaiter().
Uncount(a) ==
    /\ At(a, "taken")
    /\ idleCount' = idleCount - 1
    /\ MovesTo(a, IF serving[a] = NoCaller THEN "holding" ELSE "grant")
    /\ UNCHANGED <<sqlSetup, idleClients, disconnected, total, sqlQueue, sqlClient, serving,
                   stateWaiting, sqlCalls, alive>>

\* PostgreSQL reconnects a client before it makes a new one.
TakeRecycled(a) ==
    /\ At(a, "recycled")
    /\ \/ \E c \in disconnected :
            /\ disconnected' = disconnected \ {c}
            /\ Carry(a, c) /\ MovesTo(a, "connecting")
       \/ /\ disconnected = {} /\ MovesTo(a, "create")
          /\ UNCHANGED <<disconnected, sqlClient>>
    /\ UNCHANGED <<sqlSetup, sqlIdle, total, sqlQueue, serving, stateWaiting, sqlCalls, alive>>

\* The total only grows, so the loop around the exchange is one step.
createClient(a) ==
    /\ At(a, "create")
    /\ \/ /\ total < sqlSetup.max /\ total' = total + 1
          /\ Carry(a, total + 1) /\ MovesTo(a, "connecting")
       \/ /\ total >= sqlSetup.max /\ MovesTo(a, "enqueue")
          /\ UNCHANGED <<total, sqlClient>>
    /\ UNCHANGED <<sqlSetup, sqlIdle, disconnected, sqlQueue, serving, stateWaiting, sqlCalls, alive>>

\* The connect awaitable ends well.
Connected(a) ==
    /\ At(a, "connecting")
    /\ MovesTo(a, "holding")
    /\ UNCHANGED <<sqlSetup, sqlIdle, disconnected, total, sqlQueue, sqlClient, serving,
                   stateWaiting, sqlCalls, alive>>

\* Mutant: a client that failed is not kept for a later connect.
recycleDisconnected_None(c) == UNCHANGED disconnected

\* The client waits, unconnected, for the next caller that finds none idle.
recycleDisconnected(c) == disconnected' = disconnected \cup {c}

\* MySQL drops the pointer and leaves the client in its slot.
ConnectFailed(a) ==
    /\ At(a, "connecting") /\ sqlSetup.connectFails
    /\ IF sqlSetup.kind = "postgres"
       THEN recycleDisconnected(sqlClient[a])
       ELSE UNCHANGED disconnected
    /\ Carry(a, 0) /\ MovesTo(a, "out")
    /\ UNCHANGED <<sqlSetup, sqlIdle, total, sqlQueue, serving, stateWaiting, sqlCalls, alive>>

enqueueWaiter(a) ==
    /\ At(a, "enqueue")
    /\ stateWaiting' = stateWaiting \cup {a}
    /\ sqlWaiters' = sqlWaiters \cup {a} /\ active' = active \cup {a}
    /\ granted' = [granted EXCEPT ![a] = 0]
    /\ MovesTo(a, "recheck")
    /\ UNCHANGED <<sqlSetup, sqlIdle, disconnected, total, sqlWoken, sqlClient, serving, sqlCalls, alive>>

\* The test of the counter, before wakeOneWaiter() and in its loop.  The
\* counter is unsigned: below zero is above zero.
Recheck(a) ==
    /\ \E pc \in {"recheck", "loop"} : At(a, pc)
    /\ MovesTo(a, IF idleCount = 0 THEN Back(a) ELSE IF sqlPc[a] = "recheck" THEN "loop" ELSE "dequeue")
    /\ UNCHANGED <<sqlSetup, sqlIdle, disconnected, total, sqlQueue, sqlClient, serving,
                   stateWaiting, sqlCalls, alive>>

DequeueWaiter(a) ==
    /\ At(a, "dequeue")
    /\ \/ /\ sqlWaiters = {} /\ MovesTo(a, Back(a))
          /\ UNCHANGED <<sqlWaiters, active, serving>>
       \/ \E w \in sqlWaiters :
            /\ sqlWaiters' = sqlWaiters \ {w} /\ active' = active \ {w}
            /\ serving' = IF w \in active THEN [serving EXCEPT ![a] = w] ELSE serving
            /\ MovesTo(a, IF w \in active THEN "serve" ELSE "loop")
    /\ UNCHANGED <<sqlSetup, sqlIdle, disconnected, total, granted, sqlWoken, sqlClient,
                   stateWaiting, sqlCalls, alive>>

\* tryAcquire() for the waiter.
Serve(a) ==
    /\ At(a, "serve")
    /\ \/ \E c \in idleClients :
            /\ idleClients' = idleClients \ {c}
            /\ Carry(a, c) /\ MovesTo(a, "taken")
       \/ /\ idleClients = {} /\ MovesTo(a, "requeue")
          /\ UNCHANGED <<idleClients, sqlClient>>
    /\ UNCHANGED <<sqlSetup, idleCount, disconnected, total, sqlQueue, serving, stateWaiting,
                   sqlCalls, alive>>

Requeue(a) ==
    /\ At(a, "requeue")
    /\ active' = active \cup {serving[a]} /\ sqlWaiters' = sqlWaiters \cup {serving[a]}
    /\ serving' = [serving EXCEPT ![a] = NoCaller]
    /\ MovesTo(a, Back(a))
    /\ UNCHANGED <<sqlSetup, sqlIdle, disconnected, total, granted, sqlWoken, sqlClient,
                   stateWaiting, sqlCalls, alive>>

Grant(a) ==
    /\ At(a, "grant")
    /\ granted' = [granted EXCEPT ![serving[a]] = sqlClient[a]]
    /\ sqlWoken' = sqlWoken \cup {serving[a]}
    /\ serving' = [serving EXCEPT ![a] = NoCaller]
    /\ Carry(a, 0) /\ MovesTo(a, Back(a))
    /\ UNCHANGED <<sqlSetup, sqlIdle, disconnected, total, sqlWaiters, active, stateWaiting,
                   sqlCalls, alive>>

\* await_resume of a waiter: without a client it is an error.
Resume(a) ==
    /\ At(a, "suspended") /\ a \in sqlWoken
    /\ sqlWoken' = sqlWoken \ {a} /\ stateWaiting' = stateWaiting \ {a}
    /\ granted' = [granted EXCEPT ![a] = 0] /\ Carry(a, granted[a])
    /\ MovesTo(a, IF granted[a] = 0 THEN "out" ELSE "holding")
    /\ UNCHANGED <<sqlSetup, sqlIdle, disconnected, total, sqlWaiters, active, serving, sqlCalls, alive>>

-----------------------------------------------------------------------------

\* release(), also by the destructor of a lease.
release(a) ==
    /\ At(a, "holding") /\ Carry(a, 0)
    /\ \/ /\ idleClients' = idleClients \cup {sqlClient[a]} /\ MovesTo(a, "count")
          /\ UNCHANGED disconnected
       \/ /\ sqlSetup.kind = "postgres" /\ sqlSetup.breaks
          /\ recycleDisconnected(sqlClient[a]) /\ MovesTo(a, "fail")
          /\ UNCHANGED idleClients
    /\ UNCHANGED <<sqlSetup, idleCount, total, sqlQueue, serving, stateWaiting, sqlCalls, alive>>

\* Mutant: a released client is counted and no waiter is looked for.
Count_Silent(a) ==
    /\ At(a, "count")
    /\ idleCount' = idleCount + 1
    /\ MovesTo(a, "out")
    /\ UNCHANGED <<sqlSetup, idleClients, disconnected, total, sqlQueue, sqlClient, serving,
                   stateWaiting, sqlCalls, alive>>

\* The fetch_add of release(), which then looks for a waiter.
Count(a) ==
    /\ At(a, "count")
    /\ idleCount' = idleCount + 1
    /\ MovesTo(a, "loop")
    /\ UNCHANGED <<sqlSetup, idleClients, disconnected, total, sqlQueue, sqlClient, serving,
                   stateWaiting, sqlCalls, alive>>

failOneWaiter(a) ==
    /\ At(a, "fail")
    /\ \/ /\ sqlWaiters = {} /\ MovesTo(a, "out") /\ UNCHANGED sqlQueue
       \/ \E w \in sqlWaiters :
            /\ sqlWaiters' = sqlWaiters \ {w} /\ active' = active \ {w}
            /\ IF w \in active
               THEN /\ granted' = [granted EXCEPT ![w] = 0] /\ sqlWoken' = sqlWoken \cup {w}
                    /\ MovesTo(a, "out")
               ELSE UNCHANGED <<granted, sqlWoken, sqlPc>>
    /\ UNCHANGED <<sqlSetup, sqlIdle, disconnected, total, sqlClient, serving, stateWaiting,
                   sqlCalls, alive>>

\* The destructor, once every client is back: the waiters are woken in vain.
Destroy ==
    /\ alive /\ alive' = FALSE
    /\ \A a \in Callers : sqlPc[a] = "out" \/ (sqlPc[a] = "suspended" /\ a \in sqlWaiters)
    /\ sqlWaiters' = {} /\ active' = active \ sqlWaiters /\ sqlWoken' = sqlWoken \cup sqlWaiters
    /\ granted' = [a \in Callers |-> IF a \in sqlWaiters THEN 0 ELSE granted[a]]
    /\ idleClients' = {} /\ disconnected' = {}
    /\ UNCHANGED <<sqlSetup, idleCount, total, sqlPc, sqlClient, serving, stateWaiting, sqlCalls>>

Proceed(a) ==
    \/ Uncount(a) \/ TakeRecycled(a) \/ createClient(a) \/ Connected(a) \/ ConnectFailed(a)
    \/ enqueueWaiter(a) \/ Recheck(a) \/ DequeueWaiter(a) \/ Serve(a) \/ Requeue(a) \/ Grant(a)
    \/ Resume(a) \/ release(a) \/ Count(a) \/ failOneWaiter(a)

SqlNext == (\E a \in Callers : acquire(a) \/ Proceed(a)) \/ Destroy

\* A call goes on, connecting ends, a woken caller is resumed, and a caller
\* gives back what it holds, as the pool's users must.
SqlFairness == \A a \in Callers : WF_sqlVars(Proceed(a))

SqlSpec == SqlInit /\ [][SqlNext]_sqlVars /\ SqlFairness

-----------------------------------------------------------------------------

\* Callers inside tryAcquire() or wakeOneWaiter() with a client, connecting or holding.
Carriers == {a \in Callers : sqlClient[a] # 0}

\* The pool's books.  A client is in one place: the idle queue, the queue of
\* those to reconnect, a caller's hand, or reserved for a waiter that was
\* woken; it is lost to the pool only when MySQL fails to connect.  The idle
\* counter is off by exactly the takers and returners between their two
\* operations, and a waiter is in the queue or with one caller that serves it.
SqlAccounted ==
    LET Places(c) == Cardinality({a \in Carriers : sqlClient[a] = c})
                     + Cardinality({w \in Callers : granted[w] = c})
                     + (IF c \in idleClients THEN 1 ELSE 0)
                     + (IF c \in disconnected THEN 1 ELSE 0)
        Pcs(pc) == Cardinality({a \in Callers : sqlPc[a] = pc})
    IN  alive =>
        /\ total <= sqlSetup.max
        /\ \A c \in 1..total :
             /\ Places(c) <= 1
             /\ sqlSetup.kind = "postgres" \/ ~sqlSetup.connectFails => Places(c) = 1
        /\ idleCount = Cardinality(idleClients) + Pcs("taken") - Pcs("count")
        /\ \A w \in stateWaiting :
             Cardinality({a \in Callers : serving[a] = w})
             + Cardinality({w} \cap sqlWaiters) + Cardinality({w} \cap sqlWoken) = 1

\* No connect fails and no client comes back broken; MySQL's pool does not look.
Reliable == ~sqlSetup.connectFails /\ (sqlSetup.breaks => sqlSetup.kind = "mysql")

\* A caller that waits for a connection is resumed, when the callers share a
\* thread and the connections are reliable.
WaiterResumed ==
    \A a \in Callers :
        sqlPc[a] = "suspended" /\ sqlSetup.oneThread /\ Reliable ~> sqlPc[a] # "suspended"

\* As the description of MySQL's pool has it: at the limit a caller waits for
\* another one's release, and is then resumed.
EveryWaiterResumed == \A a \in Callers : sqlPc[a] = "suspended" ~> sqlPc[a] # "suspended"
=============================================================================
