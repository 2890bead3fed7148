--------------------------- MODULE BlockingExecutor ---------------------------
(***************************************************************************)
(* The thread pool behind Runtime::spawnBlocking().  Everything under      *)
(* m_mutex is one step; what submit() does after it has released the mutex *)
(* (notify_one, or starting the thread) is a step of its own.  Threads are *)
(* slots of Workers that are used again after a thread has retired.        *)
(*                                                                         *)
(* Callers of submit() have returned before the executor is destroyed,     *)
(* except tasks of the pool itself, which are refused from then on.        *)
(***************************************************************************)
EXTENDS Naturals, Sequences, FiniteSets

CONSTANTS Jobs, Workers,
          m_minWorkers, m_maxWorkers,
          SpawnMayFail,   \* the std::thread constructor may throw
          NoTask

ASSUME PoolAssumption ==
    /\ m_maxWorkers \in Nat \ {0} /\ m_minWorkers \in 0..m_maxWorkers
    /\ IsFiniteSet(Workers) /\ Cardinality(Workers) >= m_maxWorkers
    /\ NoTask \notin Jobs

VARIABLES m_tasks, m_workerCount, m_idleWorkers, m_stopping,
          worker,      \* thread: "none", "run", "wait" (on m_taskCv)
          running,     \* the task a thread runs
          canTimeOut,  \* the waiting threads that wait for m_keepAlive only
          notified,    \* the waiting threads that m_taskCv has signalled
          progress,    \* task: new, refused, queued, run, done, or lost
          runs,        \* how often a task was started
          owed,        \* submit() has still to "notify" or "spawn" for a task
          destroyed    \* the destructor has returned

pool == <<m_tasks, m_workerCount, m_idleWorkers, m_stopping>>
threads == <<worker, running, canTimeOut, notified>>
executorVars == <<pool, threads, progress, runs, owed, destroyed>>

ExecutorInit ==
    /\ m_tasks = <<>> /\ m_workerCount = 0 /\ m_idleWorkers = 0
    /\ m_stopping = FALSE /\ destroyed = FALSE
    /\ worker = [w \in Workers |-> "none"]
    /\ running = [w \in Workers |-> NoTask]
    /\ canTimeOut = {} /\ notified = {}
    /\ progress = [t \in Jobs |-> "new"]
    /\ runs = [t \in Jobs |-> 0]
    /\ owed = [t \in Jobs |-> "nothing"]

-----------------------------------------------------------------------------
(* submit() *)

Submit(t, enqueue) ==
    /\ progress[t] = "new" /\ ~destroyed
    /\ IF m_stopping
         THEN /\ progress' = [progress EXCEPT ![t] = "refused"]
              /\ UNCHANGED <<m_tasks, m_workerCount, owed>>
         ELSE /\ progress' = [progress EXCEPT ![t] = "queued"]
              /\ m_tasks' = IF enqueue THEN Append(m_tasks, t) ELSE m_tasks
              /\ m_workerCount' = IF enqueue THEN m_workerCount ELSE m_workerCount + 1
              /\ owed' = [owed EXCEPT ![t] = IF ~enqueue THEN "spawn"
                                             ELSE IF m_idleWorkers > 0 THEN "notify"
                                             ELSE "nothing"]
    /\ UNCHANGED <<m_idleWorkers, m_stopping, threads, runs, destroyed>>

submit(t) == Submit(t, m_idleWorkers > 0 \/ m_workerCount >= m_maxWorkers)

notify_one_Never(t) ==
    /\ owed[t] = "notify"
    /\ owed' = [owed EXCEPT ![t] = "nothing"]
    /\ UNCHANGED <<pool, threads, progress, runs, destroyed>>
\* One waiting thread, if there is one that is not signalled yet.
notify_one(t) ==
    /\ owed[t] = "notify"
    /\ owed' = [owed EXCEPT ![t] = "nothing"]
    /\ LET waiting == {w \in Workers : worker[w] = "wait"} \ notified
       IN  IF waiting = {}
             THEN UNCHANGED notified
             ELSE \E w \in waiting : notified' = notified \union {w}
    /\ UNCHANGED <<pool, worker, running, canTimeOut, progress, runs, destroyed>>

Spawn(t) ==
    /\ owed[t] = "spawn"
    /\ owed' = [owed EXCEPT ![t] = "nothing"]
    /\ \E w \in Workers :
         /\ worker[w] = "none"
         /\ worker' = [worker EXCEPT ![w] = "run"]
         /\ running' = [running EXCEPT ![w] = t]
    /\ progress' = [progress EXCEPT ![t] = "run"]
    /\ runs' = [runs EXCEPT ![t] = @ + 1]
    /\ UNCHANGED <<pool, canTimeOut, notified, destroyed>>

\* std::thread throws out of submit(); the count has been raised already.
SpawnThrows(t) ==
    /\ SpawnMayFail
    /\ owed[t] = "spawn"
    /\ owed' = [owed EXCEPT ![t] = "nothing"]
    /\ progress' = [progress EXCEPT ![t] = "lost"]
    /\ UNCHANGED <<pool, threads, runs, destroyed>>

-----------------------------------------------------------------------------
(* workerLoop(), from the acquisition of the mutex to its release.  idle is *)
(* m_idleWorkers without this thread, st the states of the tasks.           *)

Take(w, idle, st) ==
    LET t == Head(m_tasks)
    IN  /\ m_tasks' = Tail(m_tasks)
        /\ worker' = [worker EXCEPT ![w] = "run"]
        /\ running' = [running EXCEPT ![w] = t]
        /\ progress' = [st EXCEPT ![t] = "run"]
        /\ runs' = [runs EXCEPT ![t] = @ + 1]
        /\ m_idleWorkers' = idle
        /\ canTimeOut' = canTimeOut \ {w}
        /\ UNCHANGED m_workerCount

retireWorkerLocked(w, idle, st) ==
    /\ m_workerCount' = m_workerCount - 1
    /\ worker' = [worker EXCEPT ![w] = "none"]
    /\ running' = [running EXCEPT ![w] = NoTask]
    /\ m_idleWorkers' = idle
    /\ canTimeOut' = canTimeOut \ {w}
    /\ progress' = st
    /\ UNCHANGED <<m_tasks, runs>>

WaitForTask(w, idle, st) ==
    /\ worker' = [worker EXCEPT ![w] = "wait"]
    /\ running' = [running EXCEPT ![w] = NoTask]
    /\ m_idleWorkers' = idle + 1
    /\ canTimeOut' = IF m_workerCount > m_minWorkers THEN canTimeOut \union {w}
                                                     ELSE canTimeOut \ {w}
    /\ progress' = st
    /\ UNCHANGED <<m_tasks, m_workerCount, runs>>

\* A worker that looks at m_stopping before it looks at the queue.
Continue_StopFirst(w, idle, st) ==
    IF m_stopping THEN retireWorkerLocked(w, idle, st)
    ELSE IF m_tasks # <<>> THEN Take(w, idle, st)
    ELSE WaitForTask(w, idle, st)
\* The loop from its top.
Continue(w, idle, st) ==
    IF m_tasks # <<>> THEN Take(w, idle, st)
    ELSE IF m_stopping THEN retireWorkerLocked(w, idle, st)
    ELSE WaitForTask(w, idle, st)

\* The task returns and the worker comes back for the next one.
FinishTask(w) ==
    /\ worker[w] = "run"
    /\ Continue(w, m_idleWorkers, [progress EXCEPT ![running[w]] = "done"])
    /\ UNCHANGED <<m_stopping, notified, owed, destroyed>>

Ready == m_stopping \/ m_tasks # <<>>

\* The wait returns because its predicate holds: signalled or by itself.
WakeWorker(w) ==
    /\ worker[w] = "wait" /\ Ready
    /\ Continue(w, m_idleWorkers - 1, progress)
    /\ notified' = notified \ {w}
    /\ UNCHANGED <<m_stopping, owed, destroyed>>

\* A signal that finds nothing to do is used up.
WakeInVain(w) ==
    /\ w \in notified /\ ~Ready
    /\ notified' = notified \ {w}
    /\ UNCHANGED <<pool, worker, running, canTimeOut, progress, runs, owed, destroyed>>

\* m_keepAlive is over and the predicate does not hold.
KeepAliveOver(w) ==
    /\ worker[w] = "wait" /\ w \in canTimeOut /\ ~Ready
    /\ IF m_workerCount > m_minWorkers
         THEN retireWorkerLocked(w, m_idleWorkers - 1, progress)
         ELSE Continue(w, m_idleWorkers - 1, progress)
    /\ notified' = notified \ {w}
    /\ UNCHANGED <<m_stopping, owed, destroyed>>

-----------------------------------------------------------------------------
(* The destructor *)

Stop ==
    /\ ~m_stopping
    /\ \A t \in Jobs : owed[t] = "nothing"
    /\ m_stopping' = TRUE
    /\ notified' = {w \in Workers : worker[w] = "wait"}
    /\ UNCHANGED <<m_tasks, m_workerCount, m_idleWorkers, worker, running, canTimeOut,
                   progress, runs, owed, destroyed>>

Destroyed ==
    /\ m_stopping /\ ~destroyed /\ m_workerCount = 0
    /\ destroyed' = TRUE
    /\ UNCHANGED <<pool, threads, progress, runs, owed>>

Thread(w) == FinishTask(w) \/ WakeWorker(w) \/ WakeInVain(w) \/ KeepAliveOver(w)

ExecutorNext ==
    \/ \E t \in Jobs : submit(t) \/ notify_one(t) \/ Spawn(t) \/ SpawnThrows(t)
    \/ \E w \in Workers : Thread(w)
    \/ Stop \/ Destroyed

ExecutorSpec == ExecutorInit /\ [][ExecutorNext]_executorVars

(* Threads are scheduled and blocking calls return.  A waiting thread needs *)
(* a signal: that the wait may end by itself is not relied upon.  The       *)
(* destructor's wait ends once the last thread has retired.                 *)
ExecutorFairness ==
    /\ \A t \in Jobs : /\ WF_executorVars(notify_one(t))
                       /\ WF_executorVars(Spawn(t) \/ SpawnThrows(t))
    /\ \A w \in Workers : /\ WF_executorVars(FinishTask(w))
                          /\ WF_executorVars(w \in notified /\ (WakeWorker(w) \/ WakeInVain(w)))
    /\ WF_executorVars(Destroyed)
ExecutorFairSpec == ExecutorSpec /\ ExecutorFairness

-----------------------------------------------------------------------------

\* The tasks whose thread could not be created; each keeps a thread counted
\* that does not exist.
Lost == {t \in Jobs : progress[t] = "lost"}

\* An accepted task is run once: none is started twice, and when the
\* destructor returns each one is done and no thread is left to use the
\* executor (workerLoop drains the queue before it retires).
RunOnce ==
    /\ \A t \in Jobs : runs[t] <= 1
    /\ destroyed => /\ \A t \in Jobs : progress[t] \in {"new", "refused", "done"}
                    /\ \A w \in Workers : worker[w] = "none"

\* A queued task does not wait while the pool could grow: with a task in the
\* queue that no idle thread is left for, all m_maxWorkers threads exist
\* ("starts further workers when needed", submit()).
GrowsWhenNeeded ==
    Len(m_tasks) > m_idleWorkers => m_workerCount = m_maxWorkers

\* As long as every thread could be created, every accepted task is run and
\* returns (no signal is lost between submit() and a thread that is just going
\* to wait), and the destructor returns: each waiting thread is woken and
\* retires (~BlockingExecutor).
EveryTaskRuns ==
    /\ \A t \in Jobs : (progress[t] = "queued") ~> (progress[t] = "done" \/ Lost # {})
    /\ m_stopping ~> (destroyed \/ Lost # {})

\* The destructor returns: "stops the executor and waits for all worker
\* threads to exit" (~BlockingExecutor).
ShutdownEnds == m_stopping ~> destroyed
=============================================================================
