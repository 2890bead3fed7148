------------------------------ MODULE AsyncMutex ------------------------------
(***************************************************************************)
(* galay::kernel::AsyncMutex.  lock() tries the flag and otherwise queues  *)
(* a waiter; unlock() clears the flag and hands the mutex to a queued      *)
(* waiter by locking it on the waiter's behalf and waking its task.        *)
(*                                                                         *)
(* lock().timeout(t) wraps the awaitable in WithTimeout.  The awaitable    *)
(* takes no part in the timer's completion protocol (TimeoutTimer): the    *)
(* hand-over wakes the task directly, the timer wakes it through its own   *)
(* gate.  A wake carries no identity: it makes the task run at its next    *)
(* suspension, once for any number of wakes (requestTaskResumeState).  A   *)
(* timer that cannot be added fires at once, as one that is due does.      *)
(*                                                                         *)
(* The waiter queue (moodycamel::ConcurrentQueue, external) is FIFO here,  *)
(* its best case.  A waiter is named by its task and the number of the     *)
(* lock() call.                                                            *)
(***************************************************************************)
EXTENDS Naturals, Sequences, FiniteSets

CONSTANTS Tasks,      \* the tasks that use the mutex
          Calls,      \* lock() calls of one task (bound)
          AllCalls,   \* lock() calls of all tasks (bound)
          Timings,    \* which tasks may call lock().timeout(t): subsets of Tasks
          Threadings  \* whether tasks and timers share one thread: of BOOLEAN

ASSUME MutexAssumption ==
    /\ Calls \in Nat /\ AllCalls \in Nat
    /\ Timings \subseteq SUBSET Tasks /\ Threadings \subseteq BOOLEAN

VARIABLES TimedTasks, \* the tasks that call lock().timeout(t)
          OneThread,  \* tasks and timers share one scheduler thread (IOScheduler)
          m_locked, m_waiters,
          active,     \* AsyncMutexWaiter::active
          pc, ret,    \* where a task is; where wakeNextWaiterIfUnlocked returns
          call,       \* the number of its current lock() call
          held,       \* the waiter it has dequeued
          queued,     \* TaskState::m_queued, a wake is pending
          timer,      \* how far the call's timer is
          timedOut,   \* TimeoutTimer::timeouted() of the call
          result,     \* what each lock() returned
          arrivals,   \* history: the waiters, in the order they were queued
          grants      \* history: the calls the mutex was locked for, in order

mutex == <<m_locked, m_waiters, active, arrivals, grants>>
timers == <<timer, timedOut>>
setting == <<TimedTasks, OneThread>>
vars == <<setting, mutex, timers, pc, ret, call, held, queued, result>>

Waiters == Tasks \X (1..Calls)
W(t) == <<t, call[t]>>
None == <<>>

\* Every variable has a value of its type; a coroutine waits with the waiter of
\* its current call of lock() at most.
TypeOK ==
    /\ TimedTasks \subseteq Tasks /\ OneThread \in BOOLEAN
    /\ m_locked \in BOOLEAN
    /\ m_waiters \in Seq(Waiters)
    /\ active \in [Waiters -> BOOLEAN]
    /\ pc \in [Tasks -> {"idle", "ready", "enqueue", "check", "dequeue", "tryLock",
                         "reactivate", "requeue", "arm", "suspended", "resume", "critical"}]
    /\ ret \in [Tasks -> {"idle", "arm", "suspended"}]
    /\ call \in [Tasks -> 0..Calls]
    /\ held \in [Tasks -> Waiters \cup {None}]
    /\ queued \in [Tasks -> BOOLEAN]
    /\ timer \in [Waiters -> {"off", "set", "won", "flagged", "copied", "pending"}]
    /\ timedOut \in [Waiters -> BOOLEAN]
    /\ arrivals \in Seq(Waiters) /\ grants \in Seq(Waiters)
    /\ result \in [Waiters -> {"none", "locked", "timeout"}]

Init ==
    /\ TimedTasks \in Timings /\ OneThread \in Threadings
    /\ m_locked = FALSE /\ m_waiters = <<>>
    /\ active = [w \in Waiters |-> FALSE]
    /\ pc = [t \in Tasks |-> "idle"]
    /\ ret = [t \in Tasks |-> "idle"]
    /\ call = [t \in Tasks |-> 0]
    /\ held = [t \in Tasks |-> None]
    /\ queued = [t \in Tasks |-> FALSE]
    /\ timer = [w \in Waiters |-> "off"]
    /\ timedOut = [w \in Waiters |-> FALSE]
    /\ arrivals = <<>> /\ grants = <<>>
    /\ result = [w \in Waiters |-> "none"]

Goto(t, label) == pc' = [pc EXCEPT ![t] = label]

\* tryLock() succeeds, for the call w.
Lock(w) ==
    /\ ~m_locked
    /\ m_locked' = TRUE
    /\ grants' = Append(grants, w)

lock(t) ==
    /\ pc[t] = "idle" /\ call[t] < Calls
    /\ Cardinality({w \in Waiters : w[2] <= call[w[1]]}) < AllCalls
    /\ call' = [call EXCEPT ![t] = @ + 1]
    /\ Goto(t, "ready")
    /\ UNCHANGED <<mutex, timers, ret, held, queued, result>>

await_ready(t) ==
    /\ pc[t] = "ready"
    /\ \/ /\ Lock(W(t))
          /\ result' = [result EXCEPT ![W(t)] = "locked"]
          /\ Goto(t, "critical")
       \/ /\ m_locked
          /\ Goto(t, "enqueue")
          /\ UNCHANGED <<m_locked, grants, result>>
    /\ UNCHANGED <<m_waiters, active, arrivals, timers, ret, call, held, queued>>

\* await_suspend() queues the waiter; wakeNextWaiterIfUnlocked() follows.
await_suspend(t) ==
    /\ pc[t] = "enqueue"
    /\ active' = [active EXCEPT ![W(t)] = TRUE]
    /\ m_waiters' = Append(m_waiters, W(t))
    /\ arrivals' = Append(arrivals, W(t))
    /\ Goto(t, "check")
    /\ ret' = [ret EXCEPT ![t] = IF t \in TimedTasks THEN "arm" ELSE "suspended"]
    /\ UNCHANGED <<m_locked, grants, timers, call, held, queued, result>>

\* unlock(); wakeNextWaiterIfUnlocked() follows.
unlock(t) ==
    /\ pc[t] = "critical"
    /\ m_locked' = FALSE
    /\ Goto(t, "check")
    /\ ret' = [ret EXCEPT ![t] = "idle"]
    /\ UNCHANGED <<m_waiters, active, arrivals, grants, timers, call, held, queued, result>>

-----------------------------------------------------------------------------
(* wakeNextWaiterIfUnlocked(), run by task t *)

\* It returns to unlock() or to await_suspend(); there WithTimeout, if any,
\* registers its timer.
Return(t) ==
    /\ Goto(t, ret[t])
    /\ timer' = IF ret[t] = "arm" THEN [timer EXCEPT ![W(t)] = "set"] ELSE timer

CheckUnlocked(t) ==
    /\ pc[t] = "check"
    /\ \/ m_locked /\ Return(t)
       \/ ~m_locked /\ Goto(t, "dequeue") /\ UNCHANGED timer
    /\ UNCHANGED <<mutex, ret, call, held, queued, timedOut, result>>

\* Mutant: the newest waiter is taken first.
DequeueWaiter_Newest(t) ==
    /\ pc[t] = "dequeue"
    /\ \/ /\ m_waiters = <<>>
          /\ Return(t)
          /\ UNCHANGED <<mutex, held>>
       \/ /\ m_waiters # <<>>
          /\ LET w == m_waiters[Len(m_waiters)] IN
             /\ m_waiters' = SubSeq(m_waiters, 1, Len(m_waiters) - 1)
             /\ active' = [active EXCEPT ![w] = FALSE]
             /\ held' = [held EXCEPT ![t] = w]
             /\ Goto(t, "tryLock")
          /\ UNCHANGED <<m_locked, arrivals, grants, timer>>
    /\ UNCHANGED <<ret, call, queued, timedOut, result>>

\* Take the next waiter that is active and deactivate it.
DequeueWaiter(t) ==
    /\ pc[t] = "dequeue"
    /\ \/ /\ m_waiters = <<>>
          /\ Return(t)
          /\ UNCHANGED <<mutex, held>>
       \/ /\ m_waiters # <<>>
          /\ m_waiters' = Tail(m_waiters)
          /\ LET w == Head(m_waiters) IN
             IF active[w]
             THEN /\ active' = [active EXCEPT ![w] = FALSE]
                  /\ held' = [held EXCEPT ![t] = w]
                  /\ Goto(t, "tryLock")
             ELSE UNCHANGED <<active, held, pc>>
          /\ UNCHANGED <<m_locked, arrivals, grants, timer>>
    /\ UNCHANGED <<ret, call, queued, timedOut, result>>

\* Mutant: a waiter that could not be served is dropped.
HandOver_Drops(t) ==
    /\ pc[t] = "tryLock"
    /\ held' = [held EXCEPT ![t] = None]
    /\ Return(t)
    /\ \/ Lock(held[t]) /\ queued' = [queued EXCEPT ![held[t][1]] = TRUE]
       \/ m_locked /\ UNCHANGED <<m_locked, grants, queued>>
    /\ UNCHANGED <<m_waiters, active, arrivals, ret, call, timedOut, result>>

\* Lock for the waiter and wake its task, unless somebody else was faster.
HandOver(t) ==
    /\ pc[t] = "tryLock"
    /\ \/ /\ Lock(held[t])
          /\ queued' = [queued EXCEPT ![held[t][1]] = TRUE]
          /\ held' = [held EXCEPT ![t] = None]
          /\ Return(t)
       \/ /\ m_locked
          /\ Goto(t, "reactivate")
          /\ UNCHANGED <<m_locked, grants, queued, held, timer>>
    /\ UNCHANGED <<m_waiters, active, arrivals, ret, call, timedOut, result>>

\* The waiter goes back, in two steps: active again, then queued again.
Reactivate(t) ==
    /\ pc[t] = "reactivate"
    /\ active' = [active EXCEPT ![held[t]] = TRUE]
    /\ Goto(t, "requeue")
    /\ UNCHANGED <<m_locked, m_waiters, arrivals, grants, timers, ret, call, held, queued, result>>

Requeue(t) ==
    /\ pc[t] = "requeue"
    /\ m_waiters' = Append(m_waiters, held[t])
    /\ held' = [held EXCEPT ![t] = None]
    /\ Return(t)
    /\ UNCHANGED <<m_locked, active, arrivals, grants, ret, call, queued, timedOut, result>>

-----------------------------------------------------------------------------
(* The timer of the call w, and resumption *)

TimerGoto(w, label) == timer' = [timer EXCEPT ![w] = label]

\* completeTimeout() takes the completion and raises the flag.
TimerWins(w) ==
    /\ timer[w] = "set"
    /\ TimerGoto(w, "won")
    /\ UNCHANGED <<mutex, timedOut, pc, ret, call, held, queued, result>>

RaiseTimeout(w) ==
    /\ timer[w] = "won"
    /\ TimerGoto(w, "flagged")
    /\ timedOut' = [timedOut EXCEPT ![w] = TRUE]
    /\ UNCHANGED <<mutex, pc, ret, call, held, queued, result>>

\* Mutant: a timeout before the gate is armed is forgotten.
requestWake_Early(w) ==
    /\ timer[w] = "flagged"
    /\ TimerGoto(w, IF result[w] = "none" /\ pc[w[1]] # "arm" THEN "copied" ELSE "off")
    /\ UNCHANGED <<mutex, timedOut, pc, ret, call, held, queued, result>>

\* requestWake(): the wake is left to arm() before the gate is armed; after
\* await_resume() there is no waker to copy.
requestWake(w) ==
    /\ timer[w] = "flagged"
    /\ TimerGoto(w, IF result[w] # "none" THEN "off"
                    ELSE IF pc[w[1]] = "arm" THEN "pending" ELSE "copied")
    /\ UNCHANGED <<mutex, timedOut, pc, ret, call, held, queued, result>>

IssueWake(w) ==
    /\ timer[w] = "copied"
    /\ TimerGoto(w, "off")
    /\ queued' = [queued EXCEPT ![w[1]] = TRUE]
    /\ UNCHANGED <<mutex, timedOut, pc, ret, call, held, result>>

\* WithTimeout::await_suspend() arms the gate and suspends, or continues.
arm(t) ==
    /\ pc[t] = "arm"
    /\ Goto(t, IF timer[W(t)] = "pending" THEN "resume" ELSE "suspended")
    /\ timer' = [timer EXCEPT ![W(t)] = IF @ = "pending" THEN "off" ELSE @]
    /\ UNCHANGED <<mutex, timedOut, ret, call, held, queued, result>>

\* The scheduler runs the suspended task, for whichever wake.
RunWoken(t) ==
    /\ pc[t] = "suspended" /\ queued[t]
    /\ queued' = [queued EXCEPT ![t] = FALSE]
    /\ Goto(t, "resume")
    /\ UNCHANGED <<mutex, timers, ret, call, held, result>>

\* WithTimeout::await_resume(): markTimeout() or cancel(), then the
\* awaitable's await_resume(), which deactivates the waiter.
await_resume(t) ==
    /\ pc[t] = "resume"
    /\ active' = [active EXCEPT ![W(t)] = FALSE]
    /\ timer' = [timer EXCEPT ![W(t)] = IF @ = "set" THEN "off" ELSE @]
    /\ result' = [result EXCEPT ![W(t)] = IF timedOut[W(t)] THEN "timeout" ELSE "locked"]
    /\ Goto(t, IF timedOut[W(t)] THEN "idle" ELSE "critical")
    /\ UNCHANGED <<m_locked, m_waiters, arrivals, grants, timedOut, ret, call, held, queued>>

-----------------------------------------------------------------------------
WakeNext(t) ==
    \/ CheckUnlocked(t) \/ DequeueWaiter(t) \/ HandOver(t) \/ Reactivate(t) \/ Requeue(t)

TaskStep(t) ==
    \/ await_ready(t) \/ await_suspend(t) \/ WakeNext(t) \/ arm(t)
    \/ RunWoken(t) \/ await_resume(t) \/ unlock(t)

TimerStep(w) == TimerWins(w) \/ RaiseTimeout(w) \/ requestWake(w) \/ IssueWake(w)

\* Where a task does not occupy its thread (it may suspend inside its
\* critical section) and where the timer of a call does not.
OffThread(t) == pc[t] \in {"idle", "suspended", "critical"}
TimerOff(w) == timer[w] \in {"off", "set", "pending"}

MayRun(t) == OneThread =>
    (\A u \in Tasks \ {t} : OffThread(u)) /\ \A w \in Waiters : TimerOff(w)
MayFire(w) == OneThread =>
    (\A t \in Tasks : OffThread(t)) /\ \A v \in Waiters \ {w} : TimerOff(v)

\* One step of a task inside lock() or unlock(), of a timer inside its firing.
RunTask(t) == MayRun(t) /\ TaskStep(t) /\ UNCHANGED setting
FireTimer(w) == MayFire(w) /\ TimerStep(w) /\ UNCHANGED setting

Next ==
    \/ \E t \in Tasks : MayRun(t) /\ lock(t) /\ UNCHANGED setting
    \/ \E t \in Tasks : RunTask(t)
    \/ \E w \in Waiters : FireTimer(w)

Spec == Init /\ [][Next]_vars

\* The scheduler runs every task that can run, a critical section ends, and
\* the timer thread finishes what it began; no task need call lock().
FairSpec ==
    /\ Spec
    /\ \A t \in Tasks : SF_vars(RunTask(t))
    /\ \A t \in Tasks : SF_vars(\E i \in 1..Calls : FireTimer(<<t, i>>))

-----------------------------------------------------------------------------
(* Properties *)

\* The call the mutex was last locked for.
Owner == grants[Len(grants)]

\* A task is in its critical section only while the flag is set, and it is
\* the task tryLock() last succeeded for, although a wake does not say which
\* call it belongs to; so no two tasks are in their critical sections.
MutualExclusion ==
    \A t \in Tasks : pc[t] = "critical" => m_locked /\ Owner[1] = t

\* A task that sleeps in lock() and has not been woken is queued and active,
\* or some thread holds its waiter and will serve it or put it back.
WaiterKept ==
    \A t \in Tasks \ TimedTasks : pc[t] = "suspended" /\ ~queued[t] =>
        \/ \E u \in Tasks : held[u] = W(t)
        \/ active[W(t)] /\ \E i \in 1..Len(m_waiters) : m_waiters[i] = W(t)

\* unlock() hands the mutex to one task and forgets none that waits for it.
HandOverSound == MutualExclusion /\ WaiterKept

\* unlock() "wakes the next waiting task of the queue" (class comment): when
\* nobody runs, no wake is pending and the mutex is free, no task sleeps in
\* lock().
NoLostWakeup ==
    ((\A t \in Tasks : pc[t] \in {"idle", "suspended"} /\ ~queued[t]) /\ ~m_locked) =>
        \A t \in Tasks \ TimedTasks : pc[t] # "suspended"

\* A waiter that timed out "is skipped and does not take the lock again"
\* (unlock): the mutex is not held for a call that returned a timeout.
TimeoutHoldsNothing ==
    m_locked => result[Owner] # "timeout"

\* "After a timeout the waiter is invalidated" (lock): a call that returned
\* a timeout leaves no active waiter behind.
TimeoutDeactivates ==
    \A w \in Waiters : result[w] = "timeout" => ~active[w]

\* "Waiting coroutines are woken in FIFO order" (file comment): a waiter is
\* handed the mutex only after those that were queued before it.
FifoHandOver ==
    LET granted == {grants[i] : i \in 1..Len(grants)} IN
    \A i, j \in 1..Len(arrivals) :
        i < j /\ arrivals[j] \in granted =>
            arrivals[i] \in granted \/ result[arrivals[i]] = "timeout"

\* It does hold where the tasks and timers share one thread: there nobody can
\* take the flag between the dequeue of a waiter and tryLock().
OneThreadFifo == OneThread => FifoHandOver

\* Every lock() that had to wait returns: with a timeout because the timer
\* fires, and where all tasks share a thread and none has a timeout because
\* each unlock() hands the mutex over.
LockReturns ==
    \A t \in Tasks :
        (/\ pc[t] = "suspended"
         /\ t \in TimedTasks \/ (OneThread /\ TimedTasks = {})) ~> (pc[t] \in {"idle", "critical"})
=============================================================================
