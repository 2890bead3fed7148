------------------------------ MODULE MCThreads ------------------------------
(***************************************************************************)
(* What runs and wakes tasks beside the event loop, in one run: the        *)
(* compute scheduler, the pool of blocking threads and the waiter.  A      *)
(* behaviour is about one of them, the subject; the others stay in their   *)
(* initial state.                                                          *)
(***************************************************************************)
EXTENDS ComputeScheduler, BlockingExecutor, AsyncWaiter

VARIABLE subject

threadVars == <<subject, vars, executorVars, waiterVars>>

ThreadsInit ==
    /\ subject \in {"compute", "executor", "waiter"}
    /\ Init /\ ExecutorInit /\ WaiterInit
    /\ subject # "waiter" => ~isVoid /\ ~timed

ThreadsNext ==
    \/ subject = "compute" /\ Next /\ UNCHANGED <<subject, executorVars, waiterVars>>
    \/ subject = "executor" /\ ExecutorNext /\ UNCHANGED <<subject, vars, waiterVars>>
    \/ subject = "waiter" /\ WaiterNext /\ UNCHANGED <<subject, vars, executorVars>>

\* The compute scheduler and the thread pool have nothing to do at first; a
\* waiter's coroutine does.
ThreadsSpec ==
    /\ ThreadsInit /\ [][ThreadsNext]_threadVars
    /\ Fairness /\ ExecutorFairness
    /\ WF_waiterVars(subject = "waiter" /\ Wait)
    /\ WF_waiterVars(Expire) /\ WF_waiterVars(TimerWake)
    /\ \A n \in Notifiers : WF_waiterVars(npc[n] # "notify" /\ Notify(n))
=============================================================================
