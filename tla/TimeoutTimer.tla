----------------------------- MODULE TimeoutTimer -----------------------------
(***************************************************************************)
(* One `co_await inner.timeout(t)` of galay-kernel: the WithTimeout        *)
(* awaiter, its TimeoutTimer (who completes the wait: the operation or the *)
(* timeout) and the DeferredWaker gate (when the coroutine may be woken).  *)
(* Ops is the set of threads that may complete the inner operation (the    *)
(* owner of a channel's pump, a producer, a consumer, a closer).           *)
(*                                                                         *)
(* A compare-exchange loop that rereads the state it failed on is one      *)
(* step.  requestWake() is three, because it copies m_waker between the    *)
(* load and the exchange.  Setting flags of Timer::m_flag that only the    *)
(* timer wheel reads is part of the exchange before it.                    *)
(***************************************************************************)
EXTENDS Naturals

CONSTANTS Ops,         \* threads that complete the inner operation
          Awaiter,     \* the thread that runs the awaiting coroutine
          TimerThread  \* the thread that runs the timer wheel

ASSUME ThreadsAssumption ==
    /\ Awaiter \notin Ops
    /\ TimerThread \notin Ops
    /\ Awaiter # TimerThread

VARIABLES m_completion,  \* TimeoutTimer::m_completion
          m_flag,        \* Timer::m_flag, the set of flags raised
          m_state,       \* DeferredWaker::m_state
          m_waker,       \* DeferredWaker::m_waker holds the coroutine
          scheduler,     \* the waker's scheduler is not null
          published,     \* the inner waiter is visible to the operations
          inWheel,       \* the timer wheel holds the timer
          moved,         \* an operation has moved the value
          pc,            \* where each thread is
          wakes,         \* calls of Waker::wakeUp() not yet consumed
          resumes,       \* wakes plus synchronous continuations so far
          result         \* what await_resume returned

arbiter == <<m_completion, m_flag>>
gate == <<m_state, m_waker>>
registration == <<scheduler, published, inWheel>>
coroutine == <<wakes, resumes, result>>
vars == <<arbiter, gate, registration, moved, pc, coroutine>>

Threads == Ops \cup {Awaiter, TimerThread}

Completion == {"kPending", "kOperationInFlight", "kTimeoutRequested",
               "kOperationWon", "kTimeoutWon"}
InFlight == {"kOperationInFlight", "kTimeoutRequested"}
Terminal == {"kOperationWon", "kTimeoutWon"}
TimerFlag == {"kDone", "kCancel", "kTimeout"}
State == {"kArming", "kArmed", "kPending", "kIssued"}

\* A thread that has completed the wait and owes it one requestWake().
WakeOwing == {"flag", "wake", "copy", "exchange"}
\* An operation that owns the completion right.
Operating == {"inflight", "moved"}
\* The awaiter: before arm(), at arm() and after it.
AwaiterPc == {"suspend", "inner", "addTimer", "timeoutNow", "arm",
              "suspended", "resume", "finish", "returned"}

\* Every variable has a value of its type (TimeoutTimer, DeferredWaker).
TypeOK ==
    /\ m_completion \in Completion
    /\ m_flag \in SUBSET TimerFlag
    /\ m_state \in State
    /\ m_waker \in BOOLEAN
    /\ scheduler \in BOOLEAN
    /\ published \in BOOLEAN
    /\ inWheel \in BOOLEAN
    /\ moved \in BOOLEAN
    /\ pc \in [Threads -> {"idle"} \cup WakeOwing \cup Operating \cup AwaiterPc]
    /\ wakes \in Nat
    /\ resumes \in Nat
    /\ result \in {"none", "operation", "timeout"}

Init ==
    /\ m_completion = "kPending"
    /\ m_flag = {}
    /\ m_state = "kArming"
    /\ m_waker = FALSE
    /\ scheduler \in BOOLEAN
    /\ published = FALSE
    /\ inWheel = FALSE
    /\ moved = FALSE
    /\ pc = [t \in Threads |-> IF t = Awaiter THEN "suspend" ELSE "idle"]
    /\ wakes = 0
    /\ resumes = 0
    /\ result = "none"

Goto(t, label) == pc' = [pc EXCEPT ![t] = label]

\* Where a thread continues once its requestWake() has returned.
AfterWake(t) == IF t = Awaiter THEN "arm" ELSE "idle"

-----------------------------------------------------------------------------
(* TimeoutTimer *)

\* tryCompleteOperation() and cancel(): claim the completion for the
\* operation; when somebody else has completed, only stop the timer.
cancel ==
    /\ m_completion' = IF m_completion = "kPending" THEN "kOperationWon"
                                                    ELSE m_completion
    /\ m_flag' = m_flag \cup {"kCancel"}

\* completeTimeout(), its exchange: win, ask the operation in flight to
\* decide, or find the wait completed.  The winner still has to raise
\* kTimeout before it wakes anybody; the others continue at `lost`.
completeTimeout(t, lost) ==
    /\ m_flag' = m_flag \cup {"kDone"}
    /\ \/ /\ m_completion = "kPending"
          /\ m_completion' = "kTimeoutWon"
          /\ Goto(t, "flag")
       \/ /\ m_completion = "kOperationInFlight"
          /\ m_completion' = "kTimeoutRequested"
          /\ Goto(t, lost)
       \/ /\ m_completion \notin {"kPending", "kOperationInFlight"}
          /\ UNCHANGED m_completion
          /\ Goto(t, lost)

\* The timeout winner raises kTimeout (completeTimeout, abortOperation).
RaiseTimeout(t) ==
    /\ pc[t] = "flag"
    /\ m_flag' = m_flag \cup {"kTimeout"}
    /\ Goto(t, "wake")
    /\ UNCHANGED <<m_completion, gate, registration, moved, coroutine>>

-----------------------------------------------------------------------------
(* DeferredWaker *)

\* Mutant: a completion that comes before arm() is noted and woken as well.
requestWake_WakesArming(t) ==
    /\ pc[t] = "wake"
    /\ m_state' = IF m_state = "kArming" THEN "kPending" ELSE m_state
    /\ wakes' = IF m_state = "kArming" THEN wakes + 1 ELSE wakes
    /\ resumes' = IF m_state = "kArming" THEN resumes + 1 ELSE resumes
    /\ Goto(t, IF m_state = "kArmed" THEN "copy" ELSE AfterWake(t))
    /\ UNCHANGED <<arbiter, m_waker, registration, moved, result>>

\* requestWake(), the load: note the completion for arm(), go on to wake an
\* armed coroutine, or find that the wake was issued before.
requestWake(t) ==
    /\ pc[t] = "wake"
    /\ m_state' = IF m_state = "kArming" THEN "kPending" ELSE m_state
    /\ Goto(t, IF m_state = "kArmed" THEN "copy" ELSE AfterWake(t))
    /\ UNCHANGED <<arbiter, m_waker, registration, moved, coroutine>>

\* requestWake() copies m_waker, unprotected.
CopyWaker(t) ==
    /\ pc[t] = "copy"
    /\ Goto(t, "exchange")
    /\ UNCHANGED <<arbiter, gate, registration, moved, coroutine>>

\* requestWake(), the exchange and wakeUp(); a failed exchange reloads.
IssueWake(t) ==
    /\ pc[t] = "exchange"
    /\ IF m_state = "kArmed"
       THEN /\ m_state' = "kIssued"
            /\ wakes' = wakes + 1
            /\ resumes' = resumes + 1
            /\ Goto(t, AfterWake(t))
       ELSE /\ Goto(t, "wake")
            /\ UNCHANGED <<m_state, wakes, resumes>>
    /\ UNCHANGED <<arbiter, m_waker, registration, moved, result>>

\* arm(): stay suspended, or consume a completion that came first.
arm ==
    /\ pc[Awaiter] = "arm"
    /\ \/ /\ m_state = "kArming"
          /\ m_state' = "kArmed"
          /\ Goto(Awaiter, "suspended")
          /\ UNCHANGED resumes
       \/ /\ m_state # "kArming"
          /\ m_state' = IF m_state = "kPending" THEN "kIssued" ELSE m_state
          /\ resumes' = resumes + 1
          /\ Goto(Awaiter, "resume")
    /\ UNCHANGED <<arbiter, m_waker, registration, moved, wakes, result>>

-----------------------------------------------------------------------------
(* The threads that complete the inner operation *)

BeginFrom(o, from) ==
    /\ pc[o] = "idle"
    /\ published
    /\ m_completion \in from
    /\ m_completion' = "kOperationInFlight"
    /\ Goto(o, "inflight")
    /\ UNCHANGED <<m_flag, gate, registration, moved, coroutine>>

\* Mutant: begin although the timeout has won (kTimeoutWon).
tryBeginOperation_TimedOut(o) == BeginFrom(o, {"kPending", "kTimeoutWon"})

\* tryBeginOperation(): take the completion right before touching the data.
\* On kBusy, kTimeoutWon and kOperationWon the thread leaves the waiter alone.
tryBeginOperation(o) == BeginFrom(o, {"kPending"})

\* The enqueue or dequeue the operation began for succeeds.
MoveValue(o) ==
    /\ pc[o] = "inflight"
    /\ moved' = TRUE
    /\ Goto(o, "moved")
    /\ UNCHANGED <<arbiter, gate, registration, coroutine>>

\* commitOperation(): the operation wins even when the timeout has asked.
commitOperation(o) ==
    /\ pc[o] = "moved"
    /\ IF m_completion \in InFlight
       THEN /\ m_completion' = "kOperationWon"
            /\ m_flag' = m_flag \cup {"kCancel"}
       ELSE UNCHANGED arbiter
    /\ Goto(o, "wake")
    /\ UNCHANGED <<gate, registration, moved, coroutine>>

\* Mutants: the abort forgets the timeout that asked meanwhile; it wakes the
\* coroutine without raising kTimeout.
abortOperation_Forgets(o) ==
    /\ pc[o] = "inflight"
    /\ m_completion' = "kPending"
    /\ Goto(o, "idle")
    /\ UNCHANGED <<m_flag, gate, registration, moved, coroutine>>
abortOperation_NoFlag(o) ==
    /\ pc[o] = "inflight"
    /\ IF m_completion = "kTimeoutRequested"
       THEN m_completion' = "kTimeoutWon" /\ Goto(o, "wake")
       ELSE m_completion' = "kPending" /\ Goto(o, "idle")
    /\ UNCHANGED <<m_flag, gate, registration, moved, coroutine>>

\* abortOperation(): nothing was moved; hand the wait back (kRearmed), let
\* the timeout that asked meanwhile win (kTimeoutWon), or find the wait
\* completed (kCompleted).
abortOperation(o) ==
    /\ pc[o] = "inflight"
    /\ IF m_completion = "kTimeoutRequested"
       THEN m_completion' = "kTimeoutWon" /\ Goto(o, "flag")
       ELSE /\ m_completion' = IF m_completion = "kOperationInFlight"
                               THEN "kPending" ELSE m_completion
            /\ Goto(o, "idle")
    /\ UNCHANGED <<m_flag, gate, registration, moved, coroutine>>

-----------------------------------------------------------------------------
(* The timer wheel calls handleTimeout() once on a timer it holds. *)

handleTimeout ==
    /\ pc[TimerThread] = "idle"
    /\ inWheel
    /\ inWheel' = FALSE
    /\ completeTimeout(TimerThread, "idle")
    /\ UNCHANGED <<gate, scheduler, published, moved, coroutine>>

-----------------------------------------------------------------------------
(* WithTimeout *)

\* await_suspend(): without a scheduler the wait times out at once
\* (markTimeoutWithoutWake), nobody having been told of it.
await_suspend ==
    /\ pc[Awaiter] = "suspend"
    /\ m_waker' = TRUE
    /\ \/ /\ scheduler
          /\ Goto(Awaiter, "inner")
          /\ UNCHANGED <<arbiter, resumes>>
       \/ /\ ~scheduler
          /\ m_completion' = "kTimeoutWon"
          /\ m_flag' = m_flag \cup {"kTimeout", "kDone"}
          /\ resumes' = resumes + 1
          /\ Goto(Awaiter, "resume")
    /\ UNCHANGED <<m_state, registration, moved, wakes, result>>

\* inner.await_suspend(): it publishes its waiter and suspends, or completes
\* on the spot, and then WithTimeout cancels the timer.
InnerSuspend ==
    /\ pc[Awaiter] = "inner"
    /\ \/ /\ published' = TRUE
          /\ Goto(Awaiter, "addTimer")
          /\ UNCHANGED <<arbiter, moved, resumes>>
       \/ /\ moved' = TRUE
          /\ cancel
          /\ resumes' = resumes + 1
          /\ Goto(Awaiter, "resume")
          /\ UNCHANGED published
    /\ UNCHANGED <<gate, scheduler, inWheel, wakes, result>>

\* scheduler->addTimer(timer): on failure timeoutNow() follows.
AddTimer ==
    /\ pc[Awaiter] = "addTimer"
    /\ \/ inWheel' = TRUE /\ Goto(Awaiter, "arm")
       \/ inWheel' = FALSE /\ Goto(Awaiter, "timeoutNow")
    /\ UNCHANGED <<arbiter, gate, scheduler, published, moved, coroutine>>

timeoutNow ==
    /\ pc[Awaiter] = "timeoutNow"
    /\ completeTimeout(Awaiter, "arm")
    /\ UNCHANGED <<gate, registration, moved, coroutine>>

\* The scheduler runs the woken coroutine.
RunWoken ==
    /\ pc[Awaiter] = "suspended"
    /\ wakes > 0
    /\ wakes' = wakes - 1
    /\ Goto(Awaiter, "resume")
    /\ UNCHANGED <<arbiter, gate, registration, moved, resumes, result>>

\* await_resume(): read timeouted(), drop the waker ...
await_resume ==
    /\ pc[Awaiter] = "resume"
    /\ m_waker' = FALSE
    /\ result' = IF "kTimeout" \in m_flag THEN "timeout" ELSE "operation"
    /\ Goto(Awaiter, "finish")
    /\ UNCHANGED <<arbiter, m_state, registration, moved, wakes, resumes>>

\* ... and cancel the timer unless it fired, and also then if the inner wait no
\* longer owns its IO registration or the registration cannot be removed.
FinishResume ==
    /\ pc[Awaiter] = "finish"
    /\ cancel \/ (result # "operation" /\ UNCHANGED arbiter)
    /\ Goto(Awaiter, "returned")
    /\ UNCHANGED <<gate, registration, moved, coroutine>>

-----------------------------------------------------------------------------
OpStep(o) ==
    \/ tryBeginOperation(o)
    \/ MoveValue(o)
    \/ commitOperation(o)
    \/ abortOperation(o)

WakeStep(t) ==
    RaiseTimeout(t) \/ requestWake(t) \/ CopyWaker(t) \/ IssueWake(t)

AwaiterStep ==
    \/ await_suspend
    \/ InnerSuspend
    \/ AddTimer
    \/ timeoutNow
    \/ arm
    \/ RunWoken
    \/ await_resume
    \/ FinishResume

Next ==
    \/ \E o \in Ops : OpStep(o)
    \/ \E t \in Threads : WakeStep(t)
    \/ handleTimeout
    \/ AwaiterStep

Spec == Init /\ [][Next]_vars

(***************************************************************************)
(* Fairness.  The event loop keeps running the coroutine's thread and the  *)
(* timer wheel, and a thread that has entered commit, abort or requestWake *)
(* is not stopped for ever.  An operation need not ever begin.             *)
(***************************************************************************)
Fairness ==
    /\ WF_vars(AwaiterStep)
    /\ WF_vars(handleTimeout)
    /\ \A t \in Threads : WF_vars(WakeStep(t))
    /\ \A o \in Ops : WF_vars(commitOperation(o) \/ abortOperation(o))

FairSpec == Spec /\ Fairness

-----------------------------------------------------------------------------
(* Properties *)

\* The coroutine is continued at most once for one co_await: either arm()
\* returns false or exactly one wakeUp() is issued (DeferredWaker).
ResumedOnce == resumes <= 1

\* No wakeUp() is issued while await_suspend still uses the awaiter and the
\* channel: a wake exists only once the coroutine is suspended behind arm().
NoWakeWhileArming == wakes > 0 => pc[Awaiter] = "suspended"

\* requestWake() reads m_waker without protection.  No thread is between its
\* load and its copy once await_resume has begun to clear m_waker.
WakerReadIsSafe ==
    \A t \in Threads :
        pc[t] = "copy" => m_waker /\ pc[Awaiter] \notin {"resume", "finish"}

\* What DeferredWaker promises, all three: one continuation, none before the
\* coroutine is suspended, and none that reads a cleared waker.
WakeIsSafe == ResumedOnce /\ NoWakeWhileArming /\ WakerReadIsSafe

\* A coroutine that is told of a timeout has lost no value: no operation has
\* moved or will move its value (commitOperation: the operation that took the
\* completion right wins, so that a moved value is never rolled back).
TimeoutMovesNothing ==
    result = "timeout" =>
        /\ ~moved
        /\ \A o \in Ops : pc[o] \notin Operating

\* The value is moved only under the completion right, by one operation at a
\* time (tryBeginOperation, commitOperation, abortOperation).
CompletionOwned ==
    /\ \A o, p \in Ops :
          pc[o] \in Operating /\ pc[p] \in Operating => o = p
    /\ (\E o \in Ops : pc[o] \in Operating) <=> m_completion \in InFlight

\* A decision, once taken, is never reversed: not by cancel() after a
\* timeout, nor by a late handleTimeout(), nor by an abort.
DecisionFinal ==
    [][(m_completion \in Terminal) => (m_completion' = m_completion)]_vars

\* The wait as TimedAwait sees it.
Outcome == IF moved THEN "operation"
           ELSE IF m_completion = "kTimeoutWon" THEN "timeout"
           ELSE "undecided"

TA == INSTANCE TimedAwait WITH outcome <- Outcome, report <- result

\* WithTimeout, TimeoutTimer and DeferredWaker together implement the one-shot
\* decision of TimedAwait.
ImplementsTimedAwait == TA!Spec

\* A suspended coroutine returns from the await: a timeout that finds an
\* operation in flight is not forgotten when that operation aborts.
AwaitReturns == pc[Awaiter] = "suspended" ~> pc[Awaiter] = "returned"

=============================================================================
