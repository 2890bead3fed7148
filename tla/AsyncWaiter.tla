----------------------------- MODULE AsyncWaiter -----------------------------
(***************************************************************************)
(* AsyncWaiter: one coroutine waits, any thread notifies, once.  Both      *)
(* forms are modelled: AsyncWaiter<T>, which carries a value, and          *)
(* AsyncWaiter<void> (isVoid).  A wait may have a timeout (timed); this    *)
(* awaitable does not take part in the TimeoutTimer's decision, so what    *)
(* WithTimeout does around it is modelled here as well, with a timer that  *)
(* may run in a thread of its own.                                         *)
(*                                                                         *)
(* A step is one access to an atomic; m_waker and m_result are plain       *)
(* members, and a step that reads or writes one stands alone.              *)
(***************************************************************************)
EXTENDS Naturals, FiniteSets

CONSTANTS Notifiers,   \* threads that call notify(); also their values
          Voids,       \* which forms: a subset of BOOLEAN
          Timeds,      \* which waits: a subset of BOOLEAN
          NoValue

ASSUME WaiterAssumption ==
    Voids \subseteq BOOLEAN /\ Timeds \subseteq BOOLEAN /\ NoValue \notin Notifiers

VARIABLES isVoid, timed,
          m_state, m_notified, m_ready,
          m_result,    \* AsyncWaiter<T>::m_result: whose value, or NoValue
          m_waker,     \* AsyncWaiter::m_waker holds the coroutine
          completion,  \* the TimeoutTimer: kPending, kOperationWon, kTimeoutWon
          inWheel,     \* the timer is in a wheel
          gateWaker,   \* the timer's waker holds the coroutine
          coroutine, npc, tpc, \* the coroutine, the notifiers, the timer
          woken,       \* the coroutine has been woken and not run since
          result,      \* what the wait returned: a notifier, "timeout" or NoValue
          told         \* notifiers whose notify() returned true

waiter == <<m_state, m_notified, m_ready, m_result, m_waker>>
timer == <<completion, inWheel, gateWaker, tpc>>
form == <<isVoid, timed>>
waiterVars == <<form, waiter, timer, coroutine, npc, woken, result, told>>

WaiterInit ==
    /\ isVoid \in Voids /\ timed \in Timeds
    /\ m_state = "kEmpty" /\ m_notified = FALSE /\ m_ready = FALSE
    /\ m_result = NoValue /\ m_waker = FALSE
    /\ completion = "kPending" /\ inWheel = FALSE /\ gateWaker = FALSE
    /\ coroutine = "ready" /\ npc = [n \in Notifiers |-> "notify"] /\ tpc = "idle"
    /\ woken = FALSE /\ result = NoValue /\ told = {}

-----------------------------------------------------------------------------
(* notify() *)

Claim_AlwaysTrue(n) ==
    /\ npc[n] = "notify"
    /\ m_notified' = TRUE
    /\ npc' = [npc EXCEPT ![n] = IF m_notified THEN "return"
                                 ELSE IF isVoid THEN "publish" ELSE "store"]
    /\ UNCHANGED <<form, m_state, m_ready, m_result, m_waker, timer, coroutine, woken,
                   result, told>>
Claim(n) ==
    /\ npc[n] = "notify"
    /\ m_notified' = TRUE
    /\ npc' = [npc EXCEPT ![n] = IF m_notified THEN "done"
                                 ELSE IF isVoid THEN "publish" ELSE "store"]
    /\ UNCHANGED <<form, m_state, m_ready, m_result, m_waker, timer, coroutine, woken,
                   result, told>>

StoreResult(n) ==
    /\ npc[n] = "store"
    /\ m_result' = n
    /\ npc' = [npc EXCEPT ![n] = "publish"]
    /\ UNCHANGED <<form, m_state, m_notified, m_ready, m_waker, timer, coroutine, woken,
                   result, told>>

PublishReady(n) ==
    /\ npc[n] = "publish"
    /\ m_ready' = TRUE
    /\ npc' = [npc EXCEPT ![n] = "exchange"]
    /\ UNCHANGED <<form, m_state, m_notified, m_result, m_waker, timer, coroutine, woken,
                   result, told>>

ExchangeState(n) ==
    /\ npc[n] = "exchange"
    /\ m_state' = "kReady"
    /\ npc' = [npc EXCEPT ![n] = IF m_state = "kWaiting" THEN "wake" ELSE "return"]
    /\ UNCHANGED <<form, m_notified, m_ready, m_result, m_waker, timer, coroutine, woken,
                   result, told>>

\* m_waker.wakeUp(); without a coroutine it does nothing.
WakeUp(n) ==
    /\ npc[n] = "wake"
    /\ woken' = (woken \/ m_waker)
    /\ npc' = [npc EXCEPT ![n] = "return"]
    /\ UNCHANGED <<form, waiter, timer, coroutine, result, told>>

Return(n) ==
    /\ npc[n] = "return"
    /\ told' = told \union {n}
    /\ npc' = [npc EXCEPT ![n] = "done"]
    /\ UNCHANGED <<form, waiter, timer, coroutine, woken, result>>

Notify(n) == \/ Claim(n) \/ StoreResult(n) \/ PublishReady(n) \/ ExchangeState(n)
             \/ WakeUp(n) \/ Return(n)

-----------------------------------------------------------------------------
(* The wait *)

await_ready ==
    /\ coroutine = "ready"
    /\ coroutine' = IF m_ready THEN "resume" ELSE "suspend"
    /\ gateWaker' = (timed /\ ~m_ready)
    /\ UNCHANGED <<form, waiter, completion, inWheel, tpc, npc, woken, result, told>>

SetWaker ==
    /\ coroutine = "suspend"
    /\ m_waker' = TRUE
    /\ coroutine' = "check"
    /\ UNCHANGED <<form, m_state, m_notified, m_ready, m_result, timer, npc, woken,
                   result, told>>

\* await_suspend() returns false: WithTimeout cancels the timer.
CheckReady ==
    /\ coroutine = "check"
    /\ coroutine' = IF m_ready THEN "resume" ELSE "register"
    /\ completion' = IF m_ready /\ timed THEN "kOperationWon" ELSE completion
    /\ UNCHANGED <<form, waiter, inWheel, gateWaker, tpc, npc, woken, result, told>>

RegisterWait ==
    /\ coroutine = "register"
    /\ IF m_state = "kEmpty"
         THEN /\ m_state' = "kWaiting"
              /\ coroutine' = IF timed THEN "addTimer" ELSE "suspended"
              /\ UNCHANGED completion
         ELSE /\ coroutine' = "resume"
              /\ completion' = IF timed THEN "kOperationWon" ELSE completion
              /\ UNCHANGED m_state
    /\ UNCHANGED <<form, m_notified, m_ready, m_result, m_waker, inWheel, gateWaker,
                   tpc, npc, woken, result, told>>

\* The result of addTimer() ignored.
AddTimer_Ignored(added) ==
    /\ coroutine = "addTimer"
    /\ inWheel' = added
    /\ completion' = completion
    /\ coroutine' = "suspended"
    /\ UNCHANGED <<form, waiter, gateWaker, tpc, npc, woken, result, told>>

\* Scheduler::addTimer(); if it refuses the timer, the timeout is taken at
\* once and armWaker() lets the coroutine go on by itself.
AddTimer(added) ==
    /\ coroutine = "addTimer"
    /\ inWheel' = added
    /\ completion' = IF added THEN completion ELSE "kTimeoutWon"
    /\ coroutine' = IF added THEN "suspended" ELSE "resume"
    /\ UNCHANGED <<form, waiter, gateWaker, tpc, npc, woken, result, told>>

\* The coroutine runs again; WithTimeout::await_resume() looks at the timer.
Resumed ==
    /\ coroutine = "suspended" /\ woken
    /\ woken' = FALSE
    /\ coroutine' = "resume"
    /\ UNCHANGED <<form, waiter, timer, npc, result, told>>

TimedOut == timed /\ completion = "kTimeoutWon"

\* The plain wait and the wait that was in time go on to await_resume();
\* clearWaker() comes before the timer is cancelled.
ReadTimer ==
    /\ coroutine = "resume"
    /\ gateWaker' = FALSE
    /\ coroutine' = IF TimedOut /\ isVoid THEN "markTimeout"
             ELSE IF timed /\ ~TimedOut THEN "cancelTimer"
             ELSE "result"
    /\ UNCHANGED <<form, waiter, completion, inWheel, tpc, npc, woken, result, told>>

CancelTimer ==
    /\ coroutine = "cancelTimer"
    /\ completion' = IF completion = "kPending" THEN "kOperationWon" ELSE completion
    /\ coroutine' = "result"
    /\ UNCHANGED <<form, waiter, inWheel, gateWaker, tpc, npc, woken, result, told>>

markTimeout ==
    /\ coroutine = "markTimeout"
    /\ result' = "timeout"
    /\ m_state' = IF m_state = "kWaiting" THEN "kEmpty" ELSE m_state
    /\ m_waker' = IF m_state = "kWaiting" THEN FALSE ELSE m_waker
    /\ coroutine' = "result"
    /\ UNCHANGED <<form, m_notified, m_ready, m_result, timer, npc, woken, told>>

\* await_resume(): the void form clears m_waker and reports success unless
\* it was marked; the other reports the value, if there is one.
await_resume ==
    /\ coroutine = "result"
    /\ IF isVoid
         THEN /\ m_waker' = FALSE
              /\ result' = IF result = NoValue THEN "success" ELSE result
         ELSE /\ result' = IF m_result = NoValue THEN "timeout" ELSE m_result
              /\ UNCHANGED m_waker
    /\ coroutine' = "returned"
    /\ UNCHANGED <<form, m_state, m_notified, m_ready, m_result, timer, npc, woken,
                   told>>

Wait == \/ await_ready \/ SetWaker \/ CheckReady \/ RegisterWait
        \/ AddTimer(TRUE) \/ AddTimer(FALSE) \/ Resumed \/ ReadTimer
        \/ CancelTimer \/ markTimeout \/ await_resume

-----------------------------------------------------------------------------
(* The timer: handleTimeout() decides, then wakes through its own waker. *)

Expire ==
    /\ inWheel
    /\ inWheel' = FALSE
    /\ completion' = IF completion = "kPending" THEN "kTimeoutWon" ELSE completion
    /\ tpc' = IF completion = "kPending" THEN "wake" ELSE "idle"
    /\ UNCHANGED <<form, waiter, gateWaker, coroutine, npc, woken, result, told>>

TimerWake ==
    /\ tpc = "wake"
    /\ tpc' = "idle"
    /\ woken' = (woken \/ gateWaker)
    /\ UNCHANGED <<form, waiter, completion, inWheel, gateWaker, coroutine, npc, result, told>>

WaiterNext == Wait \/ (\E n \in Notifiers : Notify(n)) \/ Expire \/ TimerWake

WaiterSpec == WaiterInit /\ [][WaiterNext]_waiterVars

(* A thread that has entered notify() and a coroutine that runs go on;      *)
(* timers expire.  Nobody has to call notify().                             *)
WaiterFairSpec ==
    /\ WaiterSpec
    /\ WF_waiterVars(Wait) /\ WF_waiterVars(Expire) /\ WF_waiterVars(TimerWake)
    /\ \A n \in Notifiers : WF_waiterVars(npc[n] # "notify" /\ Notify(n))

-----------------------------------------------------------------------------

\* "isWaiting(): true if a coroutine is registered with this waiter and
\* suspended": not once the wait has returned.
WaitingMeansSuspended == coroutine = "returned" => m_state # "kWaiting"

\* At most one notify() returns true, and it is the one whose value the wait
\* returns: no other notifier's value replaces it ("true: notified, false:
\* already notified", notify).  A wait without timeout returns only after it
\* was notified (await_resume).  The void form, which has markTimeout(), leaves
\* no registration behind: a later notify() finds no coroutine to wake that
\* waits for something else.
OneNotification ==
    /\ Cardinality(told) <= 1
    /\ (coroutine = "returned" /\ result \in Notifiers) =>
          /\ m_result = result
          /\ told \subseteq {result}
    /\ (coroutine = "returned" /\ ~timed) => (m_ready /\ result # "timeout")
    /\ isVoid => WaitingMeansSuspended

\* A coroutine suspended in wait() continues once notify() was entered, and a
\* timed one in any case (the registration and the notification cannot miss
\* each other).
WaitEnds == /\ m_notified ~> (coroutine = "returned")
            /\ timed ~> (coroutine = "returned")

\* "Thread safe": no two threads are about to use m_waker or m_result, one of
\* them writing (await_resume and markTimeout against notify).
NoDataRace ==
    \A n \in Notifiers :
        coroutine = "result" => npc[n] # (IF isVoid THEN "wake" ELSE "store")

\* "The caller keeps the waiter valid until the wait is over": then nobody
\* uses it any more (notify).
UnusedAfterWait ==
    coroutine = "returned" =>
        \A n \in Notifiers : npc[n] \notin {"store", "publish", "exchange", "wake"}
=============================================================================
