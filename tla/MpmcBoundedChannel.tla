-------------------------- MODULE MpmcBoundedChannel --------------------------
(***************************************************************************)
(* galay::mpmc::BoundedChannel: a ring whose slots carry sequence numbers, *)
(* two queues of suspended coroutines, and a pump that moves values for    *)
(* them.  Senders and receivers use trySend/tryRecv, co_await send/recv or *)
(* recvBatch, with or without a timeout; closers call close().             *)
(*                                                                         *)
(* A thread's reservation of a ring position and the publication of the    *)
(* slot are two steps, as are the claim of a position and the release of   *)
(* its slot.  requestPump is one step: whoever sets the Running bit runs   *)
(* the pump.  A waiter is named by its coroutine and the number of the     *)
(* operation.  The timer and the wake gate of a wait are those of          *)
(* TimeoutTimer, here reduced to the completion word and a woken bit: a    *)
(* coroutine continues once it is both woken and done with await_suspend.  *)
(* The waiter queues (moodycamel::ConcurrentQueue, external) promise no    *)
(* order between threads, so they are sets; an enqueue may fail.  Locals   *)
(* are reset when they are dead.                                           *)
(***************************************************************************)
EXTENDS Naturals, Sequences, FiniteSets, Functions

CONSTANTS Senders, Receivers, Closers,   \* threads
          Capacity,                      \* slots of the ring, a power of two
          LastPosition,                  \* kTailPositionMask, 2^63 - 1
          SendOps, RecvOps,              \* operations of one thread (bound)
          AllOps,                        \* operations of all threads (bound)
          Counts,                        \* values of recvBatch's count
          Modes                          \* subset of AllModes

ASSUME ChannelAssumption ==
    /\ Capacity \in Nat \ {0, 1}
    /\ LastPosition \in Nat
    /\ SendOps \in Nat /\ RecvOps \in Nat /\ AllOps \in Nat
    /\ Counts \subseteq Nat \ {0}
    /\ Modes \subseteq {"try", "await", "timed"}
    /\ Senders \cap Receivers = {} /\ Senders \cap Closers = {}
    /\ Receivers \cap Closers = {}

VARIABLES m_tail, m_closed,    \* m_tail: the position bits and the closed bit
          m_head,
          sequence, slot,      \* Slot::sequence and the value in the slot
          running, work,       \* m_pumpState: kPumpRunning and the work bits
          recvPathUsed, sendPathUsed,
          recvWaiters, sendWaiters,
          pc, ret,             \* where a thread is; where its pump returns to
          op, mode, count,     \* a thread's operation
          pos,                 \* the ring position a thread works on
          got,                 \* values its tryRecv calls have taken
          deferred,            \* wakes collected by the pump a thread runs
          claimed, cur,        \* the pump's work and waiter
          wstate, wvalue,      \* BoundedChannelWaiter::state, value
          completion,          \* TimeoutTimer::m_completion of a timed waiter
          unfired,             \* its timer has not fired
          woken,
          report,              \* what each operation returned
          taken                \* history: values in the order of their claims

ring == <<m_tail, m_closed, m_head, sequence, slot>>
pump == <<running, work, claimed, cur>>
queues == <<recvPathUsed, sendPathUsed, recvWaiters, sendWaiters>>
thread == <<op, mode, count, pos, got>>
waiter == <<wstate, wvalue, completion, unfired, woken>>
history == <<report, taken>>
vars == <<ring, pump, queues, thread, pc, ret, deferred, waiter, history>>

Threads == Senders \cup Receivers \cup Closers
Values == Senders \X (1..SendOps)
Waiters == Values \cup (Receivers \X (1..RecvOps))
W(t) == <<t, op[t]>>
None == <<>>

PumpPc == {"claim", "drainRecv", "recvMove", "recvSettle", "recvDrained",
           "drainSend", "sendMove", "sendSettle", "exit"}
BoundedWaiterState ==
    {"kWaiting", "kCancelled", "kFulfilling", "kFulfilled", "kClosed", "kFailed"}
Completion == {"kPending", "kOperationInFlight", "kTimeoutRequested",
               "kOperationWon", "kTimeoutWon"}
Reports == {"none", "done", "failed", "closed", "timeout", "notReady"}

\* Every variable has a value of its type; the head never passes the tail
\* (BoundedChannel, BoundedWaiter).
TypeOK ==
    /\ m_tail \in 0..LastPosition /\ m_head \in 0..m_tail
    /\ m_closed \in BOOLEAN /\ running \in BOOLEAN
    /\ sequence \in [0..Capacity - 1 -> Nat]
    /\ slot \in [0..Capacity - 1 -> Values \cup {None}]
    /\ work \subseteq {"recv", "send"} /\ claimed \subseteq {"recv", "send"}
    /\ recvPathUsed \in BOOLEAN /\ sendPathUsed \in BOOLEAN
    /\ recvWaiters \subseteq Waiters \ Values /\ sendWaiters \subseteq Values
    /\ cur \in Waiters \cup {None}
    /\ op \in [Threads -> Nat]
    /\ mode \in [Threads -> {"try", "await", "timed"}]
    /\ pos \in [Threads -> Nat]
    /\ got \in [Receivers -> Seq(Values)]
    /\ deferred \in [Threads -> SUBSET Waiters]
    /\ wstate \in [Waiters -> BoundedWaiterState]
    /\ wvalue \in [Waiters -> Values \cup {None}]
    /\ completion \in [Waiters -> Completion]
    /\ unfired \in [Waiters -> BOOLEAN] /\ woken \in [Waiters -> BOOLEAN]
    /\ report \in [Waiters -> Reports]
    /\ taken \in Seq(Values)

Init ==
    /\ m_tail = 0 /\ m_closed = FALSE /\ m_head = 0
    /\ sequence = [i \in 0..Capacity - 1 |-> i]
    /\ slot = [i \in 0..Capacity - 1 |-> None]
    /\ running = FALSE /\ work = {} /\ claimed = {} /\ cur = None
    /\ recvPathUsed = FALSE /\ sendPathUsed = FALSE
    /\ recvWaiters = {} /\ sendWaiters = {}
    /\ pc = [t \in Threads |-> "idle"]
    /\ ret = [t \in Threads |-> "idle"]
    /\ op = [t \in Threads |-> 0]
    /\ mode = [t \in Threads |-> "try"]
    /\ count = [t \in Receivers |-> 1]
    /\ pos = [t \in Threads |-> 0]
    /\ got = [t \in Receivers |-> <<>>]
    /\ deferred = [t \in Threads |-> {}]
    /\ wstate = [w \in Waiters |-> "kWaiting"]
    /\ wvalue = [w \in Waiters |-> None]
    /\ completion = [w \in Waiters |-> "kPending"]
    /\ unfired = [w \in Waiters |-> TRUE]
    /\ woken = [w \in Waiters |-> FALSE]
    /\ report = [w \in Waiters |-> "none"]
    /\ taken = <<>>

Goto(t, label) == pc' = [pc EXCEPT ![t] = label]
Finish(t, r) == report' = [report EXCEPT ![W(t)] = r] /\ Goto(t, "idle")
Timed(w) == mode[w[1]] = "timed"

-----------------------------------------------------------------------------
(* The ring *)

At(p) == p % Capacity
\* Mutant: a slot that is published and not yet taken counts as free.
Sendable_Lap == sequence[At(m_tail)] \in {m_tail, m_tail + 1 - Capacity}
Sendable == sequence[At(m_tail)] = m_tail
Receivable == sequence[At(m_head)] = m_head + 1
isClosedAndDrained == m_closed /\ m_tail = m_head
Full == ~m_closed /\ m_tail # LastPosition /\ ~Sendable

\* ringEnqueueResult(), up to the exchange that reserves a position.
Reserve(t, v) ==
    /\ ~m_closed /\ m_tail # LastPosition /\ Sendable
    /\ pos' = [pos EXCEPT ![t] = m_tail]
    /\ slot' = [slot EXCEPT ![At(m_tail)] = v]
    /\ m_tail' = m_tail + 1
    /\ UNCHANGED <<m_closed, m_head, sequence>>

\* ... its last store, which publishes the slot.
Publish(t) ==
    /\ sequence' = [sequence EXCEPT ![At(pos[t])] = pos[t] + 1]
    /\ pos' = [pos EXCEPT ![t] = 0]
    /\ UNCHANGED <<m_tail, m_closed, m_head, slot>>

\* ... and its closing of a channel whose cursor is exhausted.
Exhaust ==
    /\ ~m_closed /\ m_tail = LastPosition
    /\ m_closed' = TRUE
    /\ UNCHANGED <<m_tail, m_head, sequence, slot>>

\* Mutant: the consumer reads the slot after the one it has claimed.
Claim_WrongSlot(t) ==
    LET p == IF m_tail - m_head > 1 THEN m_head + 1 ELSE m_head IN
    /\ Receivable
    /\ pos' = [pos EXCEPT ![t] = m_head]
    /\ taken' = Append(taken, slot[At(p)])
    /\ m_head' = m_head + 1
    /\ UNCHANGED <<m_tail, m_closed, sequence, slot>>

\* ringDequeueTo(), up to the exchange that claims a position.
Claim(t) ==
    /\ Receivable
    /\ pos' = [pos EXCEPT ![t] = m_head]
    /\ taken' = Append(taken, slot[At(m_head)])
    /\ m_head' = m_head + 1
    /\ UNCHANGED <<m_tail, m_closed, sequence, slot>>

\* ... its last store, which releases the slot for the next lap.
Release(t) ==
    /\ sequence' = [sequence EXCEPT ![At(pos[t])] = pos[t] + Capacity]
    /\ pos' = [pos EXCEPT ![t] = 0]
    /\ slot' = [slot EXCEPT ![At(pos[t])] = None]
    /\ UNCHANGED <<m_tail, m_closed, m_head>>

\* requestPump(w): publish the work; run the pump when nobody does.
requestPump(t, w, next) ==
    /\ work' = work \cup w
    /\ running' = TRUE
    /\ \/ running /\ Goto(t, next) /\ UNCHANGED ret
       \/ ~running /\ Goto(t, "claim") /\ ret' = [ret EXCEPT ![t] = next]
    /\ UNCHANGED <<claimed, cur>>

-----------------------------------------------------------------------------
(* Senders *)

Started == SumFunction(op)

StartSend(s) ==
    /\ pc[s] = "idle" /\ op[s] < SendOps /\ Started < AllOps
    /\ op' = [op EXCEPT ![s] = @ + 1]
    /\ \E m \in Modes :
          /\ mode' = [mode EXCEPT ![s] = m]
          /\ Goto(s, IF m = "try" THEN "try" ELSE "ready")
    /\ UNCHANGED <<ring, pump, queues, count, pos, got, ret, deferred, waiter, history>>

\* trySend(), called by the program, by await_ready and by await_suspend.
trySend(s) ==
    /\ pc[s] \in {"try", "ready", "suspend"}
    /\ LET next == CASE pc[s] = "try" -> "fail"
                     [] pc[s] = "ready" -> "readyClosed"
                     [] pc[s] = "suspend" -> "suspendClosed"
       IN \/ /\ Reserve(s, W(s))
             /\ Goto(s, "publish")
             /\ UNCHANGED <<pump, ret>>
          \/ /\ Exhaust
             /\ requestPump(s, {"recv", "send"}, next)
             /\ UNCHANGED pos
          \/ /\ m_closed \/ Full
             /\ Goto(s, next)
             /\ UNCHANGED <<ring, pump, pos, ret>>
    /\ UNCHANGED <<queues, op, mode, count, got, deferred, waiter, history>>

PublishSent(s) ==
    /\ pc[s] = "publish"
    /\ Publish(s)
    /\ Goto(s, "sent")
    /\ UNCHANGED <<pump, queues, op, mode, count, got, ret, deferred, waiter, history>>

\* trySend() looks for receivers that wait, after its value is published.
AfterSent(s) ==
    /\ pc[s] = "sent"
    /\ IF recvPathUsed THEN requestPump(s, {"recv"}, "done")
                       ELSE Goto(s, "done") /\ UNCHANGED <<pump, ret>>
    /\ UNCHANGED <<ring, queues, thread, deferred, waiter, history>>

\* The operation has returned without a wait.
SendReturns(s) ==
    /\ \/ pc[s] = "done" /\ Finish(s, "done")
       \/ pc[s] = "fail" /\ Finish(s, "failed")
    /\ UNCHANGED <<ring, pump, queues, thread, ret, deferred, waiter, taken>>

\* isClosed(), asked by await_ready and by await_suspend.
SendClosed(s) ==
    /\ pc[s] \in {"readyClosed", "suspendClosed"}
    /\ \/ m_closed /\ Finish(s, "closed")
       \/ /\ ~m_closed
          /\ Goto(s, IF pc[s] = "readyClosed" THEN "suspend" ELSE "register")
          /\ UNCHANGED report
    /\ UNCHANGED <<ring, pump, queues, thread, ret, deferred, waiter, taken>>

\* await_suspend() queues its waiter.  When the queue fails it returns false,
\* and WithTimeout cancels its timer.
SendRegister(s) ==
    /\ pc[s] = "register"
    /\ sendPathUsed' = TRUE
    /\ \/ /\ sendWaiters' = sendWaiters \cup {W(s)}
          /\ wvalue' = [wvalue EXCEPT ![W(s)] = W(s)]
          /\ Goto(s, "request")
          /\ UNCHANGED <<wstate, report>>
       \/ /\ wstate' = [wstate EXCEPT ![W(s)] = "kFailed"]
          /\ Finish(s, "notReady")
          /\ UNCHANGED <<sendWaiters, wvalue>>
    /\ UNCHANGED <<ring, pump, recvPathUsed, recvWaiters, thread, ret, deferred,
                   completion, unfired, woken, taken>>

-----------------------------------------------------------------------------
(* Receivers; recv() is a recvBatch of one that returns its only value. *)

StartRecv(r) ==
    /\ pc[r] = "idle" /\ op[r] < RecvOps /\ Started < AllOps
    /\ op' = [op EXCEPT ![r] = @ + 1]
    /\ got' = [got EXCEPT ![r] = <<>>]
    /\ \E m \in Modes, n \in Counts :
          /\ mode' = [mode EXCEPT ![r] = m]
          /\ count' = [count EXCEPT ![r] = n]
          /\ Goto(r, IF m = "try" THEN "try" ELSE "ready")
    /\ UNCHANGED <<ring, pump, queues, pos, ret, deferred, waiter, history>>

\* tryRecv(), repeated by tryRecvBatch() while it takes values.
tryRecv(r) ==
    /\ pc[r] \in {"try", "ready", "suspend", "more"}
    /\ \/ /\ Claim(r)
          /\ got' = [got EXCEPT ![r] = Append(@, slot[At(m_head)])]
          /\ Goto(r, "release")
          /\ ret' = [ret EXCEPT ![r] = pc[r]]
          /\ UNCHANGED report
       \/ /\ ~Receivable
          /\ IF got[r] # <<>> THEN Finish(r, "done")
             ELSE CASE pc[r] = "try" -> Finish(r, "failed")
                    [] pc[r] = "ready" -> Goto(r, "readyClosed") /\ UNCHANGED report
                    [] pc[r] = "suspend" -> Goto(r, "register") /\ UNCHANGED report
          /\ UNCHANGED <<ring, pos, got, ret, taken>>
    /\ UNCHANGED <<pump, queues, op, mode, count, deferred, waiter>>

\* Where the receiver goes on after it has taken a value.
AfterTaken(r) == IF Len(got[r]) = count[r] THEN "done" ELSE ret[r]

ReleaseTaken(r) ==
    /\ pc[r] = "release"
    /\ Release(r)
    /\ Goto(r, "released")
    /\ UNCHANGED <<pump, queues, op, mode, count, got, ret, deferred, waiter, history>>

\* tryRecv() looks for senders that wait, after the slot is released.
AfterReleased(r) ==
    /\ pc[r] = "released"
    /\ IF sendPathUsed THEN requestPump(r, {"send"}, AfterTaken(r))
                       ELSE Goto(r, AfterTaken(r)) /\ UNCHANGED <<pump, ret>>
    /\ UNCHANGED <<ring, queues, thread, deferred, waiter, history>>

RecvReturns(r) ==
    /\ pc[r] = "done" /\ Finish(r, "done")
    /\ UNCHANGED <<ring, pump, queues, thread, ret, deferred, waiter, taken>>

RecvClosed(r) ==
    /\ pc[r] = "readyClosed"
    /\ \/ isClosedAndDrained /\ Finish(r, "closed")
       \/ ~isClosedAndDrained /\ Goto(r, "suspend") /\ UNCHANGED report
    /\ UNCHANGED <<ring, pump, queues, thread, ret, deferred, waiter, taken>>

RecvRegister(r) ==
    /\ pc[r] = "register"
    /\ recvPathUsed' = TRUE
    /\ \/ /\ recvWaiters' = recvWaiters \cup {W(r)}
          /\ Goto(r, "request")
          /\ UNCHANGED <<wstate, report>>
       \/ /\ wstate' = [wstate EXCEPT ![W(r)] = "kFailed"]
          /\ Finish(r, "notReady")
          /\ UNCHANGED recvWaiters
    /\ UNCHANGED <<ring, pump, sendPathUsed, sendWaiters, thread, ret, deferred,
                   wvalue, completion, unfired, woken, taken>>

-----------------------------------------------------------------------------
(* Suspension and resumption, for both sides *)

Side(t) == IF t \in Senders THEN {"send"} ELSE {"recv"}

\* await_suspend() asks the pump to look at the waiter it has queued.
PumpOwn(t) ==
    /\ pc[t] = "request"
    /\ requestPump(t, Side(t), "suspended")
    /\ UNCHANGED <<ring, queues, thread, deferred, waiter, history>>

\* TimeoutTimer::handleTimeout() on the timer of a suspended wait.
handleTimeout(t) ==
    /\ pc[t] = "suspended" /\ Timed(W(t)) /\ unfired[W(t)]
    /\ unfired' = [unfired EXCEPT ![W(t)] = FALSE]
    /\ \/ /\ completion[W(t)] = "kPending"
          /\ completion' = [completion EXCEPT ![W(t)] = "kTimeoutWon"]
          /\ woken' = [woken EXCEPT ![W(t)] = TRUE]
       \/ /\ completion[W(t)] = "kOperationInFlight"
          /\ completion' = [completion EXCEPT ![W(t)] = "kTimeoutRequested"]
          /\ UNCHANGED woken
       \/ /\ completion[W(t)] = "kOperationWon"
          /\ UNCHANGED <<completion, woken>>
    /\ UNCHANGED <<ring, pump, queues, thread, pc, ret, deferred, wstate, wvalue, history>>

\* The coroutine continues.  After a timeout markTimeout() cancels the waiter
\* and asks the pump to drop its queue entry.
Resume(t) ==
    /\ pc[t] = "suspended" /\ woken[W(t)]
    /\ IF Timed(W(t)) /\ completion[W(t)] = "kTimeoutWon"
       THEN LET w == W(t)
                cancelled == wstate[w] \in {"kWaiting", "kCancelled"} IN
            /\ wstate' = [wstate EXCEPT ![w] = IF cancelled THEN "kCancelled" ELSE @]
            /\ wvalue' = [wvalue EXCEPT ![w] = IF cancelled THEN None ELSE @]
            /\ IF cancelled THEN requestPump(t, Side(t), "result")
                            ELSE Goto(t, "result") /\ UNCHANGED <<pump, ret>>
       ELSE Goto(t, "result") /\ UNCHANGED <<pump, ret, wstate, wvalue>>
    /\ UNCHANGED <<ring, queues, thread, deferred, completion, unfired, woken, history>>

\* await_resume(); recvBatch goes on to take what else is there.
await_resume(t) ==
    /\ pc[t] = "result"
    /\ LET w == W(t)
           done == wstate[w] = "kFulfilled" IN
       /\ wstate[w] # "kFulfilling"
       /\ IF done /\ t \in Receivers
          THEN /\ got' = [got EXCEPT ![t] = <<wvalue[w]>>]
               /\ wvalue' = [wvalue EXCEPT ![w] = None]
          ELSE UNCHANGED <<got, wvalue>>
       /\ IF done /\ t \in Receivers /\ count[t] > 1
          THEN Goto(t, "more") /\ UNCHANGED report
          ELSE Finish(t, CASE done -> "done"
                           [] wstate[w] = "kClosed" -> "closed"
                           [] wstate[w] = "kFailed" -> "notReady"
                           [] OTHER -> "timeout")
    /\ UNCHANGED <<ring, pump, queues, op, mode, count, pos, ret, deferred, wstate,
                   completion, unfired, woken, taken>>

\* Mutant: close() does not look for waiters.
close_Silent(c) ==
    /\ pc[c] = "idle"
    /\ m_closed' = TRUE
    /\ Goto(c, "closed")
    /\ UNCHANGED <<m_tail, m_head, sequence, slot, pump, ret, queues, thread, deferred,
                   waiter, history>>

\* close(): the first call wakes everybody.
close(c) ==
    /\ pc[c] = "idle"
    /\ m_closed' = TRUE
    /\ IF m_closed THEN Goto(c, "closed") /\ UNCHANGED <<pump, ret>>
                   ELSE requestPump(c, {"recv", "send"}, "closed")
    /\ UNCHANGED <<m_tail, m_head, sequence, slot, queues, thread, deferred, waiter, history>>

-----------------------------------------------------------------------------
(* The pump, run by the thread that set Running *)

PumpClaim(t) ==
    /\ pc[t] = "claim"
    /\ claimed' = work
    /\ work' = {}
    /\ Goto(t, "drainRecv")
    /\ UNCHANGED <<ring, running, cur, queues, thread, ret, deferred, waiter, history>>

\* Mutant: the pump takes a waiter without asking its timer.
BeginWaiter_NoTimer(t, w, next) ==
    IF wstate[w] # "kWaiting"
    THEN UNCHANGED <<pc, cur, wstate, wvalue, completion>>
    ELSE /\ wstate' = [wstate EXCEPT ![w] = "kFulfilling"]
         /\ cur' = w
         /\ Goto(t, next)
         /\ UNCHANGED <<wvalue, completion>>

\* The head of tryCompleteRecvWaiter and tryCompleteSendWaiter for a dequeued
\* waiter: take the completion right (tryBeginOperation) and the waiter
\* (claimWaiter), or skip an entry that has timed out or was completed.
\* kBusy cannot happen: only the pump begins operations.
BeginWaiter(t, w, next) ==
    IF completion[w] = "kTimeoutWon" /\ wstate[w] = "kWaiting"
    THEN /\ wstate' = [wstate EXCEPT ![w] = "kCancelled"]
         /\ wvalue' = [wvalue EXCEPT ![w] = None]
         /\ UNCHANGED <<pc, cur, completion>>
    ELSE IF completion[w] # "kPending" \/ wstate[w] # "kWaiting"
    THEN UNCHANGED <<pc, cur, wstate, wvalue, completion>>
    ELSE /\ completion' = [completion EXCEPT ![w] =
                              IF Timed(w) THEN "kOperationInFlight" ELSE @]
         /\ wstate' = [wstate EXCEPT ![w] = "kFulfilling"]
         /\ cur' = w
         /\ Goto(t, next)
         /\ UNCHANGED wvalue

\* Settle the waiter: commitOperation(), publish its state, note its wake.
SettleWaiter(t, state, next) ==
    LET committed == ~Timed(cur) \/ completion[cur] \in {"kOperationInFlight", "kTimeoutRequested"}
        lost == IF state = "kFailed" THEN "kCancelled" ELSE "kFailed"
    IN /\ wstate' = [wstate EXCEPT ![cur] = IF committed THEN state ELSE lost]
       /\ completion' = [completion EXCEPT ![cur] =
                            IF Timed(cur) /\ committed THEN "kOperationWon" ELSE @]
       /\ deferred' = [deferred EXCEPT ![t] = @ \cup {cur}]
       /\ Goto(t, next)

\* Mutant: a timeout that came while the pump had the waiter is dropped.
RequeueWaiter_Forgets(t, drain, blocked) ==
    /\ wstate' = [wstate EXCEPT ![cur] = "kWaiting"]
    /\ completion' = [completion EXCEPT ![cur] = "kPending"]
    /\ Goto(t, blocked)
    /\ UNCHANGED <<deferred, wvalue>>

\* Nothing could be moved: the waiter is back in its queue and abortOperation()
\* hands it back, unless a timeout has come and wins now.
RequeueWaiter(t, drain, blocked) ==
    LET timedOut == completion[cur] = "kTimeoutRequested" IN
    /\ wstate' = [wstate EXCEPT ![cur] = IF timedOut THEN "kCancelled" ELSE "kWaiting"]
    /\ wvalue' = [wvalue EXCEPT ![cur] = IF timedOut THEN None ELSE @]
    /\ completion' = [completion EXCEPT ![cur] =
                         IF timedOut THEN "kTimeoutWon" ELSE "kPending"]
    /\ deferred' = [deferred EXCEPT ![t] = IF timedOut THEN @ \cup {cur} ELSE @]
    /\ Goto(t, IF timedOut THEN drain ELSE blocked)

\* drainRecvWaiters()
DrainRecv(t) ==
    /\ pc[t] = "drainRecv"
    /\ \/ /\ "recv" \notin claimed \/ recvWaiters = {}
          /\ Goto(t, "drainSend")
          /\ UNCHANGED <<recvWaiters, cur, wstate, wvalue, completion>>
       \/ /\ "recv" \in claimed
          /\ \E w \in recvWaiters :
                /\ recvWaiters' = recvWaiters \ {w}
                /\ BeginWaiter(t, w, "recvMove")
    /\ UNCHANGED <<ring, running, work, claimed, recvPathUsed, sendPathUsed,
                   sendWaiters, thread, ret, deferred, unfired, woken, history>>

RecvMove(t) ==
    /\ pc[t] = "recvMove"
    /\ \/ /\ Claim(t)
          /\ wvalue' = [wvalue EXCEPT ![cur] = slot[At(m_head)]]
          /\ Goto(t, "recvSettle")
       \/ /\ ~Receivable
          /\ Goto(t, "recvDrained")
          /\ UNCHANGED <<ring, pos, wvalue, taken>>
    /\ UNCHANGED <<pump, queues, op, mode, count, got, ret, deferred, wstate,
                   completion, unfired, woken, report>>

RecvSettle(t) ==
    /\ pc[t] = "recvSettle"
    /\ Release(t)
    /\ SettleWaiter(t, "kFulfilled", "drainRecv")
    /\ work' = work \cup {"send"}
    /\ UNCHANGED <<running, claimed, cur, queues, op, mode, count, got, ret, wvalue, unfired, woken,
                   history>>

RecvDrained(t) ==
    /\ pc[t] = "recvDrained"
    /\ \/ /\ isClosedAndDrained
          /\ SettleWaiter(t, "kClosed", "drainRecv")
          /\ UNCHANGED <<recvWaiters, wvalue>>
       \/ /\ ~isClosedAndDrained
          /\ recvWaiters' = recvWaiters \cup {cur}
          /\ RequeueWaiter(t, "drainRecv", "drainSend")
       \/ /\ ~isClosedAndDrained
          /\ SettleWaiter(t, "kFailed", "drainRecv")
          /\ UNCHANGED <<recvWaiters, wvalue>>
    /\ UNCHANGED <<ring, pump, recvPathUsed, sendPathUsed, sendWaiters, thread, ret,
                   unfired, woken, history>>

\* drainSendWaiters()
DrainSend(t) ==
    /\ pc[t] = "drainSend"
    /\ \/ /\ "send" \notin claimed \/ sendWaiters = {}
          /\ Goto(t, "exit")
          /\ UNCHANGED <<sendWaiters, cur, wstate, wvalue, completion>>
       \/ /\ "send" \in claimed
          /\ \E w \in sendWaiters :
                /\ sendWaiters' = sendWaiters \ {w}
                /\ BeginWaiter(t, w, "sendMove")
    /\ UNCHANGED <<ring, running, work, claimed, recvPathUsed, sendPathUsed,
                   recvWaiters, thread, ret, deferred, unfired, woken, history>>

SendMove(t) ==
    /\ pc[t] = "sendMove"
    /\ \/ /\ Reserve(t, wvalue[cur])
          /\ wvalue' = [wvalue EXCEPT ![cur] = None]
          /\ Goto(t, "sendSettle")
          /\ UNCHANGED <<work, sendWaiters, wstate, completion, deferred>>
       \/ /\ m_closed \/ m_tail = LastPosition
          /\ IF m_closed THEN UNCHANGED <<ring, work>>
                         ELSE Exhaust /\ work' = work \cup {"recv", "send"}
          /\ wvalue' = [wvalue EXCEPT ![cur] = None]
          /\ SettleWaiter(t, "kClosed", "drainSend")
          /\ UNCHANGED <<sendWaiters, pos>>
       \/ /\ Full
          /\ sendWaiters' = sendWaiters \cup {cur}
          /\ RequeueWaiter(t, "drainSend", "exit")
          /\ UNCHANGED <<ring, work, pos>>
       \/ /\ Full
          /\ SettleWaiter(t, "kFailed", "drainSend")
          /\ UNCHANGED <<ring, work, pos, sendWaiters, wvalue>>
    /\ UNCHANGED <<running, claimed, cur, recvPathUsed, sendPathUsed, recvWaiters,
                   op, mode, count, got, ret, unfired, woken, history>>

SendSettle(t) ==
    /\ pc[t] = "sendSettle"
    /\ Publish(t)
    /\ SettleWaiter(t, "kFulfilled", "drainSend")
    /\ work' = work \cup {"recv"}
    /\ UNCHANGED <<running, claimed, cur, queues, op, mode, count, got, ret, wvalue, unfired, woken,
                   history>>

\* Mutant: the pump stops although work was published while it ran.
PumpExit_DropsWork(t) ==
    /\ pc[t] = "exit"
    /\ running' = FALSE
    /\ Goto(t, "issue")
    /\ claimed' = {} /\ cur' = None
    /\ UNCHANGED <<ring, work, queues, thread, ret, deferred, waiter, history>>

\* runPump()'s last exchange: stop, unless work was published meanwhile.
PumpExit(t) ==
    /\ pc[t] = "exit"
    /\ \/ work = {} /\ running' = FALSE /\ Goto(t, "issue")
       \/ work # {} /\ UNCHANGED running /\ Goto(t, "claim")
    /\ claimed' = {} /\ cur' = None
    /\ UNCHANGED <<ring, work, queues, thread, ret, deferred, waiter, history>>

\* issueDeferredWakes(), after the pump has been given up.
issueDeferredWakes(t) ==
    /\ pc[t] = "issue"
    /\ \/ \E w \in deferred[t] :
             /\ woken' = [woken EXCEPT ![w] = TRUE]
             /\ deferred' = [deferred EXCEPT ![t] = @ \ {w}]
             /\ UNCHANGED <<pc, ret>>
       \/ /\ deferred[t] = {}
          /\ Goto(t, ret[t])
          /\ ret' = [ret EXCEPT ![t] = "idle"]
          /\ UNCHANGED <<woken, deferred>>
    /\ UNCHANGED <<ring, pump, queues, thread, wstate, wvalue, completion, unfired, history>>

-----------------------------------------------------------------------------
SenderStep(s) ==
    \/ trySend(s) \/ PublishSent(s) \/ AfterSent(s) \/ SendReturns(s)
    \/ SendClosed(s) \/ SendRegister(s)

ReceiverStep(r) ==
    \/ tryRecv(r) \/ ReleaseTaken(r) \/ AfterReleased(r) \/ RecvReturns(r)
    \/ RecvClosed(r) \/ RecvRegister(r)

WaitStep(t) == PumpOwn(t) \/ Resume(t) \/ await_resume(t)

PumpStep(t) ==
    \/ PumpClaim(t) \/ DrainRecv(t) \/ RecvMove(t) \/ RecvSettle(t) \/ RecvDrained(t)
    \/ DrainSend(t) \/ SendMove(t) \/ SendSettle(t) \/ PumpExit(t)
    \/ issueDeferredWakes(t)

Next ==
    \/ \E s \in Senders : StartSend(s) \/ SenderStep(s)
    \/ \E r \in Receivers : StartRecv(r) \/ ReceiverStep(r)
    \/ \E t \in Senders \cup Receivers : WaitStep(t) \/ handleTimeout(t)
    \/ \E c \in Closers : close(c)
    \/ \E t \in Threads : PumpStep(t)

Spec == Init /\ [][Next]_vars

(***************************************************************************)
(* Fairness.  A thread that is inside an operation of the channel keeps    *)
(* running.  No operation need start, no timer fire and nobody close.      *)
(***************************************************************************)
Fairness ==
    /\ \A s \in Senders : WF_vars(SenderStep(s) \/ WaitStep(s) \/ PumpStep(s))
    /\ \A r \in Receivers : WF_vars(ReceiverStep(r) \/ WaitStep(r) \/ PumpStep(r))
    /\ \A c \in Closers : WF_vars(PumpStep(c))

FairSpec == Spec /\ Fairness

\* With an event loop that also keeps the timers running.
TimedSpec == FairSpec /\ \A t \in Senders \cup Receivers : WF_vars(handleTimeout(t))

-----------------------------------------------------------------------------
(* Properties *)

InRing == {slot[At(p)] : p \in m_head..m_tail - 1}
Taken == {taken[i] : i \in 1..Len(taken)}

\* A send that was reported as done has put its value in the ring or in a
\* receiver's hands; one that was reported as failed, closed, timed out or not
\* ready has not: a retry never sends it twice, and no value disappears.
\* A receive that was reported as closed, timed out or not ready has no value
\* stuck in its waiter: tryCompleteRecvWaiter commits before it publishes.
SentOnce ==
    /\ \A v \in Values :
          /\ report[v] = "done" => v \in InRing \cup Taken
          /\ report[v] \in Reports \ {"none", "done"} => v \notin InRing \cup Taken
    /\ \A i, j \in 1..Len(taken) : taken[i] = taken[j] => i = j
    /\ InRing \cap Taken = {}
    /\ \A r \in Receivers : \A i \in 1..RecvOps :
          report[<<r, i>>] # "none" => wvalue[<<r, i>>] = None

\* Each producer's values are taken in the order in which it sent them,
\* also when the pump of another thread has moved them into the ring.
FifoPerProducer ==
    \A i, j \in 1..Len(taken) :
        i < j /\ taken[i][1] = taken[j][1] => taken[i][2] < taken[j][2]

\* Two threads never construct or destroy a value in the same slot, and the
\* ring never holds more than its capacity.
SlotExclusive ==
    LET busy == {t \in Threads : pc[t] \in {"publish", "release", "recvSettle", "sendSettle"}}
    IN /\ \A t, u \in busy : At(pos[t]) = At(pos[u]) => t = u
       /\ m_tail - m_head <= Capacity

\* A receiver is told kClosed only once every reserved value is claimed.
ClosedMeansDrained ==
    \A r \in Receivers : \A i \in 1..RecvOps :
        report[<<r, i>>] = "closed" => isClosedAndDrained

\* Every value sent is taken once or still in the ring, and a receiver is told
\* kClosed only when none is left, whichever of close(), the timers and the
\* pumps of other threads comes first.
NoValueLost == SentOnce /\ ClosedMeansDrained

\* One thread runs the pump, and a waiter is on at most one list of deferred
\* wakes: the lists are linked through the waiter itself.
PumpExclusive ==
    /\ \A t, u \in Threads : pc[t] \in PumpPc /\ pc[u] \in PumpPc => t = u
    /\ \A t, u \in Threads : t # u => deferred[t] \cap deferred[u] = {}

\* The parts of the channel that are not atomic have one user at a time: a slot
\* while its value is constructed or destroyed, the pump, a waiter's link.
Exclusive == SlotExclusive /\ PumpExclusive

\* No lost wake-up: when no thread is inside an operation, a coroutine sleeps
\* only for a reason: a receiver because nothing is in the ring and more may
\* come, a sender because the ring is full and not closed.
NoLostWakeup ==
    (\A t \in Threads : \/ pc[t] \in {"idle", "closed"}
                        \/ pc[t] = "suspended" /\ ~woken[W(t)]) =>
        \A t \in Senders \cup Receivers : pc[t] = "suspended" =>
            IF t \in Receivers THEN m_head = m_tail /\ ~m_closed
                               ELSE m_tail - m_head = Capacity /\ ~m_closed

\* close() resolves every wait.
CloseWakesAll ==
    \A t \in Senders \cup Receivers :
        m_closed /\ pc[t] = "suspended" ~> pc[t] = "idle"

\* A wait with a timeout returns, also when the pump holds the waiter at the
\* moment the timer fires and then has nothing for it.
TimedWaitReturns ==
    \A t \in Senders \cup Receivers :
        pc[t] = "suspended" /\ Timed(W(t)) ~> pc[t] = "idle"

=============================================================================
