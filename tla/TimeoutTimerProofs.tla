-------------------------- MODULE TimeoutTimerProofs --------------------------
(***************************************************************************)
(* Theorems about TimeoutTimer, for every set Ops of operating threads.    *)
(***************************************************************************)
EXTENDS TimeoutTimer, TLAPS

PreArm == {"suspend", "inner", "addTimer", "timeoutNow", "arm"} \cup WakeOwing
PostWait == {"resume", "finish", "returned"}

\* Which program points each thread can be at.
IPc ==
    /\ \A o \in Ops : pc[o] \in {"idle"} \cup WakeOwing \cup Operating
    /\ pc[TimerThread] \in {"idle"} \cup WakeOwing
    /\ pc[Awaiter] \in AwaiterPc \cup WakeOwing

\* Before the waiter is published the operations and the timer are idle.
IUnpublished ==
    /\ pc[Awaiter] \in {"suspend", "inner"} => ~published /\ m_completion = "kPending"
    /\ pc[Awaiter] \in {"addTimer", "timeoutNow", "arm", "suspended"} \cup WakeOwing
          => published
    /\ ~published => \A t \in Threads \ {Awaiter} : pc[t] = "idle"
    /\ ~published => ~inWheel /\ m_state = "kArming"

\* At most one thread owes the wake, and while it does nothing was woken.
IOwing ==
    /\ \A t, u \in Threads : pc[t] \in WakeOwing /\ pc[u] \in WakeOwing => t = u
    /\ \A t \in Threads : pc[t] \in WakeOwing =>
          /\ m_completion \in Terminal
          /\ m_state \in {"kArming", "kArmed"}
    /\ \A t \in Threads : pc[t] \in {"copy", "exchange"} => m_state = "kArmed"

\* The gate: what m_state says about the wakes.
IGate ==
    /\ pc[Awaiter] \in PreArm => m_state \in {"kArming", "kPending"}
    /\ pc[Awaiter] \in PreArm => resumes = 0 /\ wakes = 0
    /\ pc[Awaiter] \in PreArm \ {"suspend"} => m_waker
    /\ pc[Awaiter] = "suspended" =>
          /\ m_waker
          /\ \/ m_state = "kArmed" /\ resumes = 0 /\ wakes = 0
             \/ m_state = "kIssued" /\ resumes = 1 /\ wakes = 1
    /\ pc[Awaiter] \in PostWait =>
          /\ resumes = 1
          /\ wakes = 0
          /\ m_completion \in Terminal
          /\ \A t \in Threads : pc[t] \notin WakeOwing
    /\ m_state \in {"kPending", "kIssued"} =>
          /\ m_completion \in Terminal
          /\ \A t \in Threads : pc[t] \notin WakeOwing

\* A decided timeout has its flag raised before anybody is woken for it.
ITimeout ==
    /\ "kTimeout" \in m_flag => m_completion = "kTimeoutWon"
    /\ m_completion = "kTimeoutWon" =>
          "kTimeout" \in m_flag \/ \E t \in Threads : pc[t] = "flag"
    /\ \A t \in Threads : pc[t] = "flag" => m_completion = "kTimeoutWon"

\* Where the value is.
IMoved ==
    /\ \A o \in Ops : pc[o] = "moved" => moved
    /\ \A o \in Ops : pc[o] = "inflight" => ~moved
    /\ m_completion = "kOperationWon" => moved
    /\ moved => m_completion = "kOperationWon" \/ \E o \in Ops : pc[o] = "moved"

\* What await_resume returned.
IResult ==
    /\ pc[Awaiter] \notin {"finish", "returned"} => result = "none"
    /\ pc[Awaiter] \in {"finish", "returned"} =>
          result = IF m_completion = "kTimeoutWon" THEN "timeout" ELSE "operation"

\* The inductive invariant.
IInv ==
    /\ TypeOK
    /\ IPc
    /\ CompletionOwned
    /\ IUnpublished
    /\ IOwing
    /\ IGate
    /\ ITimeout
    /\ IMoved
    /\ IResult

-----------------------------------------------------------------------------
\* The initial states satisfy the inductive invariant.
LEMMA InitInv == ASSUME Init PROVE IInv
<1> USE ThreadsAssumption DEF Init, InFlight, Terminal, Completion, State,
      WakeOwing, Operating, AwaiterPc, PreArm, PostWait, Threads
<1>1. TypeOK
  BY DEF TypeOK
<1>2. IPc /\ CompletionOwned /\ IUnpublished /\ IOwing
  BY DEF IPc, CompletionOwned, IUnpublished, IOwing
<1>3. IGate /\ ITimeout /\ IMoved /\ IResult
  BY DEF IGate, ITimeout, IMoved, IResult
<1> QED
  BY <1>1, <1>2, <1>3 DEF IInv

\* A step of a thread that completes the operation preserves it.
LEMMA OpStepInv == ASSUME IInv, NEW o \in Ops, OpStep(o) PROVE IInv'
<1> USE ThreadsAssumption DEF Goto, arbiter, gate, registration, coroutine,
      InFlight, Terminal, Completion, TimerFlag, State, WakeOwing, Operating,
         AwaiterPc, PreArm, PostWait, Threads
<1>1. CASE tryBeginOperation(o)
  <2>1. TypeOK'
    BY <1>1 DEF tryBeginOperation, BeginFrom, IInv, TypeOK
  <2>2. IPc' /\ CompletionOwned' /\ IUnpublished'
    BY <1>1 DEF tryBeginOperation, BeginFrom, IInv, TypeOK, IPc,
       CompletionOwned, IUnpublished
  <2>3. IOwing' /\ IGate' /\ ITimeout'
    BY <1>1 DEF tryBeginOperation, BeginFrom, IInv, TypeOK, IOwing, IGate,
       ITimeout
  <2>4. IResult'
    BY <1>1 DEF tryBeginOperation, BeginFrom, IInv, TypeOK, IResult
  <2>5. IMoved'
    BY <1>1 DEF tryBeginOperation, BeginFrom, IInv, TypeOK, CompletionOwned,
       IMoved
  <2> QED
    BY <2>1, <2>2, <2>3, <2>4, <2>5 DEF IInv
<1>2. CASE MoveValue(o)
  <2>1. TypeOK'
    BY <1>2 DEF MoveValue, IInv, TypeOK
  <2>2. IPc' /\ CompletionOwned' /\ IUnpublished'
    BY <1>2 DEF MoveValue, IInv, TypeOK, IPc, CompletionOwned, IUnpublished
  <2>3. IOwing' /\ IGate' /\ ITimeout'
    BY <1>2 DEF MoveValue, IInv, TypeOK, IOwing, IGate, ITimeout
  <2>4. IResult'
    BY <1>2 DEF MoveValue, IInv, TypeOK, IResult
  <2>5. IMoved'
    BY <1>2 DEF MoveValue, IInv, TypeOK, CompletionOwned, IMoved
  <2> QED
    BY <2>1, <2>2, <2>3, <2>4, <2>5 DEF IInv
<1>3. CASE commitOperation(o)
  <2>1. TypeOK'
    <3>1. pc' \in [Threads -> {"idle"} \cup WakeOwing \cup Operating \cup AwaiterPc]
      BY <1>3 DEF commitOperation, IInv, TypeOK
    <3>2. m_completion' \in Completion
      BY <1>3 DEF commitOperation, IInv, TypeOK
    <3> QED
      BY <1>3, <3>1, <3>2, Zenon DEF commitOperation, IInv, TypeOK
  <2>2. IPc' /\ CompletionOwned' /\ IUnpublished'
    BY <1>3 DEF commitOperation, IInv, TypeOK, IPc, CompletionOwned,
       IUnpublished
  <2>3. ITimeout' /\ IResult'
    BY <1>3 DEF commitOperation, IInv, TypeOK, ITimeout, IResult
  <2>4. IOwing'
    BY <1>3 DEF commitOperation, IInv, TypeOK, CompletionOwned, IOwing, IGate
  <2>5. IGate'
    BY <1>3 DEF commitOperation, IInv, TypeOK, CompletionOwned, IGate
  <2>6. IMoved'
    BY <1>3 DEF commitOperation, IInv, TypeOK, CompletionOwned, IMoved
  <2> QED
    BY <2>1, <2>2, <2>3, <2>4, <2>5, <2>6 DEF IInv
<1>4. CASE abortOperation(o)
  <2>1. TypeOK'
    BY <1>4 DEF abortOperation, IInv, TypeOK
  <2>2. IPc' /\ CompletionOwned' /\ IUnpublished'
    BY <1>4 DEF abortOperation, IInv, TypeOK, IPc, CompletionOwned,
       IUnpublished
  <2>3. IGate' /\ ITimeout' /\ IMoved'
    BY <1>4 DEF abortOperation, IInv, TypeOK, IGate, ITimeout, IMoved
  <2>4. IOwing'
    BY <1>4 DEF abortOperation, IInv, TypeOK, IOwing, IGate
  <2>5. IResult'
    BY <1>4 DEF abortOperation, IInv, TypeOK, IGate, IResult
  <2> QED
    BY <2>1, <2>2, <2>3, <2>4, <2>5 DEF IInv
<1> QED
  BY <1>1, <1>2, <1>3, <1>4 DEF OpStep

\* A step of a thread that owes the wake preserves it.
LEMMA WakeStepInv == ASSUME IInv, NEW t \in Threads, WakeStep(t) PROVE IInv'
<1> USE ThreadsAssumption DEF Goto, arbiter, gate, registration, coroutine,
      InFlight, Terminal, Completion, TimerFlag, State, WakeOwing, Operating,
         AwaiterPc, PreArm, PostWait, Threads
<1>1. CASE RaiseTimeout(t)
  <2>1. TypeOK'
    BY <1>1 DEF RaiseTimeout, IInv, TypeOK
  <2>2. IPc' /\ CompletionOwned' /\ IUnpublished'
    BY <1>1 DEF RaiseTimeout, IInv, TypeOK, IPc, CompletionOwned, IUnpublished
  <2>3. IOwing' /\ IGate' /\ ITimeout'
    BY <1>1 DEF RaiseTimeout, IInv, TypeOK, IOwing, IGate, ITimeout
  <2>4. IMoved' /\ IResult'
    BY <1>1 DEF RaiseTimeout, IInv, TypeOK, IMoved, IResult
  <2> QED
    BY <2>1, <2>2, <2>3, <2>4 DEF IInv
<1>2. CASE requestWake(t)
  <2>1. TypeOK'
    BY <1>2 DEF requestWake, AfterWake, IInv, TypeOK
  <2>2. IPc' /\ CompletionOwned' /\ IUnpublished'
    BY <1>2 DEF requestWake, AfterWake, IInv, TypeOK, IPc, CompletionOwned,
       IUnpublished
  <2>3. IOwing' /\ ITimeout' /\ IMoved'
    BY <1>2 DEF requestWake, AfterWake, IInv, TypeOK, IOwing, ITimeout, IMoved
  <2>4. IResult'
    BY <1>2 DEF requestWake, AfterWake, IInv, TypeOK, IResult
  <2>5. IGate'
    BY <1>2 DEF requestWake, AfterWake, IInv, TypeOK, IOwing, IGate
  <2> QED
    BY <2>1, <2>2, <2>3, <2>4, <2>5 DEF IInv
<1>3. CASE CopyWaker(t)
  <2>1. TypeOK'
    BY <1>3 DEF CopyWaker, IInv, TypeOK
  <2>2. IPc' /\ CompletionOwned' /\ IUnpublished'
    BY <1>3 DEF CopyWaker, IInv, TypeOK, IPc, CompletionOwned, IUnpublished
  <2>3. IOwing' /\ IGate' /\ ITimeout'
    BY <1>3 DEF CopyWaker, IInv, TypeOK, IOwing, IGate, ITimeout
  <2>4. IMoved' /\ IResult'
    BY <1>3 DEF CopyWaker, IInv, TypeOK, IMoved, IResult
  <2> QED
    BY <2>1, <2>2, <2>3, <2>4 DEF IInv
<1>4. CASE IssueWake(t)
  <2>1. TypeOK'
    BY <1>4 DEF IssueWake, AfterWake, IInv, TypeOK
  <2>2. IPc' /\ CompletionOwned' /\ IUnpublished'
    BY <1>4 DEF IssueWake, AfterWake, IInv, TypeOK, IPc, CompletionOwned,
       IUnpublished
  <2>3. IOwing' /\ ITimeout' /\ IMoved'
    BY <1>4 DEF IssueWake, AfterWake, IInv, TypeOK, IOwing, ITimeout, IMoved
  <2>4. IResult'
    BY <1>4 DEF IssueWake, AfterWake, IInv, TypeOK, IResult
  <2>5. IGate'
    BY <1>4 DEF IssueWake, AfterWake, IInv, TypeOK, IOwing, IGate
  <2> QED
    BY <2>1, <2>2, <2>3, <2>4, <2>5 DEF IInv
<1> QED
  BY <1>1, <1>2, <1>3, <1>4 DEF WakeStep

\* A step of the awaiting coroutine's thread preserves it.
LEMMA AwaiterStepInv == ASSUME IInv, AwaiterStep PROVE IInv'
<1> USE ThreadsAssumption DEF Goto, arbiter, gate, registration, coroutine,
      InFlight, Terminal, Completion, TimerFlag, State, WakeOwing, Operating,
         AwaiterPc, PreArm, PostWait, Threads
<1>1. CASE await_suspend
  <2>1. TypeOK'
    <3>1. m_flag' \in SUBSET TimerFlag
      BY <1>1 DEF await_suspend, IInv, TypeOK
    <3>2. m_completion' \in Completion /\ resumes' \in Nat
      BY <1>1 DEF await_suspend, IInv, TypeOK
    <3>3. pc' \in [Threads -> {"idle"} \cup WakeOwing \cup Operating \cup AwaiterPc]
      BY <1>1 DEF await_suspend, IInv, TypeOK
    <3> QED
      BY <1>1, <3>1, <3>2, <3>3, Zenon DEF await_suspend, IInv, TypeOK
  <2>2. IPc' /\ IUnpublished' /\ IOwing'
    BY <1>1 DEF await_suspend, IInv, TypeOK, IPc, IUnpublished, IOwing
  <2>3. ITimeout' /\ IResult'
    BY <1>1 DEF await_suspend, IInv, TypeOK, ITimeout, IResult
  <2>4. CompletionOwned'
    BY <1>1 DEF await_suspend, IInv, TypeOK, CompletionOwned, IUnpublished
  <2>5. IGate'
    BY <1>1 DEF await_suspend, IInv, TypeOK, IUnpublished, IGate
  <2>6. IMoved'
    BY <1>1 DEF await_suspend, IInv, TypeOK, IUnpublished, IMoved
  <2> QED
    BY <2>1, <2>2, <2>3, <2>4, <2>5, <2>6 DEF IInv
<1>2. CASE InnerSuspend
  <2>1. TypeOK'
    <3>1. m_flag' \in SUBSET TimerFlag
      BY <1>2 DEF InnerSuspend, cancel, IInv, TypeOK
    <3>2. m_completion' \in Completion /\ resumes' \in Nat
      BY <1>2 DEF InnerSuspend, cancel, IInv, TypeOK
    <3>3. pc' \in [Threads -> {"idle"} \cup WakeOwing \cup Operating \cup AwaiterPc]
      BY <1>2 DEF InnerSuspend, IInv, TypeOK
    <3> QED
      BY <1>2, <3>1, <3>2, <3>3, Zenon DEF InnerSuspend, IInv, TypeOK
  <2>2. IPc' /\ CompletionOwned' /\ IUnpublished'
    BY <1>2 DEF InnerSuspend, cancel, IInv, TypeOK, IPc, CompletionOwned,
       IUnpublished
  <2>3. IOwing' /\ ITimeout' /\ IResult'
    BY <1>2 DEF InnerSuspend, cancel, IInv, TypeOK, IOwing, ITimeout, IResult
  <2>4. IGate'
    BY <1>2 DEF InnerSuspend, cancel, IInv, TypeOK, IUnpublished, IGate
  <2>5. IMoved'
    BY <1>2 DEF InnerSuspend, cancel, IInv, TypeOK, IUnpublished, IMoved
  <2> QED
    BY <2>1, <2>2, <2>3, <2>4, <2>5 DEF IInv
<1>3. CASE AddTimer
  <2>1. TypeOK'
    <3>1. pc' \in [Threads -> {"idle"} \cup WakeOwing \cup Operating \cup AwaiterPc]
      BY <1>3 DEF AddTimer, IInv, TypeOK
    <3>2. inWheel' \in BOOLEAN
      BY <1>3 DEF AddTimer
    <3> QED
      BY <1>3, <3>1, <3>2, Zenon DEF AddTimer, IInv, TypeOK
  <2>2. IPc' /\ CompletionOwned' /\ IUnpublished'
    BY <1>3 DEF AddTimer, IInv, TypeOK, IPc, CompletionOwned, IUnpublished
  <2>3. IOwing' /\ IGate' /\ ITimeout'
    BY <1>3 DEF AddTimer, IInv, TypeOK, IOwing, IGate, ITimeout
  <2>4. IMoved' /\ IResult'
    BY <1>3 DEF AddTimer, IInv, TypeOK, IMoved, IResult
  <2> QED
    BY <2>1, <2>2, <2>3, <2>4 DEF IInv
<1>4. CASE timeoutNow
  <2>1. TypeOK'
    BY <1>4 DEF timeoutNow, completeTimeout, IInv, TypeOK
  <2>2. IPc' /\ CompletionOwned' /\ IUnpublished'
    BY <1>4 DEF timeoutNow, completeTimeout, IInv, TypeOK, IPc,
       CompletionOwned, IUnpublished
  <2>3. IGate' /\ ITimeout' /\ IMoved'
    BY <1>4 DEF timeoutNow, completeTimeout, IInv, TypeOK, IGate, ITimeout,
       IMoved
  <2>4. IResult'
    BY <1>4 DEF timeoutNow, completeTimeout, IInv, TypeOK, IResult
  <2>5. IOwing'
    BY <1>4 DEF timeoutNow, completeTimeout, IInv, TypeOK, IOwing, IGate
  <2> QED
    BY <2>1, <2>2, <2>3, <2>4, <2>5 DEF IInv
<1>5. CASE arm
  <2>1. TypeOK'
    BY <1>5 DEF arm, IInv, TypeOK
  <2>2. IPc' /\ CompletionOwned' /\ IUnpublished'
    BY <1>5 DEF arm, IInv, TypeOK, IPc, CompletionOwned, IUnpublished
  <2>3. IOwing' /\ IGate' /\ ITimeout'
    BY <1>5 DEF arm, IInv, TypeOK, IOwing, IGate, ITimeout
  <2>4. IMoved' /\ IResult'
    BY <1>5 DEF arm, IInv, TypeOK, IMoved, IResult
  <2> QED
    BY <2>1, <2>2, <2>3, <2>4 DEF IInv
<1>6. CASE RunWoken
  <2>1. TypeOK'
    BY <1>6 DEF RunWoken, IInv, TypeOK
  <2>2. IPc' /\ CompletionOwned' /\ IUnpublished'
    BY <1>6 DEF RunWoken, IInv, TypeOK, IPc, CompletionOwned, IUnpublished
  <2>3. IOwing' /\ IGate' /\ ITimeout'
    BY <1>6 DEF RunWoken, IInv, TypeOK, IOwing, IGate, ITimeout
  <2>4. IMoved' /\ IResult'
    BY <1>6 DEF RunWoken, IInv, TypeOK, IMoved, IResult
  <2> QED
    BY <2>1, <2>2, <2>3, <2>4 DEF IInv
<1>7. CASE await_resume
  <2>1. TypeOK'
    <3>1. pc' \in [Threads -> {"idle"} \cup WakeOwing \cup Operating \cup AwaiterPc]
      BY <1>7 DEF await_resume, IInv, TypeOK
    <3>2. m_waker' \in BOOLEAN /\ result' \in {"none", "operation", "timeout"}
      BY <1>7 DEF await_resume
    <3> QED
      BY <1>7, <3>1, <3>2, Zenon DEF await_resume, IInv, TypeOK
  <2>2. IPc' /\ CompletionOwned' /\ IUnpublished'
    BY <1>7 DEF await_resume, IInv, TypeOK, IPc, CompletionOwned, IUnpublished
  <2>3. IOwing' /\ IGate' /\ ITimeout'
    BY <1>7 DEF await_resume, IInv, TypeOK, IOwing, IGate, ITimeout
  <2>4. IMoved'
    BY <1>7 DEF await_resume, IInv, TypeOK, IMoved
  <2>5. IResult'
    BY <1>7 DEF await_resume, IInv, TypeOK, IGate, ITimeout, IResult
  <2> QED
    BY <2>1, <2>2, <2>3, <2>4, <2>5 DEF IInv
<1>8. CASE FinishResume
  <2>1. TypeOK'
    <3>1. pc' \in [Threads -> {"idle"} \cup WakeOwing \cup Operating \cup AwaiterPc]
      BY <1>8 DEF FinishResume, IInv, TypeOK
    <3>2. m_completion' \in Completion
      BY <1>8 DEF FinishResume, cancel, IInv, TypeOK
    <3>3. m_flag' \in SUBSET TimerFlag
      BY <1>8 DEF FinishResume, cancel, IInv, TypeOK
    <3> QED
      BY <1>8, <3>1, <3>2, <3>3, Zenon DEF FinishResume, IInv, TypeOK
  <2>2. IPc' /\ CompletionOwned' /\ IUnpublished'
    BY <1>8 DEF FinishResume, cancel, IInv, TypeOK, IPc, CompletionOwned,
       IUnpublished
  <2>3. IOwing' /\ IGate' /\ ITimeout'
    BY <1>8 DEF FinishResume, cancel, IInv, TypeOK, IOwing, IGate, ITimeout
  <2>4. IResult'
    BY <1>8 DEF FinishResume, cancel, IInv, TypeOK, IResult
  <2>5. IMoved'
    BY <1>8 DEF FinishResume, cancel, IInv, TypeOK, IGate, IMoved
  <2> QED
    BY <2>1, <2>2, <2>3, <2>4, <2>5 DEF IInv
<1> QED
  BY <1>1, <1>2, <1>3, <1>4, <1>5, <1>6, <1>7, <1>8 DEF AwaiterStep

\* The timer wheel's call of handleTimeout() preserves it.
LEMMA handleTimeoutInv == ASSUME IInv, handleTimeout PROVE IInv'
<1> USE ThreadsAssumption DEF Goto, arbiter, gate, registration, coroutine,
      InFlight, Terminal, Completion, TimerFlag, State, WakeOwing, Operating,
         AwaiterPc, PreArm, PostWait, Threads
<1>1. TypeOK'
  <2>1. pc' \in [Threads -> {"idle"} \cup WakeOwing \cup Operating \cup AwaiterPc]
    BY DEF handleTimeout, completeTimeout, IInv, TypeOK
  <2>2. m_completion' \in Completion /\ m_flag' \in SUBSET TimerFlag
    BY DEF handleTimeout, completeTimeout, IInv, TypeOK
  <2> QED
    BY <2>1, <2>2, Zenon DEF handleTimeout, IInv, TypeOK
<1>2. IPc' /\ CompletionOwned' /\ IUnpublished'
  BY DEF handleTimeout, completeTimeout, IInv, TypeOK, IPc, CompletionOwned,
     IUnpublished
<1>3. IGate' /\ ITimeout' /\ IMoved'
  BY DEF handleTimeout, completeTimeout, IInv, TypeOK, IGate, ITimeout, IMoved
<1>4. IResult'
  BY DEF handleTimeout, completeTimeout, IInv, TypeOK, IGate, IResult
<1>5. IOwing'
  BY DEF handleTimeout, completeTimeout, IInv, TypeOK, IOwing, IGate
<1> QED
  BY <1>1, <1>2, <1>3, <1>4, <1>5 DEF IInv

\* IInv is an invariant of the specification.
THEOREM Invariance == Spec => []IInv
<1>1. Init => IInv
  BY InitInv
<1>2. IInv /\ [Next]_vars => IInv'
  <2>1. ASSUME IInv, Next PROVE IInv'
    BY <2>1, OpStepInv, WakeStepInv, AwaiterStepInv, handleTimeoutInv DEF Next
  <2>2. ASSUME IInv, UNCHANGED vars PROVE IInv'
    <3>1. TypeOK' /\ IPc' /\ CompletionOwned' /\ IUnpublished' /\ IOwing'
      BY <2>2 DEF vars, arbiter, gate, registration, coroutine, IInv, TypeOK,
         IPc, CompletionOwned, IUnpublished, IOwing
    <3>2. IGate' /\ ITimeout' /\ IMoved' /\ IResult'
      BY <2>2 DEF vars, arbiter, gate, registration, coroutine, IInv, IGate,
         ITimeout, IMoved, IResult
    <3> QED
      BY <3>1, <3>2 DEF IInv
  <2> QED
    BY <2>1, <2>2
<1> QED
  BY <1>1, <1>2, PTL DEF Spec

\* The variables keep their types.
THEOREM TypeCorrect == Spec => []TypeOK
<1>1. IInv => TypeOK
  BY DEF IInv
<1> QED
  BY <1>1, Invariance, PTL

\* One co_await continues the coroutine at most once, whatever the operations,
\* the timer and a failing addTimer() do (DeferredWaker).
THEOREM ContinuesOnce == Spec => []ResumedOnce
<1>1. IInv => ResumedOnce
  BY DEF IInv, TypeOK, IPc, IGate, ResumedOnce, AwaiterPc, PreArm, PostWait, WakeOwing
<1> QED
  BY <1>1, Invariance, PTL

\* No wakeUp() is issued before await_suspend has armed the gate and returned.
THEOREM WakesOnlySuspended == Spec => []NoWakeWhileArming
<1>1. IInv => NoWakeWhileArming
  BY DEF IInv, TypeOK, IPc, IGate, NoWakeWhileArming, AwaiterPc, PreArm,
     PostWait, WakeOwing
<1> QED
  BY <1>1, Invariance, PTL

\* requestWake() never reads a waker that await_resume clears.
THEOREM WakerIsSafe == Spec => []WakerReadIsSafe
<1>1. IInv => WakerReadIsSafe
  BY ThreadsAssumption DEF IInv, TypeOK, IPc, IGate, IOwing, WakerReadIsSafe,
     AwaiterPc, PreArm, PostWait, WakeOwing, Threads
<1> QED
  BY <1>1, Invariance, PTL

\* The promise of DeferredWaker as a whole: a single wake, after the coroutine
\* is suspended, through a waker that is still there.
THEOREM WakeProtocol == Spec => []WakeIsSafe
<1>1. ResumedOnce /\ NoWakeWhileArming /\ WakerReadIsSafe => WakeIsSafe
  BY DEF WakeIsSafe
<1> QED
  BY <1>1, ContinuesOnce, WakesOnlySuspended, WakerIsSafe, PTL

\* A coroutine that is told of a timeout has lost no value.
THEOREM TimeoutLosesNothing == Spec => []TimeoutMovesNothing
<1>1. IInv => TimeoutMovesNothing
  BY DEF IInv, TypeOK, IPc, CompletionOwned, IGate, IMoved, IResult,
     TimeoutMovesNothing, AwaiterPc, PostWait, WakeOwing, Operating, InFlight,
     Terminal
<1> QED
  BY <1>1, Invariance, PTL

\* The value is moved under the completion right, by one operation at a time.
THEOREM OwnedOnce == Spec => []CompletionOwned
<1>1. IInv => CompletionOwned
  BY DEF IInv
<1> QED
  BY <1>1, Invariance, PTL

\* A decision, once taken, is never reversed.
THEOREM DecidedForEver == Spec => DecisionFinal
<1>1. IInv /\ [Next]_vars =>
        [(m_completion \in Terminal) => (m_completion' = m_completion)]_vars
  <2> SUFFICES ASSUME IInv, Next, m_completion \in Terminal
               PROVE  m_completion' = m_completion
    OBVIOUS
  <2> USE DEF Terminal, Goto, arbiter, gate, registration, coroutine
  <2>1. ASSUME NEW o \in Ops, OpStep(o) PROVE m_completion' = m_completion
    BY <2>1 DEF OpStep, tryBeginOperation, BeginFrom, MoveValue,
       commitOperation, abortOperation, IInv, CompletionOwned, Operating, InFlight
  <2>2. ASSUME NEW t \in Threads, WakeStep(t) PROVE m_completion' = m_completion
    BY <2>2 DEF WakeStep, RaiseTimeout, requestWake, CopyWaker, IssueWake
  <2>3. CASE handleTimeout
    BY <2>3 DEF handleTimeout, completeTimeout
  <2>4. CASE AwaiterStep
    BY <2>4 DEF AwaiterStep, await_suspend, InnerSuspend, AddTimer, timeoutNow,
       completeTimeout, arm, RunWoken, await_resume, FinishResume, cancel,
       IInv, IUnpublished
  <2> QED
    BY <2>1, <2>2, <2>3, <2>4 DEF Next
<1> QED
  BY <1>1, Invariance, PTL DEF Spec, DecisionFinal

\* WithTimeout implements the one-shot decision of TimedAwait: every step of
\* the code is a decision, the report of the decision, or invisible to it.
THEOREM Refinement == Spec => ImplementsTimedAwait
<1>1. Init => TA!Init
  BY DEF Init, TA!Init, Outcome
<1>2. IInv /\ IInv' /\ [Next]_vars => [TA!Next]_(TA!vars)
  <2> SUFFICES ASSUME IInv, IInv', [Next]_vars
               PROVE  TA!Next \/ UNCHANGED <<Outcome, result>>
    BY DEF TA!vars
  <2> USE DEF Goto, arbiter, gate, registration, coroutine, Outcome, TA!Next
  <2>1. ASSUME NEW o \in Ops, OpStep(o) PROVE TA!Decide \/ UNCHANGED <<Outcome, result>>
    BY <2>1 DEF OpStep, tryBeginOperation, BeginFrom, MoveValue,
       commitOperation, abortOperation, IInv, IMoved, CompletionOwned,
       Operating, InFlight, TA!Decide
  <2>2. ASSUME NEW t \in Threads, WakeStep(t) PROVE UNCHANGED <<Outcome, result>>
    BY <2>2 DEF WakeStep, RaiseTimeout, requestWake, CopyWaker, IssueWake
  <2>3. CASE handleTimeout
    BY <2>3 DEF handleTimeout, completeTimeout, TA!Decide, IInv, IMoved,
       CompletionOwned, Operating, InFlight
  <2>4. ASSUME AwaiterStep, ~await_resume
        PROVE  TA!Decide \/ UNCHANGED <<Outcome, result>>
    <3>1. CASE await_suspend
      BY <3>1 DEF await_suspend, TA!Decide, IInv, IUnpublished
    <3>2. CASE InnerSuspend
      BY <3>2 DEF InnerSuspend, cancel, TA!Decide, IInv, IUnpublished
    <3>3. CASE AddTimer \/ arm \/ RunWoken
      BY <3>3 DEF AddTimer, arm, RunWoken
    <3>4. CASE timeoutNow
      BY <3>4 DEF timeoutNow, completeTimeout, TA!Decide, IInv, IMoved,
         CompletionOwned, Operating, InFlight
    <3>5. CASE FinishResume
      BY <3>5 DEF FinishResume, cancel, TA!Decide, IInv, IGate, PostWait, Terminal
    <3> QED
      BY <2>4, <3>1, <3>2, <3>3, <3>4, <3>5 DEF AwaiterStep
  <2>5. CASE await_resume
    BY <2>5 DEF await_resume, TA!Resume, IInv, IMoved, IGate, ITimeout, IResult,
       CompletionOwned, Operating, InFlight, PostWait, Terminal, WakeOwing
  <2>6. CASE UNCHANGED vars
    BY <2>6 DEF vars
  <2> QED
    BY <2>1, <2>2, <2>3, <2>4, <2>5, <2>6 DEF Next
<1> QED
  BY <1>1, <1>2, Invariance, PTL DEF Spec, ImplementsTimedAwait, TA!Spec

=============================================================================
