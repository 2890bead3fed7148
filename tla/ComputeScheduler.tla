--------------------------- MODULE ComputeScheduler ---------------------------
(***************************************************************************)
(* One ComputeScheduler: its worker thread (the owner), the queue of       *)
(* scheduled tasks, the intrusive TaskResumeQueue that wakers push to, the *)
(* TaskState flags that keep a task from being queued twice, completion    *)
(* with its continuation, stop() and start().                              *)
(*                                                                         *)
(* A task that runs does one of the things a coroutine can do: suspend on  *)
(* something another thread completes, yield, await a child task, finish.  *)
(* A suspension hands out one waker where a completion gate (TimeoutTimer) *)
(* admits a single wake, two where an operation and its timer both call    *)
(* wakeUp() (AsyncMutex).  Of two wakes the second is merged into the      *)
(* first, or comes late, when the task runs again.                         *)
(*                                                                         *)
(* m_resume_owner_only is left out: only a stealing scheduler reads it.    *)
(***************************************************************************)
EXTENDS Naturals, Sequences, FiniteSets, SequencesExt

CONSTANTS Tasks,       \* the tasks of the scheduler
          Wakers,      \* other threads
          Owner,       \* the worker thread
          Suspensions, \* suspensions of one task (bound)
          Redundant,   \* the tasks a suspension of which may hand out two wakers
          Overlap,     \* whether a task waits anew while a late wake is under way
          Stops        \* calls of stop() (bound)

ASSUME SchedulerAssumption ==
    /\ Owner \notin Wakers
    /\ Suspensions \in Nat /\ Stops \in Nat
    /\ Redundant \subseteq Tasks /\ Overlap \in BOOLEAN

VARIABLES m_queued, m_resume_queue_claimed,  \* TaskState flags
          m_done,
          m_next,        \* the parent that awaits the task, if any
          status,        \* what the coroutine is doing
          count,         \* number of its current suspension
          m_resumeQueue, \* the linked stack, newest first
          closed,        \* its kClosedBit
          m_queue,       \* scheduled tasks
          m_running, stops,
          pc, phase,     \* the owner: where, in or after the loop
          cur, back,     \* the task at hand and where the owner goes on after it
          chain,         \* the tasks it took from the resume queue, oldest first
          wpc, wtask,    \* each thread in requestTaskResumeState(): where, for whom
          tokens,        \* the wakers that have not been used yet
          fired          \* history: tasks with a wakeUp(), since start(), for the wait they are in

flags == <<m_queued, m_resume_queue_claimed>>
task == <<m_done, m_next, status, count>>
queues == <<m_resumeQueue, closed, m_queue>>
owner == <<phase, cur, back, chain>>
life == <<m_running, stops>>
wakes == <<tokens, fired>>
vars == <<flags, task, queues, pc, owner, life, wpc, wtask, wakes>>

None == "none"
Threads == Wakers \cup {Owner}
Token == Tasks \X (1..Suspensions) \X {1, 2}

\* Every variable has a value of its type (TaskState, ComputeScheduler).
TypeOK ==
    /\ m_queued \in [Tasks -> BOOLEAN]
    /\ m_resume_queue_claimed \in [Tasks -> BOOLEAN]
    /\ m_done \in [Tasks -> BOOLEAN]
    /\ m_next \in [Tasks -> Tasks \cup {None}]
    /\ status \in [Tasks -> {"new", "scheduled", "running", "publishing",
                              "suspended", "yielded", "awaiting", "done"}]
    /\ count \in [Tasks -> 0..Suspensions]
    /\ m_resumeQueue \in Seq(Tasks) /\ chain \in Seq(Tasks) /\ m_queue \in Seq(Tasks)
    /\ closed \in BOOLEAN /\ m_running \in BOOLEAN
    /\ stops \in 0..Stops
    /\ pc \in {"stopped", "top", "drain", "chain", "dequeue", "resume", "unclaim", "run",
               "continue", "demote"}
    /\ phase \in {"loop", "exit", "last"}
    /\ cur \in Tasks \cup {None} /\ back \in {"top", "drain", "chain"}
    /\ wpc \in [Threads -> {"idle", "exchange", "claim", "push", "unclaim", "reset"}]
    /\ wtask \in [Threads -> Tasks \cup {None}]
    /\ tokens \subseteq Token
    /\ fired \subseteq Tasks

Init ==
    /\ m_queued = [t \in Tasks |-> FALSE]
    /\ m_resume_queue_claimed = [t \in Tasks |-> FALSE]
    /\ m_done = [t \in Tasks |-> FALSE]
    /\ m_next = [t \in Tasks |-> None]
    /\ status = [t \in Tasks |-> "new"]
    /\ count = [t \in Tasks |-> 0]
    /\ m_resumeQueue = <<>> /\ closed = TRUE /\ m_queue = <<>>
    /\ m_running = FALSE /\ stops = 0
    /\ pc = "stopped" /\ phase = "loop" /\ cur = None /\ back = "top" /\ chain = <<>>
    /\ wpc = [w \in Threads |-> "idle"] /\ wtask = [w \in Threads |-> None]
    /\ tokens = {} /\ fired = {}

-----------------------------------------------------------------------------
(* requestTaskResumeState(), on any thread *)

WGoto(w, label) == wpc' = [wpc EXCEPT ![w] = label]
\* It returns; on the owner completeTaskState() goes on.
WReturn(w, accepted) ==
    /\ WGoto(w, "idle")
    /\ wtask' = [wtask EXCEPT ![w] = None]
    /\ pc' = IF w # Owner THEN pc ELSE IF accepted THEN back ELSE "demote"

Waiting(t) == status[t] \in {"publishing", "suspended"}

\* A thread calls wakeUp() with a waker it was handed.
wakeUp(w) ==
    /\ w # Owner /\ wpc[w] = "idle"
    /\ \E k \in tokens :
        /\ tokens' = tokens \ {k}
        /\ fired' = fired \cup {t \in {k[1]} : Waiting(t) /\ count[t] = k[2]}
        /\ wtask' = [wtask EXCEPT ![w] = k[1]]
    /\ WGoto(w, "exchange")
    /\ UNCHANGED <<flags, task, queues, pc, owner, life>>

ExchangeQueued(w) ==
    /\ wpc[w] = "exchange"
    /\ LET t == wtask[w] IN
       IF m_done[t] \/ m_queued[t]
       THEN WReturn(w, FALSE) /\ UNCHANGED m_queued
       ELSE /\ m_queued' = [m_queued EXCEPT ![t] = TRUE]
            /\ WGoto(w, "claim")
            /\ UNCHANGED <<wtask, pc>>
    /\ UNCHANGED <<m_resume_queue_claimed, task, queues, owner, life, wakes>>

\* Mutant: a wake refused for the link leaves m_queued set.
ClaimLink_Forgets(w) ==
    /\ wpc[w] = "claim"
    /\ LET t == wtask[w] IN
       /\ IF m_resume_queue_claimed[t]
          THEN WReturn(w, FALSE)
          ELSE WGoto(w, "push") /\ UNCHANGED <<wtask, pc>>
       /\ m_resume_queue_claimed' = [m_resume_queue_claimed EXCEPT ![t] = TRUE]
    /\ UNCHANGED <<m_queued, task, queues, owner, life, wakes>>

\* TaskResumeQueue::push() claims the task's link.
ClaimLink(w) ==
    /\ wpc[w] = "claim"
    /\ LET t == wtask[w] IN
       /\ WGoto(w, IF m_resume_queue_claimed[t] THEN "reset" ELSE "push")
       /\ m_resume_queue_claimed' = [m_resume_queue_claimed EXCEPT ![t] = TRUE]
    /\ UNCHANGED <<m_queued, wtask, task, queues, pc, owner, life, wakes>>

\* ... and links it, unless the queue is closed.
push(w) ==
    /\ wpc[w] = "push"
    /\ \/ /\ ~closed
          /\ m_resumeQueue' = <<wtask[w]>> \o m_resumeQueue
          /\ WReturn(w, TRUE)
       \/ /\ closed
          /\ WGoto(w, "unclaim")
          /\ UNCHANGED <<m_resumeQueue, wtask, pc>>
    /\ UNCHANGED <<flags, closed, m_queue, task, owner, life, wakes>>

UnclaimLink(w) ==
    /\ wpc[w] = "unclaim"
    /\ m_resume_queue_claimed' = [m_resume_queue_claimed EXCEPT ![wtask[w]] = FALSE]
    /\ WGoto(w, "reset")
    /\ UNCHANGED <<m_queued, wtask, task, queues, pc, owner, life, wakes>>

\* The request was refused.
ResetQueued(w) ==
    /\ wpc[w] = "reset"
    /\ m_queued' = [m_queued EXCEPT ![wtask[w]] = FALSE]
    /\ WReturn(w, FALSE)
    /\ UNCHANGED <<m_resume_queue_claimed, task, queues, owner, life, wakes>>

RequestResume(w) ==
    ExchangeQueued(w) \/ ClaimLink(w) \/ push(w) \/ UnclaimLink(w) \/ ResetQueued(w)

-----------------------------------------------------------------------------
(* The owner: workerLoop() and drainResumeQueue() *)

Goto(label) == pc' = label
\* The owner is through with the task at hand.
LeaveTask == Goto(back) /\ cur' = None /\ back' = "top"

LoopTop ==
    /\ pc = "top"
    /\ Goto("drain")
    /\ phase' = IF m_running THEN "loop" ELSE "exit"
    /\ UNCHANGED <<flags, task, queues, cur, back, chain, life, wpc, wtask, wakes>>

\* takeAll() and reverse().
TakeAll ==
    /\ pc = "drain"
    /\ chain' = Reverse(m_resumeQueue)
    /\ m_resumeQueue' = <<>>
    /\ Goto("chain")
    /\ UNCHANGED <<flags, task, closed, m_queue, phase, cur, back, life, wpc, wtask, wakes>>

\* Resume the next task of the chain; after the chain look at m_queue or,
\* after the last drain, end the thread.
NextOfChain ==
    /\ pc = "chain"
    /\ IF chain # <<>>
       THEN /\ cur' = Head(chain) /\ chain' = Tail(chain) /\ back' = "chain"
            /\ Goto("resume")
       ELSE /\ Goto(IF phase = "last" THEN "stopped" ELSE "dequeue")
            /\ UNCHANGED <<cur, chain, back>>
    /\ UNCHANGED <<flags, task, queues, phase, life, wpc, wtask, wakes>>

DequeueTask ==
    /\ pc = "dequeue" /\ m_queue # <<>>
    /\ cur' = Head(m_queue) /\ m_queue' = Tail(m_queue)
    /\ back' = IF phase = "loop" THEN "top" ELSE "drain"
    /\ Goto("resume")
    /\ UNCHANGED <<flags, task, m_resumeQueue, closed, phase, chain, life, wpc, wtask, wakes>>

\* Mutant: the wait for a task of m_queue has no timeout.
FoundNone_Untimed ==
    /\ pc = "dequeue" /\ m_queue = <<>> /\ phase # "loop"
    /\ phase' = "last"
    /\ Goto("drain")
    /\ UNCHANGED <<flags, task, queues, cur, chain, back, life, wpc, wtask, wakes>>

\* The timed wait for a task is a loop turn that finds none.
FoundNone ==
    /\ pc = "dequeue" /\ m_queue = <<>>
    /\ phase' = IF phase = "loop" THEN "loop" ELSE "last"
    /\ Goto(IF phase = "loop" THEN "top" ELSE "drain")
    /\ UNCHANGED <<flags, task, queues, cur, chain, back, life, wpc, wtask, wakes>>

\* resumeTaskState() clears the flags one after the other, then resumes.
ClearQueued ==
    /\ pc = "resume"
    /\ IF m_done[cur]
       THEN LeaveTask /\ UNCHANGED m_queued
       ELSE /\ m_queued' = [m_queued EXCEPT ![cur] = FALSE]
            /\ Goto("unclaim")
            /\ UNCHANGED <<cur, back>>
    /\ UNCHANGED <<m_resume_queue_claimed, task, queues, phase, chain, life, wpc, wtask, wakes>>

ClearClaimed ==
    /\ pc = "unclaim"
    /\ m_resume_queue_claimed' = [m_resume_queue_claimed EXCEPT ![cur] = FALSE]
    /\ status' = [status EXCEPT ![cur] = "running"]
    /\ fired' = fired \ {cur}
    /\ Goto("run")
    /\ UNCHANGED <<m_queued, m_done, m_next, count, queues, owner, life, wpc, wtask, tokens>>

-----------------------------------------------------------------------------
(* The task at hand *)

Queued(t) == Cardinality({i \in 1..Len(m_resumeQueue) : m_resumeQueue[i] = t})
           + Cardinality({i \in 1..Len(chain) : chain[i] = t})

\* No waker of the task's earlier suspensions is unused, in use or, used while
\* the task ran, has put it in the resume queue.
Settled(t) ==
    /\ Queued(t) = 0
    /\ \A k \in tokens : k[1] # t
    /\ \A w \in Wakers : wtask[w] # t
MayWait(t) == Overlap \/ Settled(t)

\* It publishes its wakers, then its coroutine is suspended.
Publish ==
    /\ pc = "run" /\ status[cur] = "running" /\ count[cur] < Suspensions
    /\ MayWait(cur)
    /\ status' = [status EXCEPT ![cur] = "publishing"]
    /\ count' = [count EXCEPT ![cur] = @ + 1]
    /\ \E n \in 1..(IF cur \in Redundant THEN 2 ELSE 1) :
          tokens' = tokens \cup ({cur} \X {count[cur] + 1} \X (1..n))
    /\ UNCHANGED <<flags, m_done, m_next, queues, pc, owner, life, wpc, wtask, fired>>

Suspend ==
    /\ pc = "run" /\ status[cur] = "publishing"
    /\ status' = [status EXCEPT ![cur] = "suspended"]
    /\ LeaveTask
    /\ UNCHANGED <<flags, m_done, m_next, count, queues, phase, chain, life, wpc, wtask, wakes>>

\* co_yield true: scheduleDeferred() does not look at m_queued.
yield_value ==
    /\ pc = "run" /\ status[cur] = "running" /\ MayWait(cur)
    /\ m_queue' = Append(m_queue, cur)
    /\ status' = [status EXCEPT ![cur] = "yielded"]
    /\ LeaveTask
    /\ UNCHANGED <<flags, m_done, m_next, count, m_resumeQueue, closed, phase, chain,
                    life, wpc, wtask, wakes>>

\* co_await child: the child runs at once, on top of its parent.
AwaitChild ==
    /\ pc = "run" /\ status[cur] = "running" /\ MayWait(cur)
    /\ \E c \in Tasks :
        /\ status[c] = "new"
        /\ m_next' = [m_next EXCEPT ![c] = cur]
        /\ status' = [status EXCEPT ![cur] = "awaiting", ![c] = "running"]
        /\ cur' = c
    /\ UNCHANGED <<flags, m_done, count, queues, pc, phase, back, chain, life, wpc, wtask, wakes>>

\* completeTaskState(): the parent is resumed as a waker would do it.
Finish ==
    /\ pc = "run" /\ status[cur] = "running"
    /\ m_done' = [m_done EXCEPT ![cur] = TRUE]
    /\ status' = [status EXCEPT ![cur] = "done"]
    /\ IF m_next[cur] = None
       THEN LeaveTask /\ UNCHANGED <<wpc, wtask>>
       ELSE /\ WGoto(Owner, "exchange")
            /\ wtask' = [wtask EXCEPT ![Owner] = m_next[cur]]
            /\ cur' = m_next[cur]
            /\ Goto("continue")
            /\ UNCHANGED back
    /\ UNCHANGED <<flags, m_next, count, queues, phase, chain, life, wakes>>

\* A refused continuation becomes an ordinary task of the owner.
Demote ==
    /\ pc = "demote"
    /\ IF ~m_done[cur] /\ ~m_queued[cur]
       THEN /\ m_queued' = [m_queued EXCEPT ![cur] = TRUE]
            /\ m_queue' = Append(m_queue, cur)
       ELSE UNCHANGED <<m_queued, m_queue>>
    /\ LeaveTask
    /\ UNCHANGED <<m_resume_queue_claimed, task, m_resumeQueue, closed, phase, chain,
                    life, wpc, wtask, wakes>>

-----------------------------------------------------------------------------
(* Callers of the scheduler *)

schedule(t) ==
    /\ status[t] = "new"
    /\ m_queue' = Append(m_queue, t)
    /\ status' = [status EXCEPT ![t] = "scheduled"]
    /\ UNCHANGED <<flags, m_done, m_next, count, m_resumeQueue, closed, pc, owner, life,
                    wpc, wtask, wakes>>

start ==
    /\ pc = "stopped" /\ ~m_running /\ m_resumeQueue = <<>>
    /\ stops <= Stops
    /\ Overlap \/ \A w \in Wakers : wpc[w] \notin {"unclaim", "reset"}
    /\ m_running' = TRUE /\ closed' = FALSE
    /\ Goto("top") /\ phase' = "loop"
    /\ fired' = {}
    /\ UNCHANGED <<flags, task, m_resumeQueue, m_queue, cur, back, chain, stops,
                    wpc, wtask, tokens>>

\* stop() closes the resume queue before it ends the loop.
close ==
    /\ m_running /\ ~closed /\ stops < Stops
    /\ closed' = TRUE
    /\ UNCHANGED <<flags, task, m_resumeQueue, m_queue, pc, owner, life, wpc, wtask, wakes>>

stop ==
    /\ m_running /\ closed
    /\ m_running' = FALSE /\ stops' = stops + 1
    /\ UNCHANGED <<flags, task, queues, pc, owner, wpc, wtask, wakes>>

-----------------------------------------------------------------------------
WorkerStep ==
    LoopTop \/ TakeAll \/ NextOfChain \/ DequeueTask \/ FoundNone \/ ClearQueued \/ ClearClaimed
    \/ Suspend \/ Demote \/ RequestResume(Owner)
TaskStep == Publish \/ yield_value \/ AwaitChild \/ Finish

Next ==
    \/ WorkerStep \/ TaskStep
    \/ \E w \in Wakers : wakeUp(w) \/ RequestResume(w)
    \/ \E t \in Tasks : schedule(t)
    \/ start \/ close \/ stop

Spec == Init /\ [][Next]_vars

\* The worker and the threads inside a request make progress, a running
\* coroutine reaches its next suspension point, stop() is finished.
Fairness ==
    /\ WF_vars(WorkerStep \/ TaskStep)
    /\ \A w \in Wakers : WF_vars(RequestResume(w))
    /\ WF_vars(stop)
FairSpec == Spec /\ Fairness

-----------------------------------------------------------------------------
(* Properties *)

\* A task has one link, so it is in the resume queue or in the owner's chain at
\* most once: "the invariant is ensured by the m_queued arbitration of
\* requestTaskResumeState()" (TaskResumeQueue).
LinkedOnce == \A t \in Tasks : Queued(t) <= 1

Requesting(t) == \E w \in Threads : wtask[w] = t

\* After wakeUp() was called for the suspension a task is in, and the calls are
\* over, the task is on its way to run: merging two wakes in m_queued, and
\* refusing a late one for the link, loses none.  It is not so of a task that
\* waits anew while a late wake is under way (Overlap).  A scheduler that is
\* being stopped refuses wakes.
WakeOnItsWay ==
    \A t \in Tasks :
        status[t] = "suspended" /\ t \in fired /\ ~Requesting(t) /\ ~closed =>
            Queued(t) = 1 \/ cur = t \/ Contains(m_queue, t)

\* When the worker thread has ended, no accepted request and no scheduled
\* parent is left behind: a parent whose child is done has run, even when
\* stop() refused its continuation.
DrainedAtExit ==
    pc = "stopped" =>
        /\ m_resumeQueue = <<>> /\ chain = <<>>
        /\ \A t \in Tasks : status[t] = "awaiting" =>
              \E c \in Tasks : m_next[c] = t /\ ~m_done[c]

\* A wake is neither lost nor doubled, also when a suspension has two: the task
\* is linked once, is on its way to run when the calls are over, and is not left
\* behind when the worker thread ends (requestTaskResumeState,
\* resumeTaskState, workerLoop).
WakeIsKept == LinkedOnce /\ WakeOnItsWay /\ DrainedAtExit

\* A wake of a running scheduler is followed by the resumption, unless the
\* scheduler is stopped meanwhile.
WokenTaskRuns ==
    \A t \in Tasks : (t \in fired /\ m_running) ~> (t \notin fired \/ closed)
=============================================================================
