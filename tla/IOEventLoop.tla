----------------------------- MODULE IOEventLoop -----------------------------
(***************************************************************************)
(* An IO scheduler (EpollScheduler): its event loop thread with the ready  *)
(* queues of IOSchedulerWorkerState and the passes of SchedulerCore, the   *)
(* WakeCoordinator, threads that schedule and wake tasks from outside, and *)
(* the thread that stops and restarts the scheduler.  Stealing is off, as  *)
(* every IO scheduler sets it, so local_ring is a stack of the loop thread.*)
(*                                                                         *)
(* What the loop does between two accesses to shared state is part of the  *)
(* step before.  polls_since_inject is left open: a drain may always be    *)
(* due.  Two wakes of one suspension are merged before they come here (see *)
(* ComputeScheduler), so a task is made ready once per suspension.         *)
(***************************************************************************)
EXTENDS Naturals, Sequences, FiniteSets, SequencesExt, FiniteSetsExt

CONSTANTS Tasks, Remotes,  \* tasks of this scheduler, other threads
          kCapacity,       \* of local_ring
          lifo_poll_limit,
          max_passes,      \* local_followup_pass_limit
          Workloads,       \* the kinds of use: a subset of Workload
          None

\* tasks and threads are those there are (any other task is done); batch_size
\* is that of a drain, and the ready budget of a pass; yielding are the tasks
\* that co_yield true, waking those that schedule or wake tasks of this
\* scheduler, awaiting those that a timer or an IO completion may wake; if
\* faulty the injection queue may be out of memory; stop() is called up to stops
\* times (bound).
Workload == [tasks: SUBSET Tasks, threads: SUBSET Remotes, batch_size: Nat \ {0},
             yielding: SUBSET Tasks, waking: SUBSET Tasks, awaiting: SUBSET Tasks,
             faulty: BOOLEAN, stops: Nat]

ASSUME LoopAssumption ==
    /\ {kCapacity, lifo_poll_limit, max_passes} \subseteq Nat \ {0}
    /\ Workloads \subseteq Workload /\ None \notin Tasks

VARIABLES ready_lifo_slot, local_ring,   \* the top of the stack is the last
          lifo_enabled, consecutive_lifo_polls,
          ready_inject_queue,            \* oldest first
          ready_resume_queue, closed,    \* newest first; its closed bit
          ready_resume_local,            \* oldest first
          prefer_resume_on_single_slot,
          injected_outstanding,
          m_sleeping, m_wakeup_pending,
          eventfd,                       \* its counter is not zero
          m_running,
          pc, current,       \* the loop, and the task it runs
          pass, drain,       \* locals of a ready pass, of drainInjected()
          stopping, stops,   \* the thread that calls stop() and start()
          rpc, holds,        \* each other thread, the task it schedules
          state,             \* of a task: fresh, parked, ready, running, done
          workload           \* chosen once

owner == <<ready_lifo_slot, local_ring, lifo_enabled, consecutive_lifo_polls,
           ready_resume_local, prefer_resume_on_single_slot>>
shared == <<ready_inject_queue, ready_resume_queue, injected_outstanding>>
wakeup == <<m_sleeping, m_wakeup_pending, eventfd>>
lifecycle == <<closed, m_running, stopping, stops, workload>>
loop == <<pc, current, pass, drain>>
remotes == <<rpc, holds>>
vars == <<owner, shared, wakeup, lifecycle, loop, remotes, state>>

batch_size == workload.batch_size

NoPass == [ran |-> 0, burst |-> FALSE, credit |-> 0, drained |-> FALSE, number |-> 0,
           final |-> FALSE]
NoDrain == [remaining |-> 0, pending |-> FALSE, count |-> 0, resumes |-> 0, last |-> FALSE]

Init ==
    /\ ready_lifo_slot = None /\ local_ring = <<>>
    /\ lifo_enabled = TRUE /\ consecutive_lifo_polls = 0
    /\ ready_inject_queue = <<>> /\ ready_resume_queue = <<>>
    /\ ready_resume_local = <<>> /\ closed = FALSE
    /\ prefer_resume_on_single_slot = TRUE /\ injected_outstanding = 0
    /\ m_sleeping = FALSE /\ m_wakeup_pending = FALSE /\ eventfd = FALSE
    /\ m_running = TRUE /\ stopping = "no" /\ stops = 0
    /\ pc = "top" /\ current = None /\ pass = NoPass /\ drain = NoDrain
    /\ rpc = [r \in Remotes |-> [at |-> "idle", was_empty |-> FALSE]]
    /\ holds = [r \in Remotes |-> None]
    /\ workload \in Workloads
    /\ state = [t \in Tasks |-> IF t \in workload.tasks THEN "fresh" ELSE "done"]

hasLocalWork == ready_lifo_slot # None \/ local_ring # <<>>
hasPendingInjected == injected_outstanding > 0
hasPendingResume == ready_resume_local # <<>> \/ ready_resume_queue # <<>>
hasPendingWork == hasLocalWork \/ hasPendingInjected
remainingCapacity == kCapacity - Len(local_ring)

-----------------------------------------------------------------------------
(* schedule() and scheduleResume() from another thread: a fresh task goes   *)
(* through the injection queue, a parked one through the resume queue.      *)

Goto(r, where) ==
    rpc' = [rpc EXCEPT ![r] = [at |-> where, was_empty |-> @.was_empty /\ where = "request"]]

fetch_add(r) ==
    /\ rpc[r].at = "idle"
    /\ \E t \in Tasks :
          /\ state[t] \in {"fresh", "parked"}
          /\ holds' = [holds EXCEPT ![r] = t]
          /\ rpc' = [rpc EXCEPT ![r] = [at |-> IF state[t] = "fresh" THEN "enqueue" ELSE "push",
                                        was_empty |-> injected_outstanding = 0]]
          /\ state' = [state EXCEPT ![t] = "ready"]
    /\ injected_outstanding' = injected_outstanding + 1
    /\ UNCHANGED <<owner, ready_inject_queue, ready_resume_queue, wakeup, lifecycle, loop>>

enqueue(r) ==
    /\ rpc[r].at = "enqueue"
    /\ \/ /\ ready_inject_queue' = Append(ready_inject_queue, holds[r])
          /\ holds' = [holds EXCEPT ![r] = None]
          /\ Goto(r, "request")
       \/ /\ workload.faulty
          /\ Goto(r, "failed")
          /\ UNCHANGED <<ready_inject_queue, holds>>
    /\ UNCHANGED <<owner, ready_resume_queue, injected_outstanding, wakeup, lifecycle,
                   loop, state>>

push(r) ==
    /\ rpc[r].at = "push"
    /\ IF closed
       THEN Goto(r, "refused") /\ UNCHANGED <<ready_resume_queue, holds>>
       ELSE /\ ready_resume_queue' = <<holds[r]>> \o ready_resume_queue
            /\ holds' = [holds EXCEPT ![r] = None]
            /\ Goto(r, "request")
    /\ UNCHANGED <<owner, ready_inject_queue, injected_outstanding, wakeup, lifecycle,
                   loop, state>>

\* scheduleResume() takes the count back and fails, and the task stays parked;
\* so does scheduleInjected(), which releases the task.
Refused(r) ==
    /\ rpc[r].at \in {"refused", "failed"}
    /\ injected_outstanding' = injected_outstanding - 1
    /\ state' = [state EXCEPT ![holds[r]] = IF rpc[r].at = "refused" THEN "parked" ELSE "done"]
    /\ holds' = [holds EXCEPT ![r] = None]
    /\ Goto(r, "idle")
    /\ UNCHANGED <<owner, ready_inject_queue, ready_resume_queue, wakeup, lifecycle, loop>>

\* The sleeping flag alone does not decide: the queue may have been empty.
requestWake(r) ==
    /\ rpc[r].at = "request"
    /\ Goto(r, IF rpc[r].was_empty \/ m_sleeping THEN "exchange" ELSE "idle")
    /\ UNCHANGED <<owner, shared, wakeup, lifecycle, loop, holds, state>>

ExchangePending(r) ==
    /\ rpc[r].at = "exchange"
    /\ m_wakeup_pending' = TRUE
    /\ Goto(r, IF m_wakeup_pending THEN "idle" ELSE "notify")
    /\ UNCHANGED <<owner, shared, m_sleeping, eventfd, lifecycle, loop, holds, state>>

notify(r) ==
    /\ rpc[r].at = "notify"
    /\ eventfd' = TRUE
    /\ Goto(r, "idle")
    /\ UNCHANGED <<owner, shared, m_sleeping, m_wakeup_pending, lifecycle, loop, holds, state>>

Proceed(r) == \/ enqueue(r) \/ push(r) \/ Refused(r) \/ requestWake(r)
              \/ ExchangePending(r) \/ notify(r)

-----------------------------------------------------------------------------
(* Scheduling on the loop's own thread.                                     *)

\* `after' is the tasks' state once t is queued; a task there is no memory for
\* is released.
fallbackToInject(t, after) ==
    \/ /\ injected_outstanding' = injected_outstanding + 1
       /\ ready_inject_queue' = Append(ready_inject_queue, t)
       /\ state' = after
    \/ /\ workload.faulty
       /\ state' = [after EXCEPT ![t] = "done"]
       /\ UNCHANGED <<ready_inject_queue, injected_outstanding>>

enqueueDeferred(t, after) ==
    IF remainingCapacity = 0
    THEN fallbackToInject(t, after) /\ UNCHANGED local_ring
    ELSE /\ local_ring' = Append(local_ring, t)
         /\ state' = after
         /\ UNCHANGED <<ready_inject_queue, injected_outstanding>>

\* The task that was in the slot goes to the ring.
scheduleLocal_Replace(t) ==
    /\ ready_lifo_slot' = t
    /\ UNCHANGED <<local_ring, ready_inject_queue, injected_outstanding>>
    /\ UNCHANGED <<lifo_enabled, consecutive_lifo_polls, ready_resume_local,
                   prefer_resume_on_single_slot, ready_resume_queue>>
    /\ state' = [state EXCEPT ![t] = "ready"]
scheduleLocal(t) ==
    /\ LET after == [state EXCEPT ![t] = "ready"]
       IN IF lifo_enabled
          THEN /\ ready_lifo_slot' = t
               /\ IF ready_lifo_slot # None
                  THEN enqueueDeferred(ready_lifo_slot, after)
                  ELSE /\ state' = after
                       /\ UNCHANGED <<local_ring, ready_inject_queue, injected_outstanding>>
          ELSE enqueueDeferred(t, after) /\ UNCHANGED ready_lifo_slot
    /\ UNCHANGED <<lifo_enabled, consecutive_lifo_polls, ready_resume_local,
                   prefer_resume_on_single_slot, ready_resume_queue>>

-----------------------------------------------------------------------------
(* runLocalFollowupPasses(): ready passes until the work or a limit is      *)
(* exhausted.                                                               *)

StartPass(number, final) ==
    /\ pc' = "collect"
    /\ pass' = [NoPass EXCEPT !.burst = ~hasLocalWork, !.number = number, !.final = final]

EndPasses ==
    /\ pc' = IF pass.final THEN "final" ELSE "sleep"
    /\ pass' = NoPass

\* drainInjected() reads the room in the ring, and whether a resume waits.
BeginDrain(last) ==
    IF remainingCapacity = 0
    THEN pc' = "pop" /\ UNCHANGED drain
    ELSE /\ pc' = "dequeue"
         /\ drain' = [NoDrain EXCEPT !.remaining = remainingCapacity,
                                     !.pending = hasPendingResume, !.last = last]

collectRemote ==
    /\ pc = "collect"
    /\ \/ BeginDrain(FALSE)
       \/ /\ hasLocalWork /\ ~hasPendingInjected
          /\ pc' = "pop" /\ UNCHANGED drain
    /\ UNCHANGED <<owner, shared, wakeup, lifecycle, current, pass, remotes, state>>

\* One slot is kept for a waiting resume; a single slot is taken in turn.
normal_capacity_Reserve == drain.remaining - 1
normal_capacity ==
    CASE ~drain.pending -> drain.remaining
      [] drain.pending /\ drain.remaining > 1 -> drain.remaining - 1
      [] OTHER -> IF prefer_resume_on_single_slot THEN 0 ELSE drain.remaining

\* The batch is filled in backwards, so that the oldest ends on top.
try_dequeue_bulk ==
    LET count == Min({normal_capacity, batch_size, Len(ready_inject_queue)})
    IN  /\ pc = "dequeue"
        /\ local_ring' = local_ring \o Reverse(SubSeq(ready_inject_queue, 1, count))
        /\ ready_inject_queue' = SubSeq(ready_inject_queue, count + 1, Len(ready_inject_queue))
        /\ drain' = [drain EXCEPT !.count = count]
        /\ pc' = IF count > 0 THEN "subtract" ELSE "take"
        /\ UNCHANGED <<ready_lifo_slot, lifo_enabled, consecutive_lifo_polls,
                       ready_resume_local, prefer_resume_on_single_slot,
                       ready_resume_queue, injected_outstanding, wakeup, lifecycle,
                       current, pass, remotes, state>>

\* What follows drainInjected(): the wake is dropped if anything was drained;
\* a second drain of a pass that finds nothing ends the pass.
Drained(total) ==
    IF total > 0
    THEN pc' = "collected" /\ UNCHANGED <<pass, drain>>
    ELSE /\ drain' = NoDrain
         /\ IF drain.last THEN EndPasses ELSE pc' = "pop" /\ UNCHANGED pass

SubtractCount ==
    /\ pc = "subtract"
    /\ injected_outstanding' = injected_outstanding - drain.count
    /\ pc' = "take"
    /\ UNCHANGED <<owner, ready_inject_queue, ready_resume_queue, wakeup, lifecycle,
                   current, pass, drain, remotes, state>>

\* takeAll() once the batch of before is used up; oldest first, on top.
takeAll ==
    LET room  == drain.remaining - drain.count
        fetch == room > 0 /\ ready_resume_local = <<>>
        fifo  == IF fetch THEN Reverse(ready_resume_queue) ELSE ready_resume_local
        count == Min({room, Len(fifo)})
    IN  /\ pc = "take"
        /\ ready_resume_queue' = IF fetch THEN <<>> ELSE ready_resume_queue
        /\ local_ring' = local_ring \o Reverse(SubSeq(fifo, 1, count))
        /\ ready_resume_local' = SubSeq(fifo, count + 1, Len(fifo))
        /\ prefer_resume_on_single_slot' =
              IF drain.remaining = 1 /\ drain.pending /\ count + drain.count > 0
              THEN count = 0 ELSE prefer_resume_on_single_slot
        /\ IF count > 0
           THEN /\ pc' = "subtractResumes" /\ drain' = [drain EXCEPT !.resumes = count]
                /\ UNCHANGED pass
           ELSE Drained(drain.count)
        /\ UNCHANGED <<ready_lifo_slot, lifo_enabled, consecutive_lifo_polls,
                       ready_inject_queue, injected_outstanding, wakeup, lifecycle,
                       current, remotes, state>>

SubtractResumes ==
    /\ pc = "subtractResumes"
    /\ injected_outstanding' = injected_outstanding - drain.resumes
    /\ Drained(drain.count + drain.resumes)
    /\ UNCHANGED <<owner, ready_inject_queue, ready_resume_queue, wakeup, lifecycle,
                   current, remotes, state>>

onRemoteCollected ==
    /\ pc = "collected"
    /\ m_sleeping' = FALSE /\ m_wakeup_pending' = FALSE
    /\ pass' = [pass EXCEPT !.drained = TRUE,
                            !.credit = IF pass.burst THEN @ + drain.count + drain.resumes ELSE @]
    /\ drain' = NoDrain
    /\ pc' = "pop"
    /\ UNCHANGED <<owner, shared, eventfd, lifecycle, current, remotes, state>>

Running(t) == [state EXCEPT ![t] = "running"]
Run(t) == pc' = "run" /\ current' = t

\* prepareForRun(): at the limit the task of the slot goes to the ring first.
prepareForRun ==
    lifo_enabled /\ ready_lifo_slot # None /\ consecutive_lifo_polls >= lifo_poll_limit

PopLifo ==
    /\ pc = "pop" /\ ready_lifo_slot # None /\ ~prepareForRun
    /\ ready_lifo_slot' = None
    /\ consecutive_lifo_polls' = consecutive_lifo_polls + 1
    /\ Run(ready_lifo_slot) /\ state' = Running(ready_lifo_slot)
    /\ UNCHANGED <<local_ring, lifo_enabled, ready_resume_local,
                   prefer_resume_on_single_slot, shared, wakeup, lifecycle, pass, drain, remotes>>

PopDeferred ==
    /\ pc = "pop" /\ prepareForRun
    /\ IF remainingCapacity = 0
       THEN /\ fallbackToInject(ready_lifo_slot, Running(Last(local_ring)))
            /\ local_ring' = Front(local_ring)
            /\ Run(Last(local_ring))
       ELSE /\ Run(ready_lifo_slot)  \* pop_back() takes what push_back() put
            /\ state' = Running(ready_lifo_slot)
            /\ UNCHANGED <<local_ring, ready_inject_queue, injected_outstanding>>
    /\ ready_lifo_slot' = None /\ lifo_enabled' = TRUE /\ consecutive_lifo_polls' = 0
    /\ UNCHANGED <<ready_resume_local, prefer_resume_on_single_slot, ready_resume_queue,
                   wakeup, lifecycle, pass, drain, remotes>>

PopRing ==
    /\ pc = "pop" /\ ready_lifo_slot = None /\ local_ring # <<>>
    /\ local_ring' = Front(local_ring)
    /\ lifo_enabled' = TRUE /\ consecutive_lifo_polls' = 0
    /\ Run(Last(local_ring)) /\ state' = Running(Last(local_ring))
    /\ UNCHANGED <<ready_lifo_slot, ready_resume_local, prefer_resume_on_single_slot,
                   shared, wakeup, lifecycle, pass, drain, remotes>>

PopNothing ==
    /\ pc = "pop" /\ ~hasLocalWork
    /\ IF hasPendingInjected THEN pc' = "collect" /\ UNCHANGED drain ELSE BeginDrain(TRUE)
    /\ UNCHANGED <<owner, shared, wakeup, lifecycle, current, pass, remotes, state>>

\* The task wakes a parked task, or schedules a new one, on its own thread.
WakesLocal ==
    /\ pc = "run" /\ current \in workload.waking
    /\ \E t \in Tasks : state[t] \in {"fresh", "parked"} /\ scheduleLocal(t)
    /\ UNCHANGED <<wakeup, lifecycle, loop, remotes>>

\* The task returns to the pass: after the budget is spent, and the credit for
\* what was drained into an idle loop, the pass is over.
Returned ==
    LET ran    == Min({pass.ran + 1, batch_size})
        credit == IF pass.credit > 0 THEN pass.credit - 1 ELSE 0
    IN  IF ran >= batch_size /\ (~pass.burst \/ credit = 0)
        THEN IF ~pass.drained /\ hasLocalWork /\ pass.number + 1 < max_passes
             THEN StartPass(pass.number + 1, pass.final)
             ELSE EndPasses
        ELSE /\ pc' = "collect"
             /\ pass' = [pass EXCEPT !.ran = ran, !.credit = credit]

Suspends ==
    /\ pc = "run"
    /\ current' = None
    /\ \/ /\ \E s \in {"parked", "done"} : state' = [state EXCEPT ![current] = s]
          /\ UNCHANGED <<ready_inject_queue, injected_outstanding>>
       \/ /\ current \in workload.yielding  \* scheduleLocalDeferred()
          /\ fallbackToInject(current, [state EXCEPT ![current] = "ready"])
    /\ Returned
    /\ UNCHANGED <<owner, ready_resume_queue, wakeup, lifecycle, drain, remotes>>

-----------------------------------------------------------------------------
(* runIOSchedulerEventLoop()                                                *)

Top ==
    /\ pc = "top"
    /\ IF m_running THEN StartPass(0, FALSE) ELSE pc' = "final" /\ UNCHANGED pass
    /\ UNCHANGED <<owner, shared, wakeup, lifecycle, current, drain, remotes, state>>

\* A timer that is due wakes its task on this thread.
tick ==
    /\ pc = "sleep"
    /\ \E t \in workload.awaiting : state[t] = "parked" /\ scheduleLocal(t)
    /\ UNCHANGED <<wakeup, lifecycle, loop, remotes>>

markSleeping ==
    /\ pc = "sleep"
    /\ m_sleeping' = TRUE
    /\ pc' = "recheck"
    /\ UNCHANGED <<owner, shared, m_wakeup_pending, eventfd, lifecycle, current, pass,
                   drain, remotes, state>>

Recheck_Local ==
    /\ pc = "recheck"
    /\ pc' = IF hasLocalWork THEN "awake" ELSE "poll"
    /\ UNCHANGED <<owner, shared, wakeup, lifecycle, current, pass, drain, remotes, state>>
Recheck ==
    /\ pc = "recheck"
    /\ pc' = IF hasPendingWork THEN "awake" ELSE "poll"
    /\ UNCHANGED <<owner, shared, wakeup, lifecycle, current, pass, drain, remotes, state>>

\* epoll_wait() returns for the eventfd, for completed operations, or because
\* half a tick has passed.  Completions only touch what the loop owns, so those
\* that are reported together with the eventfd may be handled after it.
PollEventfd ==
    /\ pc = "poll" /\ eventfd
    /\ eventfd' = FALSE
    /\ pc' = "cancel"
    /\ UNCHANGED <<owner, shared, m_sleeping, m_wakeup_pending, lifecycle, current, pass,
                   drain, remotes, state>>

PollCompletion ==
    /\ pc \in {"poll", "events"}
    /\ \E t \in workload.awaiting : state[t] = "parked" /\ scheduleLocal(t)
    /\ pc' = "events"
    /\ UNCHANGED <<wakeup, lifecycle, current, pass, drain, remotes>>

EndEvents ==
    /\ pc = "events"
    /\ pc' = "awake"
    /\ UNCHANGED <<owner, shared, wakeup, lifecycle, current, pass, drain, remotes, state>>

PollTimeout ==
    /\ pc = "poll" /\ ~eventfd
    /\ pc' = "awake"
    /\ UNCHANGED <<owner, shared, wakeup, lifecycle, current, pass, drain, remotes, state>>

\* Only after the read: a wake that is requested in between is merged with one
\* that is already consumed, and its task is found by the next pass.
cancelPendingWake ==
    /\ pc = "cancel"
    /\ m_wakeup_pending' = FALSE
    /\ pc' = "events"
    /\ UNCHANGED <<owner, shared, m_sleeping, eventfd, lifecycle, current, pass, drain,
                   remotes, state>>

markAwake ==
    /\ pc = "awake"
    /\ m_sleeping' = FALSE
    /\ pc' = "top"
    /\ UNCHANGED <<owner, shared, m_wakeup_pending, eventfd, lifecycle, current, pass,
                   drain, remotes, state>>

\* After stop(): what was accepted is run before the thread ends.
FinalDrain ==
    /\ pc = "final"
    /\ IF hasPendingWork THEN StartPass(0, TRUE) ELSE pc' = "exited" /\ UNCHANGED pass
    /\ UNCHANGED <<owner, shared, wakeup, lifecycle, current, drain, remotes, state>>

LoopStep ==
    \/ Top \/ collectRemote \/ try_dequeue_bulk \/ SubtractCount \/ takeAll
    \/ SubtractResumes \/ onRemoteCollected
    \/ PopLifo \/ PopDeferred \/ PopRing \/ PopNothing \/ Suspends
    \/ markSleeping \/ Recheck \/ PollEventfd \/ cancelPendingWake \/ EndEvents
    \/ markAwake \/ FinalDrain

-----------------------------------------------------------------------------
(* stop() and start(), called by one thread.                                *)

closeResumeAdmission ==
    /\ stopping = "no" /\ stops < workload.stops
    /\ closed' = TRUE
    /\ stopping' = "running" /\ stops' = stops + 1
    /\ UNCHANGED <<owner, shared, wakeup, m_running, loop, remotes, state, workload>>

StopRunning ==
    /\ stopping = "running"
    /\ m_running' = FALSE
    /\ stopping' = "force"
    /\ UNCHANGED <<owner, shared, wakeup, closed, stops, loop, remotes, state, workload>>

forceWake_Silent ==
    /\ stopping = "force"
    /\ stopping' = "join"
    /\ UNCHANGED <<owner, shared, wakeup, closed, m_running, stops, loop, remotes, state,
                   workload>>
forceWake ==
    /\ stopping = "force"
    /\ eventfd' = TRUE
    /\ stopping' = "join"
    /\ UNCHANGED <<owner, shared, m_sleeping, m_wakeup_pending, closed, m_running, stops,
                   loop, remotes, state, workload>>

Join ==
    /\ stopping = "join" /\ pc = "exited"
    /\ stopping' = "stopped"
    /\ UNCHANGED <<owner, shared, wakeup, closed, m_running, stops, loop, remotes, state,
                   workload>>

\* start() again: reopenResumeAdmission() refuses while a resume is left over.
start ==
    /\ stopping = "stopped"
    /\ ~hasPendingResume
    /\ m_running' = TRUE /\ closed' = FALSE
    /\ stopping' = "no"
    /\ pc' = "top"
    /\ UNCHANGED <<owner, shared, wakeup, stops, current, pass, drain, remotes, state,
                   workload>>

StopStep == closeResumeAdmission \/ StopRunning \/ forceWake \/ Join \/ start

Next == \/ \E r \in workload.threads : fetch_add(r) \/ Proceed(r)
        \/ LoopStep \/ WakesLocal \/ tick \/ PollCompletion \/ PollTimeout
        \/ StopStep

Spec == Init /\ [][Next]_vars

\* The loop thread and a thread inside schedule() or stop() go on; nobody has
\* to schedule, to wake or to stop anything, and no timeout of epoll_wait() is
\* counted on.
FairSpec ==
    /\ Spec
    /\ WF_vars(LoopStep)
    /\ \A r \in Remotes : WF_vars(Proceed(r))
    /\ WF_vars(StopRunning \/ forceWake \/ Join)

-----------------------------------------------------------------------------
(* Properties                                                               *)

\* Every variable has a value of its type; the count of waiting remote tasks
\* never wraps below zero, the ring never holds more than kCapacity.
TypeOK ==
    /\ ready_lifo_slot \in Tasks \cup {None} /\ current \in Tasks \cup {None}
    /\ \A q \in {local_ring, ready_inject_queue, ready_resume_queue, ready_resume_local} :
          q \in BoundedSeq(Tasks, Cardinality(Tasks))
    /\ Len(local_ring) <= kCapacity
    /\ injected_outstanding \in Nat
    /\ consecutive_lifo_polls \in 0 .. lifo_poll_limit
    /\ {lifo_enabled, prefer_resume_on_single_slot, m_sleeping, m_wakeup_pending,
        eventfd, m_running, closed} \subseteq BOOLEAN
    /\ \A r \in Remotes :
          /\ rpc[r].at \in {"idle", "enqueue", "push", "refused", "failed", "request",
                            "exchange", "notify"}
          /\ holds[r] \in Tasks \cup {None}
    /\ \A t \in Tasks : state[t] \in {"fresh", "parked", "ready", "running", "done"}
    /\ pass.credit \in 0 .. Cardinality(Tasks) /\ pass.ran \in 0 .. batch_size

Places(t) ==
    (IF ready_lifo_slot = t THEN 1 ELSE 0)
    + Cardinality({i \in DOMAIN local_ring : local_ring[i] = t})
    + Cardinality({i \in DOMAIN ready_inject_queue : ready_inject_queue[i] = t})
    + Cardinality({i \in DOMAIN ready_resume_queue : ready_resume_queue[i] = t})
    + Cardinality({i \in DOMAIN ready_resume_local : ready_resume_local[i] = t})
    + Cardinality({r \in Remotes : holds[r] = t})

\* A task that was made ready is in exactly one queue, or in the hand of the
\* thread that schedules it, and no other task is: moving tasks between the
\* slot, the ring and the remote queues neither loses nor doubles one.
ReadyOnce ==
    \A t \in Tasks : Places(t) = IF state[t] = "ready" THEN 1 ELSE 0

\* injected_outstanding, which hasPendingWork() trusts before the loop sleeps
\* or ends, never falls short of what is in the remote queues or on its way.
CountCovers ==
    injected_outstanding >=
        Len(ready_inject_queue) + Len(ready_resume_queue) + Len(ready_resume_local)
        + Cardinality({r \in Remotes : holds[r] # None})

\* The queues hold each ready task once, and the count the loop trusts covers
\* what other threads have put there.
QueuesSound == ReadyOnce /\ CountCovers

\* When the loop waits in epoll_wait() and a task is in a remote queue, the
\* eventfd is readable or a thread is certain to make it so: no wake is merged
\* into one that was already consumed.
NoLostWake ==
    pc = "poll" /\ (ready_inject_queue # <<>> \/ hasPendingResume) =>
        \/ eventfd
        \/ \E r \in Remotes : rpc[r].at = "notify"
        \/ ~m_wakeup_pending /\ \E r \in Remotes : rpc[r].at \in {"request", "exchange"}

\* The event loop thread ends only after every accepted resume, and all that is
\* in the local queues, has run: scheduleResume() that returned true is kept,
\* and start() finds the resume queue empty.
DrainedAtExit == pc = "exited" => ~hasPendingResume /\ ~hasLocalWork

\* A wake that was accepted reaches a loop that sleeps or is about to end.
AcceptedIsKept == NoLostWake /\ DrainedAtExit

\* A task that stays ready for ever does so only because the loop runs other
\* tasks for ever or has ended: it is never left in a queue by a loop that
\* sleeps or spins.
NotForgotten ==
    \A t \in Tasks : <>[](state[t] = "ready") => []<>(pc \in {"run", "exited"})

\* stop() requests the exit of the event loop and its thread ends: it hangs for
\* ever only if other threads go on for ever with wakes that are refused or
\* tasks that do not fit, each of which raises injected_outstanding for a moment.
StopEnds ==
    <>[](stopping = "join") => []<>(\E r \in Remotes : rpc[r].at \in {"refused", "failed"})

\* Once no other thread schedules anything, every ready task runs at last:
\* deferred and injected tasks are handled oldest first, and too many hits of
\* the LIFO slot in a row fall back to the queue.
ReadyTaskRuns ==
    <>[](\A r \in Remotes : rpc[r].at = "idle")
        => \A t \in Tasks : state[t] = "ready" ~> state[t] # "ready"

\* Once no other thread schedules anything, every ready pass ends: its budget
\* leaves the remaining tasks to later passes, and the loop comes back to its
\* timers, to epoll_wait() and to m_running.
PassEnds ==
    <>[](\A r \in Remotes : rpc[r].at = "idle")
        => (pc = "collect" ~> pc \in {"sleep", "final"})

=============================================================================
