# TLA+ verification of galay

galay is a C++23 framework for asynchronous network programs. Coroutines (`Task`) run on schedulers;
libraries for HTTP/1, HTTP/2, WebSocket, RPC, MCP, TLS, Redis, MySQL, PostgreSQL, MongoDB, etcd and
tracing are built on one kernel, and C bindings are built on those libraries. This directory holds TLA+
specifications of the kernel's concurrent parts, of the connection pools, the circuit breaker and the managed RPC
client, and of HTTP/2 connections, the TLC configurations that check them, and TLAPS proofs.

Paths below are relative to `src/src/cpp/galay-kernel/` unless they say otherwise. `PROJECT.json` maps each
definition to the lines it models and lists runs, mutants, hazards, findings and theorems.

## The system

| Part | Where | State it owns | Concurrency |
|---|---|---|---|
| task and waker | `core/task.*`, `core/waker.*` | `m_queued`, `m_resume_queue_claimed`, `m_done`, continuation | any thread wakes, the owner resumes |
| compute scheduler | `core/compute_scheduler.*` | a blocking queue of scheduled tasks and an intrusive resume queue | one worker, any number of producers |
| IO scheduler | `core/io_scheduler.hpp`, `core/scheduler_core.h`, `core/wake_coordinator.h`, `core/sched_loop.hpp`, `core/{epoll,uring,kqueue}_scheduler.*` | LIFO slot, ring, inject queue, resume queue, deferred tasks, eventfd, timers | one loop thread, remote producers |
| timing wheel | `common/timer_manager.hpp` | five wheels of timers | loop thread only |
| timer thread | `common/timer_manager_mt.hpp`, `core/timer_scheduler.*` | a pending queue before the same wheels | process-wide thread |
| timed wait | `core/timeout.hpp` | completion word, wake gate | operation, timer and awaiter race |
| channels | `concurrency/{mpmc,mpsc,spsc}/*` | rings or queues with suspended coroutines | lock-free |
| AsyncMutex, AsyncWaiter | `async/async_mutex.h`, `async/async_waiter.h` | a flag and a waiter queue; one waiter | lock-free |
| blocking executor | `core/blocking_executor.*` | a pool of threads | mutex and condition variable |
| reactors, IO controllers | `core/*_reactor.*`, `core/io_controller.hpp` | registered awaitables per handle | loop thread |
| Runtime | `core/runtime.*` | the schedulers and their life | start and stop |
| utilities | `../galay-utils` | circuit breaker, rate limiters, caches, ring buffers | atomics or none |
| database clients | `../galay-redis`, `../galay-mysql`, `../galay-postgres`, `../galay-mongo`, `../galay-etcd` | connection pools, codecs | lock-free pools |
| protocols | `../galay-http`, `../galay-http2`, `../galay-ws`, `../galay-rpc`, `../galay-mcp`, `../galay-ssl` | streams, windows, pending calls | a few coroutines per connection |
| tracing | `../galay-tracing` | a queue of spans and its export thread | producers and one worker |
| C bindings | `src/src/c/*` | handles on the above | as the C++ part |

How they interact: an awaitable registers a `Waker` with whatever will complete it (a channel, a mutex, the
reactor) and may carry a timer. Completion and timer meet in the timed wait, which lets one of them wake the
task. The wake goes through the task's flags into the resume queue of the scheduler that owns the task, and
the scheduler's loop resumes the coroutine. The modules follow this path; each replaces its neighbours by what
they may do to it, and says so in its header. The libraries' modules treat the kernel in the same way: a
coroutine step goes from one suspension to the next, and a wake is a task that may run again.

## Modules

**TimedAwait** is the abstract promise of `co_await x.timeout(t)`: the wait is decided once, by the operation or
by the timer, and the coroutine is told that decision after it was taken.

**TimeoutTimer** is the code that keeps it. `m_completion` and `m_flag` are those of `TimeoutTimer`; `m_state`
and `m_waker` those of `DeferredWaker`. The awaiter goes through `await_suspend` (register, publish, add the
timer, arm) and `await_resume`; each thread of `Ops` may try to begin, commit or abort the operation; the timer
fires whenever it is in the wheel. `requestWake` is three steps since it copies the waker between a load and an
exchange. `ImplementsTimedAwait` is the refinement mapping.

**MpmcBoundedChannel** models the whole channel: reservation of a position and publication of its slot are
separate steps; the pump is run by whoever sets its bit; waiters commit through the completion word of the timed
wait. `LastPosition` stands for the 2^63 - 1 positions of the cursor, so that exhaustion is reached.

**AsyncMutex** has one program counter per task through `lock`, the queue, the hand-over loop of `unlock` and,
for the tasks in `TimedTasks`, the timer around it. `OneThread` says whether tasks and timers share a thread; then a
task runs undisturbed from one suspension to the next. Both are chosen once, in `Init`, from `Timings` and
`Threadings`, so that one run covers every combination.

**AsyncWaiter** covers the form with a value and the void form, a wait with and without timeout, and any number
of notifiers. Plain members are accessed in steps of their own, so that a data race is two enabled accesses.

**ComputeScheduler** joins the task's flags (`requestTaskResumeState`, `resumeTaskState`), the resume queue with
its closed bit, the worker loop, `stop`/`start` and completion with a continuation. One suspension hands out one waker
behind a timed wait; a task of `Redundant` may hand out two, as where an operation and a timer both call `wakeUp()`. The
second wake is merged into the first in `m_queued`, is refused for the link, or comes late, when the task runs. `Overlap`
says whether a task may wait anew, or the scheduler be started again, while such a wake is still under way.

**IOEventLoop** models one IO scheduler: the places a ready task can be (`lifo_slot`, the ring, the inject queue,
the resume queue, the hand of a scheduling thread), the ready pass with its batch, budget, burst credit and LIFO
limit, `WakeCoordinator` with the eventfd, the recheck before `epoll_wait`, `stop` and `start`. The
`workload`, chosen once, says which tasks and threads there are, which tasks yield, wake another task or are woken by
the loop, the batch size, whether the injection queue may be out of memory (the task is then released) and how often the
scheduler is stopped. One poll reports any number of completions, with or without the eventfd. Work stealing is
off in all three IO schedulers, which makes the Chase-Lev ring a stack for its owner.

**TimingWheel** keeps the code's arithmetic (rounding up in `push`, down in `cascadeSlot`, slots modulo the size)
on wheels whose number and sizes are a constant. `push` reads the clock, `tick` the tick it has reached.

**BlockingExecutor** treats what happens under `m_mutex` as one step and what `submit()` does after releasing it
as another. `SpawnMayFail` lets the `std::thread` constructor throw.

The libraries (paths relative to `src/src/cpp/`):

**CircuitBreaker** is `BasicCircuitBreaker` (`galay-utils/tool/circuit_breaker.hpp`) with the
`RpcGovernanceController` (`galay-rpc/kernel/rpc_policy.h`) that asks it, and then a rate limiter, before each call.
One atomic operation is one step. `age` is the time since the last failure (the clock is read before it is stored, so it
may be old at once), `probe[c]` says that caller `c` holds a
half-open slot, `down` is the state of the protected service, and an administrator calls `reset` and `forceOpen`.

**RpcManagedClient** is `RpcManagedClientImpl::call` with its discovery snapshot, `selectEndpoint`, the failover loop
of `callOnce`, the retry controller and `RpcConnectionPool`. `bucket[e]` has the counts and the queue of waiters of an
endpoint. All tasks share a scheduler, as the pool requires. Servers are up, down, or flaky: they may run a method
and lose the answer. Errors are told apart as far as the code does: those that may be retried, those that count as a
failure of the endpoint, and the rest; discovery, connect and close may fail with any of theirs.

**RedisPool** is `RedisConnectionPool` and its acquire awaitable: `available` and `m_idle`, `m_live` beside it,
`m_waiters` with the state word of each waiter. Tasks acquire, with or without timeout, and release; an administrator
cleans up, expands, shrinks and shuts down. A step is one operation on a queue or an atomic. The idle connections are
in several shards: `late[a]` has those that were put, during `a`'s scan, into a shard it has passed. Connecting may time
out, and in a `faulty` setup the queues of idle connections and of waiters may be out of memory. A wake carries no
identity, as in the kernel.

**SqlPool** is the MySQL pool and the PostgreSQL pool, which differ in the queue of clients to reconnect
(`disconnected`) and in the treatment of a broken client. `sqlSetup` says which one, how large, and whether callers
share a thread, connects fail, or clients break.

**Http2Flow** joins two endpoints of `Http2StreamManager`, `Http2Stream` and `Http2Conn` by two ordered channels.
`conn[e]` is an endpoint with its stream table, its windows, its deferred actions and what it has sent; each frame
handler is an operator on that record. Reading a batch of frames with all it leads to is one step, as in the code,
which does not suspend in between. `task[e][s]` is the task that posts or serves stream `s`.

**Http2Manager** is the same class seen from its life cycle: reader, writer, monitor, handlers and `shutdown()`, with
the send channel and the waiters of its items. With the fault `memory` the channel refuses an item, which closes the
connection and ends the writer. `m_active_handlers` and `m_draining_handlers` are accessed one at a
time, because a handler may run in another thread.

`MCMpmcBoundedChannel`, `MCTimingWheel`, `MCLoop`, `MCRpc`, `MCRedis`, `MCSql`, `MCFlow` and `MCManager` define the tuples,
records and sets a configuration needs. `MCAwaits`, `MCThreads`, `MCClients` and `MCHttp2` put two or
three modules into one run: a behaviour is about one of them, the `subject` chosen in the initial state, and the
others stay where they started. They save runs; they are not compositions, and nothing is shared between the parts.
TLC counts each part's next-state relation as one action of such a run, so that its parts are all exercised was read
off TLC's statistics per expression (`-coverage`): every action of every part is taken, and what is never reached are
single branches for cases these instances exclude.
Definitions whose name ends in a suffix such as `push_Open` are plausible bugs, used to test
that a property depends on the line they change.

Common abstractions: memory is sequentially consistent; a compare-exchange loop that rereads what it failed on is
one step; `moodycamel::ConcurrentQueue` is external, a set where its order matters to no promise of the code and
a queue in AsyncMutex, its best case there; values are names; logging and metrics are left out.

## Runs

The listed runs; states are distinct states.

| Run | Instance | States | What it shows |
|---|---|---|---|
| `awaits` | timed wait: 3 completing threads; SQL pools: up to 3 callers with 2 calls each, 8 setups | 171k | one continuation, after `await_suspend` is done, through a waker that is there; no value lost to a timeout; refinement of TimedAwait; the await returns. No SQL client lost or doubled; on one thread with reliable connections every waiter is resumed |
| `mpmc` | 2 senders with 2 values each, 2 receivers, 5 operations in all, 2 slots, 3 positions | 2.4M | order per producer, a slot has one user, one pump, no coroutine sleeps without a reason, also when the cursor is exhausted |
| `mpmc_waits` | 3 sends, one `recvBatch` of 2, each as try, wait or timed wait, one `close()` | 277k | no value lost, doubled or stuck; `kClosed` only once drained; timed waits return; close ends every wait |
| `mutex` | 3 tasks, 3 calls in all, on one or three threads, 0 to 2 tasks timed | 79k | mutual exclusion, no waiter dropped, arrival order on one thread; every `lock()` with a timeout, or on one thread without any, returns |
| `wheel` | wheels of 4, 2 and 2 slots, 2 timers | 3.7M | a timer fires neither two ticks early nor late |
| `loop` | 2 remotes, 2 tasks, a stop and restart; or 1 remote, 3 tasks that yield, wake each other and are woken, batches of 2, an injection queue out of memory; ring of 1 | 959k | no wake merged into one already consumed; a ready task is in exactly one place and is not forgotten, the count of remote tasks never falls short; the thread ends after all accepted resumes have run |
| `breaker` | 2 callers, thresholds 1, no limiter, semaphore or bucket, 1 administrator call | 1.1M | without a limiter no half-open slot leaks and the breaker closes once the service stays up |
| `threads` | 2 tasks, one with up to 2 wakes per suspension, 2 wakers, 2 suspensions, 1 stop and restart; 4 blocking tasks, 1 to 3 threads whose creation may fail; 3 notifiers | 205k | wakes are kept, merged and late ones too, and a woken task runs; an accepted blocking task runs once, and runs as long as threads can be created; one notification wins and every wait ends |
| `clients` | RPC: 2 tasks, 2 endpoints, 1 connection and 1 waiter each, 2 attempts; Redis: 2 tasks with 2 calls, 1 connection, 1 administrator call, 3 setups | 455k | the RPC pool's counts are right and nobody waits beside a free connection; once it is shut down no task gets a connection of it; a Redis connection has one owner and the counters cover it; calls and acquires return |
| `http2` | 2 streams, window 4, frames of 2, batches of 2, 6 connections; 2 handlers, 9 services | 256k | window credit is conserved; the ends agree; requests end; `start()` ends last and returns; a calm `shutdown()` returns and closes the descriptor last |
| `mutex_lost_wakeup`, `wheel_lapped` | | | counterexamples, see below |

`MCWheelBusy.cfg` (module `MCTimingWheel`) is a longer variant of `wheel`: a loop that is away for up to two ticks
leaves nothing overdue when it is back (`NotLate`). `MCLoopQueues.cfg` (module `MCLoop`) checks `QueuesSound` with one
more task that wakes others, and that the loop does not deadlock.

Some conditions limit what the runs claim. `WakeIsKept` is about tasks that wait anew when the earlier wakes are over
(`Overlap` is false). `Recovers` and `NoLeakedProbe` are about a breaker without rate
limiter. `WaiterResumed` and, without timeout, `AcquireReturns` are about callers on one thread with connections that do
not break. `CreditBalanced` and `EndsAgree` are about orderly connections (`Orderly` in Http2Flow), `RequestEnds` also
about connections on which requests are cancelled, as long as the credit lost to them leaves a window (`Affordable`),
`CalmShutdown` about services that are `Calm`. Outside these conditions the code does not keep the promise; the next
section has the counterexamples.

Why the bounds are enough to matter: each race in the code is between at most three parties (two that compete and
one that decides or closes), so three threads, or two with two rounds each, reach every order; rings of one or two
slots are full, empty and wrapped within a few operations; a second round per thread exposes state that an earlier
round left behind; the wheels are small enough to turn more than once. Every bound is a named constant.
Deadlock checking is off where the behaviour may end: all bounded operations done, the scheduler stopped, the
executor destroyed, the clock at its bound. There the liveness and no-lost-wake properties say which ends are
allowed.

Fairness. A thread inside a function goes on (weak fairness of its steps): the code has no unbounded wait outside
the modelled ones. A task the scheduler can run is run; for AsyncMutex this is strong fairness, since a task is
disabled while another one occupies the thread and the scheduler's queue is served in order. Timers fire, because
the loop calls `tick()`. Nobody is obliged to start an operation, to notify, to wake, to submit or to stop. The event
loop is not allowed to count on the timeout of `epoll_wait`, which would hide lost wakes.

In the libraries, a task that is inside a call and not suspended goes on; a timer of a Redis acquire fires; a caller
gives a connection back (a leak in the application is not the pool's fault). The breaker's callers keep calling and its clock runs. An HTTP/2 reader reads while
there is something to read, handlers answer, the manager's writer writes; a handler ends when its queues are closed, or
before that only where the service says `prompt`. No server has to come up, no peer has to close, nobody has to call
`shutdown()`.

## Where the code and its documentation disagree

Each line is a configuration in which TLC finds a counterexample to a sentence of the repository (for PostgreSQL's pool, to that of its MySQL sibling). The first two are
listed in `PROJECT.json` as runs; the others are checked the same way, `tlc -config <cfg> <module>`. A configuration
that stands for several lines begins with a comment that says which property and which constants belong to each.

| Configuration | Property | The sentence | What happens |
|---|---|---|---|
| `MCMutexLostWakeup` | `NoLostWakeup` | `async/async_mutex.h:110` | a waiter taken out of the queue while another thread's `unlock()` finds it empty sleeps beside a free mutex |
| `MCWheelLapped` | `NotEarly` | `common/timer_manager.hpp:136` | a timer in the last tick of wheel 1 fires at once if the clock has passed the wheel |
| `MCMutexFifo` | `FifoHandOver` | `async/async_mutex.h:14` | a waiter put back at the tail is overtaken |
| `MCMutexFifo` | `TimeoutHoldsNothing` | `async/async_mutex.h:151` | the mutex is handed to a call that then reports a timeout, and stays locked |
| `MCMutexFifo` | `TimeoutDeactivates` | `async/async_mutex.h:140` | a waiter that timed out is made active and queued again |
| `MCComputeDuplicate` | `WakeOnItsWay` | `core/waker.h:122` | a second wake of one suspension makes the wake of the next one disappear |
| `MCComputeDuplicate` | `LinkedOnce` | `core/task.h:798` | a second wake and a yield link a task twice |
| `MCWheelCascade` | `WheelOneDue` | `common/timer_manager.hpp:285` | a cascaded timer is executed from wheel 1 more than a tick early |
| `MCWheelCascade` | `CancelledNotHandled` | `common/timer.hpp:85` | a timer cancelled in wheel 1 is handled all the same |
| `MCExecutorGrows` | `GrowsWhenNeeded` | `core/blocking_executor.h:78` | two submissions count on the same idle thread |
| `MCExecutorSpawn` | `ShutdownEnds` | `core/blocking_executor.h:73` | a thread that could not be created stays counted; the destructor waits for it |
| `MCWaiterRace` | `WaitingMeansSuspended` | `async/async_waiter.h:178` | the form with a value stays registered after a timeout |
| `MCWaiterRace` | `NoDataRace` | `async/async_waiter.h:228` | `await_resume()` clears the waker that `notify()` is about to use |
| `MCWaiterRace` | `UnusedAfterWait` | `async/async_waiter.h:101` | a wait can be over while `notify()` still uses the waiter |
| `MCLoopYield` | `ReadyTaskRuns` | `core/io_scheduler.hpp:490` | a yielding task is drained onto the top of the ring again and again, the one below never runs |
| `MCLoopYield` | `ReadyTaskRuns` | `core/io_scheduler.hpp:597` | at the LIFO limit the slot is pushed onto the ring and popped at once; a task in the ring starves |
| `MCLoopYield` | `StopEnds` | `core/epoll_scheduler.h:64` | the drain after `stop()` does not end while a task yields |
| `MCLoopYield` | `PassEnds` | `src/test/cpp/kernel/t40_ready.cc:4` | a ready pass earns credit for what it drains and need not end |
| `MCBreakerProbes` | `ProbesBounded` | `../galay-utils/tool/circuit_breaker.hpp:82` | slots taken while the breaker is being set to half open are cleared; more probes run than allowed |
| `MCBreakerProbes` | `RecoversLimited` | `docs/cpp/modules/utils/02-API参考.md:371` | a call the breaker lets through and the limiter refuses keeps its half-open slot |
| `MCRpcRepeated` | `NotRepeated` | `../galay-rpc/kernel/rpc_policy.h:38`, `rpc_managed_client.h:184` | a call that is not idempotent runs on a second endpoint after the first ran it and lost the answer |
| `MCRpcRepeated` | `OneEndpointPerCall` | `../galay-rpc/kernel/rpc_managed_client.h:7`, `:184` | the comments say that a failed endpoint affects only the next selection, that the error is returned and the same call is not retried; `callOnce()` goes on to the other endpoints within the call |
| `MCRedisWaits` | `RaceAvoided` | `../galay-redis/async/conn_pool.h:488` | a release that finds no waiter counts its connection only after the new waiter's last look; the waiter sleeps beside it |
| `MCRedisWaits` | `OneWake` | `../galay-redis/async/conn_pool_waiter_state.h:19` | timeout and grant both wake the task; the second wake is pending when the task has gone on |
| `MCSqlWaits` with `ParallelOnly` | `EveryWaiterResumed` | `../galay-mysql/async/conn_pool.h:95` | a waiter taken out and put back is missed by the last release |
| `MCSqlWaits` with `FailingMysql` | `EveryWaiterResumed` | `../galay-mysql/async/conn_pool.h:95` | a failed connect keeps its slot of the pool; the others wait for ever |
| `MCSqlWaits` with `FailingPostgres` | `EveryWaiterResumed` | the sentence of MySQL's pool; the PostgreSQL pool states none | a failed reconnect gives its slot back and wakes nobody |
| `MCSqlWaits` with `BrokenPostgres` | `EveryWaiterResumed` | the sentence of MySQL's pool; the PostgreSQL pool states none | a broken client fails one waiter; those behind it are not told of the slot |
| `MCFlowEnds` with `CancelledUpload` | `EveryRequestEnds` | `docs/cpp/modules/http/07-常见问题.md:329` | an upload goes on after its RST_STREAM, and the server refuses the data without giving it back to the connection's window |
| `MCFlowEnds` with `LateSettings` | `EveryRequestEnds` | the same | SETTINGS that make the window smaller arrive late; the body waits for credit nobody sends |
| `MCFlowEnds` with `UnwaitedReply` | `EveryRequestEnds` | the same | a reply that is not waited for is dropped with its stream while it waits for a window |
| `MCFlowRefused` | `OneAtATimeAccepted` | `src/test/cpp/http/t14_retire.cc:155` | a finished stream counts until its handler has returned and a later batch removes it, so the next of two sequential requests may be refused |
| `MCManagerEnds` | `EveryShutdownReturns` | `../galay-http2/kernel/stream_manager.h:508` | `shutdown()` waits for a GOAWAY after the writer has ended (`Lossy`), or for a handler whose reply the ended writer does not write (`SlowReplies`) |
| `MCManagerEnds` | `EveryStartReturns` | `../galay-http2/kernel/stream_manager.h:737` | a handler waits for a reply that the ended writer does not write |
| `MCManagerEnds` | `FdClosedLast` | `../galay-http2/kernel/stream_manager.h:586` | `shutdown()` finds `m_running` false and closes the descriptor while the reader still waits for the other loops |
| `MCManagerEnds` | `NoHandlerLeft` | `../galay-http2/kernel/stream_manager.h:737` | a handler on another thread still uses the manager after `start()` has completed |

Modules: `MCFlow*` with MCFlow, `MCManager*` with MCManager, `MCRedis*` with MCRedis, `MCRpc*` with MCRpc, `MCSql*` with
MCSql, `MCBreaker*` with CircuitBreaker, `MCCompute*`, `MCExecutor*` and `MCWaiter*` with ComputeScheduler,
BlockingExecutor and AsyncWaiter. One more disagreement needs no run: `docs/cpp/modules/http/02-API参考.md:476` says that
windows are refilled below one half of the target, the code does so below three quarters.

The mpmc channel, the timed wait and the merging of remote wakes hold up in every run.

## Proofs

`TimeoutTimerProofs` proves, for every set `Ops` of completing threads (assumption `ThreadsAssumption`: the awaiter,
the timer thread and the operations are different threads): `TypeCorrect`, `ContinuesOnce`, `WakesOnlySuspended`,
`WakerIsSafe`, their conjunction `WakeProtocol`, `TimeoutLosesNothing`, `OwnedOnce`, `DecidedForEver` and `Refinement` (TimeoutTimer implements
TimedAwait). None of the properties but the type is inductive: that a coroutine continues once depends on who owes
the wake, and that on who won the completion word. The inductive invariant `IInv` says so in nine parts:

- `TypeOK` and `IPc`: types, and where each thread can be;
- `CompletionOwned`: an in-flight completion word belongs to exactly one operation;
- `IUnpublished`: before the waiter is published nobody else moves;
- `IOwing`: at most one thread owes the wake, and until it has paid, the gate is arming or armed;
- `IGate`: what each state of the gate says about wakes issued and continuations made;
- `ITimeout`, `IMoved`: a decided timeout raises its flag, a won operation has moved its value;
- `IResult`: what `await_resume` returned agrees with the completion word.

`InitInv` and one lemma per kind of step (operation, awaiter, timer, wake) show that it holds and is preserved;
`Invariance` combines them, the other theorems follow from it, and the action property and the refinement look at
one step under `IInv`.

`Http2ManagerProofs` proves `StartEndsLast` (`StopsLast`) for every finite set of handlers and every service
(`ManagerAssumption`). `StopsLast` alone is not inductive: that no handler is left follows from the count, which must be
the number of handlers that have not left (`ICount`), from the draining protocol (`IDrain`: once draining began nothing
is started, and on one thread the wait ends only at zero), and from the order in which the reader stops the others
(`IStop`). `TypeStep`, `CountStep`, `DrainStep` and `StopStep` have one step per action; `ManagerInvariant` combines them.

`RpcManagedClientProofs` proves `PoolKeepsBooks` (`PoolAccounted`) for every number of tasks, endpoints, connections,
waiters and attempts, and all behaviours of the servers (`RpcAssumption`). The counts are inductive only together with
`IGrant` (a grant is a connection, for a task that waits) and `IQueue` (a queue holds tasks that wait for its endpoint,
each once): otherwise a release could hand its connection to a task that has one. `ReleasedAlone` and `ReleasedHanded`
say what a release does to a bucket without and with waiters; one lemma per kind of step uses them. The invariant is
stated until `shutdown()`, which empties the buckets while connections are out.

Only model-checked: all other modules, and every liveness property. Liveness under fairness and `ENABLED`, induction
over data and recursive operators are out of the prover's reach and stay with TLC.

## Not modelled

Weak memory orders and `asymmetric_memory_barrier.h` (the models are sequentially consistent); the ownership of
memory (reference counts of tasks, lifetime of awaitables, apart from AsyncWaiter); system calls and what the kernel
reports; parsing, encoding, cryptography; C++ modules. The components not modelled, or in part, are in `PROJECT.json`
with the reason. The larger gaps inside the libraries that are modelled:

- HTTP/2: handlers that send from another thread than the reader's while it handles frames (Http2Flow serves a request
  and reads a batch in one step each; the windows are plain members, so that such a handler races on them); a
  `flow_control_strategy` of the user; the service loop of TLS connections beyond its cleaning of the stream table,
  failures to start a loop, static responses and files, header compression, priorities, PUSH_PROMISE;
- pools: the TLS copy of the Redis pool; queues of the SQL pools that cannot grow for lack of memory; statistics;
- RPC: the channel with its pending calls, streams, the server; governance switched on in the managed client (it is
  modelled by itself in CircuitBreaker);
- circuit breaker: the `execute` wrappers; the refill arithmetic of the token bucket and the other limiters.

The repository is a framework with more than a dozen libraries, and most of its lines are codecs, parsers, wrappers of system calls
and bindings. The models cover a small share of its lines: the concurrent and stateful core of the parts above.

Further hazards seen while reading, which no property covers:

- kernel: `addTimer()` of the timer thread reads `m_running` and pushes later; a timer beyond the outermost wheel is
  dropped after `push()` reported success (`common/timer_manager_mt.hpp:319`); a failed start makes `Runtime::start`
  stop schedulers never started and the shared timer thread (`core/runtime.cc:78`); `consumeWake()` sets its pending
  flag after it found no waiter (`WaitRegistration`); `schedule()` accepts tasks after the loop thread has ended;
  `markSleeping()` relies on an order of a store and a load that weak memory does not give;
- rate limiters: `setRate()` and a concurrent refill count an interval twice;
- tracing: a span enqueued after the worker's last drain.

## Plan

1. Extend the model. Kernel: `WaitRegistration` with the spsc, mpsc and unbounded channels (an abstract channel that
   all of them implement); the timer thread; Runtime composed with abstract schedulers; the IO controller's
   registration, cancellation and close. Utilities: ring buffer and MVCC against reference definitions. Libraries:
   RPC pending calls over AsyncWaiter, the batch span processor. Last: the kernel's C bridge. A true composition of
   the managed RPC client with its circuit breaker.
2. Prove more. AsyncMutex: `HandOverSound`. BlockingExecutor: `RunOnce`. AsyncWaiter: `OneNotification`. IOEventLoop:
   `QueuesSound`. MpmcBoundedChannel: `Exclusive`. RedisPool: `OneOwner`. Then refinement of an abstract channel.
