--------------------------- MODULE RpcManagedClient ---------------------------
(***************************************************************************)
(* galay-rpc's managed client: RpcManagedClientImpl with its discovery     *)
(* snapshot, its RpcRetryController and its RpcConnectionPool.  Tasks of   *)
(* one scheduler make calls and interleave at their co_awaits, as the      *)
(* pool's comment requires ("same runtime context"): what runs between two *)
(* co_awaits is one step.                                                  *)
(*                                                                         *)
(* A pooled connection is a licence to connect, so a bucket only counts    *)
(* its available ones.  Governance is in its default, disabled             *)
(* configuration; CircuitBreaker models it.  The TCP client, discovery and *)
(* the servers answer nondeterministically.  Of the error codes those are  *)
(* told apart that the client treats differently: "unavailable" is         *)
(* UNAVAILABLE or CONNECTION_CLOSED, "internal" is INTERNAL_ERROR, "other" *)
(* any other, such as DEADLINE_EXCEEDED and RESOURCE_EXHAUSTED.            *)
(***************************************************************************)
EXTENDS Naturals, Sequences, FiniteSets

CONSTANTS Clients,              \* tasks that make calls
          Endpoints,            \* what discovery answers: a sequence
          MaxConnections, MinConnections, MaxWaiters,   \* per endpoint
          MaxAttempts,          \* RpcRetryPolicy::max_attempts
          Idempotent,           \* tasks whose calls are idempotent
          Worlds                \* how the servers behave: subset of [Servers -> Behaviour]

Behaviour == {"up", "down", "flaky"}
Servers == {Endpoints[i] : i \in DOMAIN Endpoints}

ASSUME RpcAssumption ==
    /\ MaxConnections \in Nat \ {0} /\ MinConnections \in 0..MaxConnections
    /\ MaxWaiters \in Nat /\ MaxAttempts \in Nat \ {0}
    /\ Worlds \subseteq [Servers -> Behaviour] /\ IsFiniteSet(Clients) /\ Idempotent \subseteq Clients
    /\ Endpoints \in Seq(Servers) /\ Len(Endpoints) > 0
    /\ Cardinality(Servers) = Len(Endpoints)

VARIABLES behaviour,           \* of each server, chosen once
          cached,              \* m_services has the service
          next_index, m_unavailable_endpoints,
          bucket,              \* m_buckets: counts and queue of waiters
          m_shutdown,
          callPc, attempt, tries, endpoint, result, grant, executed

snapshot == <<cached, next_index, m_unavailable_endpoints>>
pool == <<bucket, m_shutdown>>
call == <<attempt, tries, endpoint, result, grant, executed>>
rpcVars == <<behaviour, snapshot, pool, callPc, call>>

EmptyBucket == [available |-> 0, in_use |-> 0, total |-> 0, waiters |-> <<>>]

RpcInit ==
    /\ behaviour \in Worlds
    /\ cached = FALSE /\ next_index = 0 /\ m_unavailable_endpoints = {}
    /\ bucket = [e \in Servers |-> EmptyBucket] /\ m_shutdown = FALSE
    /\ callPc = [t \in Clients |-> "idle"]
    /\ attempt = [t \in Clients |-> 0] /\ tries = [t \in Clients |-> 0]
    /\ endpoint = [t \in Clients |-> Endpoints[1]]
    /\ result = [t \in Clients |-> "none"] /\ grant = [t \in Clients |-> "none"]
    /\ executed = [t \in Clients |-> 0]

Goto(t, label) == callPc' = [callPc EXCEPT ![t] = label]

-----------------------------------------------------------------------------
(* RpcConnectionPool *)

Dec(n) == IF n > 0 THEN n - 1 ELSE 0

\* ensureEndpoint(): up to min_connections_per_endpoint are made in advance.
Prewarmed(b) ==
    IF b.total < MinConnections
    THEN [b EXCEPT !.available = @ + MinConnections - b.total, !.total = MinConnections]
    ELSE b

\* Mutant: the slot of a broken connection is freed and no waiter is told.
Released_Silent(b, broken) ==
    LET returned == [b EXCEPT !.in_use = Dec(@)]
        freed == [returned EXCEPT !.total = Dec(@)]
    IN  IF m_shutdown \/ broken THEN freed
        ELSE IF b.waiters # <<>> THEN [returned EXCEPT !.in_use = @ + 1, !.waiters = Tail(@)]
        ELSE [returned EXCEPT !.available = @ + 1]

\* Mutant: release() does not look at m_shutdown.
Released_Unstopped(b, broken) ==
    LET returned == [b EXCEPT !.in_use = Dec(@)]
        freed == [returned EXCEPT !.total = Dec(@)]
    IN  IF broken /\ b.waiters = <<>> THEN freed
        ELSE IF b.waiters # <<>> THEN [returned EXCEPT !.in_use = @ + 1, !.waiters = Tail(@)]
        ELSE [returned EXCEPT !.available = @ + 1]

\* release(): a broken connection is replaced if a waiter is there, a sound
\* one goes to the first waiter or back to the available ones.
Released(b, broken) ==
    LET returned == [b EXCEPT !.in_use = Dec(@)]
        freed == [returned EXCEPT !.total = Dec(@)]
    IN  IF m_shutdown \/ (broken /\ b.waiters = <<>>) THEN freed
        ELSE IF b.waiters # <<>> THEN [returned EXCEPT !.in_use = @ + 1, !.waiters = Tail(@)]
        ELSE [returned EXCEPT !.available = @ + 1]

release(t, broken) ==
    LET e == endpoint[t]
        b == Released(bucket[e], broken)
    IN  /\ bucket' = [bucket EXCEPT ![e] = b]
        /\ grant' = IF Len(b.waiters) < Len(bucket[e].waiters)
                    THEN [grant EXCEPT ![Head(bucket[e].waiters)] = "lease"]
                    ELSE grant

-----------------------------------------------------------------------------
(* Discovery and the choice of an endpoint *)

\* refresh(): the snapshot is stored before the pool is asked, so a pool that
\* is shut down leaves a usable snapshot behind an error.
Refreshed ==
    /\ cached' = TRUE /\ next_index' = 0
    /\ bucket' = IF m_shutdown THEN bucket ELSE [e \in Servers |-> Prewarmed(bucket[e])]

\* The caller may refresh at any time; discovery may fail and change nothing.
Refresh ==
    /\ Refreshed
    /\ UNCHANGED <<behaviour, m_unavailable_endpoints, m_shutdown, callPc, call>>

Order(start) == [i \in 1..Len(Endpoints) |-> ((start + i - 1) % Len(Endpoints)) + 1]
Skips(start, unavailable) ==
    {i \in 1..Len(Endpoints) : Endpoints[Order(start)[i]] \notin unavailable}
First(S) == CHOOSE i \in S : \A j \in S : i <= j

\* selectEndpoint(): round robin over the endpoints not marked; when all are
\* marked the marks are erased and the turn goes on.
selectEndpoint(t, start) ==
    LET allowed == Skips(start, m_unavailable_endpoints)
        i == IF allowed = {} THEN 1 ELSE First(allowed)
    IN  /\ endpoint' = [endpoint EXCEPT ![t] = Endpoints[Order(start)[i]]]
        /\ next_index' = (start + i) % Len(Endpoints)
        /\ m_unavailable_endpoints' = IF allowed = {} THEN {} ELSE m_unavailable_endpoints

markEndpointUnavailable(t) ==
    m_unavailable_endpoints' = m_unavailable_endpoints \cup {endpoint[t]}
markEndpointAvailable(t) ==
    m_unavailable_endpoints' = m_unavailable_endpoints \ {endpoint[t]}

-----------------------------------------------------------------------------
(* callOwned() and RpcRetryController::runAsync() *)

\* A deadline that has passed already is an error before the first attempt.
Call(t) ==
    /\ callPc[t] = "idle"
    /\ attempt' = [attempt EXCEPT ![t] = 1]
    /\ \/ Goto(t, "once") /\ UNCHANGED result
       \/ result' = [result EXCEPT ![t] = "other"] /\ Goto(t, "returned")
    /\ UNCHANGED <<behaviour, snapshot, pool, tries, endpoint, grant, executed>>

\* retryable_errors is up to the user: here it lists the endpoint failures.
Retryable == {"unavailable", "internal"}

\* After an attempt: return, or go to sleep and try again.  The deadline may
\* have passed, whatever the attempt returned.
AttemptDone(t) ==
    /\ callPc[t] = "attemptDone"
    /\ \/ /\ \/ result[t] \notin Retryable
             \/ attempt[t] = MaxAttempts
             \/ t \notin Idempotent
          /\ Goto(t, "returned")
          /\ UNCHANGED <<attempt, result>>
       \/ /\ result[t] \in Retryable /\ attempt[t] < MaxAttempts /\ t \in Idempotent
          /\ \/ /\ attempt' = [attempt EXCEPT ![t] = @ + 1]
                /\ Goto(t, "backoff") /\ UNCHANGED result
             \/ /\ result' = [result EXCEPT ![t] = "other"]
                /\ Goto(t, "returned") /\ UNCHANGED attempt
    /\ UNCHANGED <<behaviour, snapshot, pool, tries, endpoint, grant, executed>>

SleepOver(t) ==
    /\ callPc[t] = "backoff"
    /\ Goto(t, "once")
    /\ UNCHANGED <<behaviour, snapshot, pool, call>>

\* The locals of the call end with it.
Returned(t) ==
    /\ callPc[t] = "returned"
    /\ Goto(t, "idle")
    /\ attempt' = [attempt EXCEPT ![t] = 0] /\ tries' = [tries EXCEPT ![t] = 0]
    /\ endpoint' = [endpoint EXCEPT ![t] = Endpoints[1]]
    /\ result' = [result EXCEPT ![t] = "none"] /\ executed' = [executed EXCEPT ![t] = 0]
    /\ UNCHANGED <<behaviour, snapshot, pool, grant>>

-----------------------------------------------------------------------------
(* callOnce() *)

\* Without a snapshot the first thing is a refresh: discovery may fail
\* (RpcStaticDiscovery with UNAVAILABLE), the pool may be shut down.
CallOnce(t) ==
    /\ callPc[t] = "once"
    /\ \/ /\ cached \/ ~m_shutdown
          /\ tries' = [tries EXCEPT ![t] = Len(Endpoints) - 1]
          /\ cached' = TRUE
          /\ bucket' = IF cached THEN bucket ELSE [e \in Servers |-> Prewarmed(bucket[e])]
          /\ selectEndpoint(t, IF cached THEN next_index ELSE 0)
          /\ Goto(t, "acquire") /\ UNCHANGED result
       \/ /\ ~cached
          /\ \/ /\ \E error \in {"unavailable", "other"} :
                      result' = [result EXCEPT ![t] = error]
                /\ UNCHANGED <<cached, next_index, bucket>>
             \/ /\ m_shutdown
                /\ result' = [result EXCEPT ![t] = "unavailable"]
                /\ Refreshed
          /\ Goto(t, "attemptDone")
          /\ UNCHANGED <<tries, endpoint, m_unavailable_endpoints>>
    /\ UNCHANGED <<behaviour, m_shutdown, attempt, grant, executed>>

\* isEndpointFailure()
EndpointFailure == {"unavailable", "internal"}

\* callEndpoint() returned: an endpoint failure moves on to the next endpoint
\* until as many were tried as the snapshot has.
EndpointDone(t) ==
    /\ callPc[t] = "endpointDone"
    /\ IF result[t] \in EndpointFailure /\ tries[t] > 0
       THEN /\ tries' = [tries EXCEPT ![t] = @ - 1]
            /\ selectEndpoint(t, next_index)
            /\ Goto(t, "acquire")
       ELSE /\ Goto(t, "attemptDone")
            /\ UNCHANGED <<tries, endpoint, next_index, m_unavailable_endpoints>>
    /\ UNCHANGED <<behaviour, cached, pool, attempt, result, grant, executed>>

-----------------------------------------------------------------------------
(* callEndpoint() *)

\* acquire(): shut down, an available connection, a new one, too many
\* waiters, or wait.
acquire(t) ==
    LET e == endpoint[t]
        b == bucket[e]
        fail(err) == /\ result' = [result EXCEPT ![t] = err]
                     /\ Goto(t, "endpointDone")
                     /\ UNCHANGED bucket
        take(new) == /\ bucket' = [bucket EXCEPT ![e] = new]
                     /\ Goto(t, "connect") /\ UNCHANGED result
    IN  /\ callPc[t] = "acquire"
        /\ \/ m_shutdown /\ fail("unavailable")
           \/ /\ ~m_shutdown /\ b.available > 0
              /\ take([b EXCEPT !.available = @ - 1, !.in_use = @ + 1])
           \/ /\ ~m_shutdown /\ b.available = 0 /\ b.total < MaxConnections
              /\ take([b EXCEPT !.total = @ + 1, !.in_use = @ + 1])
           \/ /\ ~m_shutdown /\ b.available = 0 /\ b.total >= MaxConnections
              /\ \/ Len(b.waiters) >= MaxWaiters /\ fail("other")
                 \/ /\ Len(b.waiters) < MaxWaiters
                    /\ bucket' = [bucket EXCEPT ![e].waiters = Append(@, t)]
                    /\ Goto(t, "waiting") /\ UNCHANGED result
        /\ UNCHANGED <<behaviour, snapshot, m_shutdown, attempt, tries, endpoint, grant, executed>>

\* The waiter was notified with a connection or with the shutdown error.
Granted(t) ==
    /\ callPc[t] = "waiting" /\ grant[t] # "none"
    /\ grant' = [grant EXCEPT ![t] = "none"]
    /\ IF grant[t] = "lease"
       THEN Goto(t, "connect") /\ UNCHANGED result
       ELSE Goto(t, "endpointDone") /\ result' = [result EXCEPT ![t] = "unavailable"]
    /\ UNCHANGED <<behaviour, snapshot, pool, attempt, tries, endpoint, executed>>

\* RpcError::from() tells a timeout ("other") from a lost connection and from
\* the rest (both "unavailable"); a coroutine that cannot be scheduled is an
\* internal error.
IoFailure == {"unavailable", "internal", "other"}

Connect(t) ==
    /\ callPc[t] = "connect"
    /\ \/ /\ behaviour[endpoint[t]] # "down"
          /\ Goto(t, "call")
          /\ UNCHANGED <<bucket, grant, result, m_unavailable_endpoints>>
       \/ /\ behaviour[endpoint[t]] # "up"
          /\ \E error \in IoFailure :
                result' = [result EXCEPT ![t] = error]
          /\ markEndpointUnavailable(t)
          /\ release(t, TRUE)
          /\ Goto(t, "endpointDone")
    /\ UNCHANGED <<behaviour, cached, next_index, m_shutdown, attempt, tries, endpoint, executed>>

\* client.call(): a server that is up may answer with an error of its own; a
\* flaky one may break the connection before or after it ran the method.
\* The history variable counts the runs of a method that is not idempotent.
CallServer(t) ==
    /\ callPc[t] = "call"
    /\ \E answer \in {"ok", "other"} \cup
            (IF behaviour[endpoint[t]] = "flaky" THEN EndpointFailure ELSE {}) :
        \E ran \in IF t \in Idempotent THEN {0}
                   ELSE IF answer \in EndpointFailure THEN {0, 1}
                   ELSE IF answer = "ok" THEN {1} ELSE {0} :
          /\ result' = [result EXCEPT ![t] = answer]
          /\ executed' = [executed EXCEPT ![t] = IF @ + ran > 2 THEN 2 ELSE @ + ran]
    /\ Goto(t, "close")
    /\ UNCHANGED <<behaviour, snapshot, pool, attempt, tries, endpoint, grant>>

\* client.close() and what follows it: the endpoint is marked, the connection
\* goes back.  A failed close makes any result an error.
Close(t) ==
    /\ callPc[t] = "close"
    /\ \/ /\ behaviour[endpoint[t]] = "flaky"
          /\ \E error \in IF result[t] = "ok" THEN IoFailure ELSE {"internal"} :
                result' = [result EXCEPT ![t] = error]
          /\ markEndpointUnavailable(t)
          /\ release(t, TRUE)
       \/ /\ UNCHANGED result
          /\ IF result[t] = "unavailable" THEN markEndpointUnavailable(t)
             ELSE markEndpointAvailable(t)
          /\ release(t, result[t] = "unavailable")
    /\ Goto(t, "endpointDone")
    /\ UNCHANGED <<behaviour, cached, next_index, m_shutdown, attempt, tries, endpoint, executed>>

\* shutdown(): every waiter gets the error, every count is dropped.
Shutdown ==
    /\ ~m_shutdown
    /\ m_shutdown' = TRUE
    /\ grant' = [t \in Clients |->
                    IF \E e \in Servers : \E i \in DOMAIN bucket[e].waiters : bucket[e].waiters[i] = t
                    THEN "closed" ELSE grant[t]]
    /\ bucket' = [e \in Servers |-> EmptyBucket]
    /\ UNCHANGED <<behaviour, snapshot, callPc, attempt, tries, endpoint, result, executed>>

CallStep(t) ==
    \/ AttemptDone(t) \/ SleepOver(t) \/ Returned(t) \/ CallOnce(t) \/ EndpointDone(t)
    \/ acquire(t) \/ Granted(t) \/ Connect(t) \/ CallServer(t) \/ Close(t)

RpcNext == \/ \E t \in Clients : Call(t) \/ CallStep(t)
           \/ Refresh \/ Shutdown

RpcSpec == RpcInit /\ [][RpcNext]_rpcVars

\* The scheduler resumes every task that can run, and the network answers.
RpcFairness == \A t \in Clients : WF_rpcVars(CallStep(t))
RpcFairSpec == RpcSpec /\ RpcFairness

-----------------------------------------------------------------------------
(* Properties *)

\* The task has a connection of e, or was given one and has not run since.
Holds(t, e) ==
    /\ endpoint[t] = e
    /\ callPc[t] \in {"connect", "call", "close"} \/ grant[t] = "lease"
HasLease(t) == \E e \in Servers : Holds(t, e)

\* Until shutdown() the pool's counts say who has a connection, and nobody
\* waits for an endpoint with a connection to spare: acquire(), release() of
\* sound and broken connections and ensureEndpoint() keep the counts.
PoolAccounted ==
    ~m_shutdown => \A e \in Servers :
        /\ bucket[e].in_use = Cardinality({t \in Clients : Holds(t, e)})
        /\ bucket[e].total = bucket[e].in_use + bucket[e].available
        /\ bucket[e].total <= MaxConnections
        /\ bucket[e].waiters # <<>> =>
            bucket[e].available = 0 /\ bucket[e].total = MaxConnections

\* shutdown() is final: although leases are still out, calls sleep before a
\* retry and refresh() goes on, the pool counts, keeps and hands out nothing
\* any more, no task is left waiting without an answer, and no task gets a
\* connection that it had not got before (shutdown(), acquire(), release(),
\* ensureEndpoint()).
ShutdownIsFinal ==
    [][/\ m_shutdown' =>
            /\ \A e \in Servers : bucket'[e] = EmptyBucket
            /\ \A t \in Clients : callPc'[t] = "waiting" => grant'[t] # "none"
       /\ m_shutdown =>
            m_shutdown' /\ \A t \in Clients : HasLease(t)' => HasLease(t)]_rpcVars

\* Every call returns: nobody waits for ever in the pool, whether the
\* connections in use break, come back, or the pool is shut down.
CallReturns ==
    \A t \in Clients : callPc[t] = "once" ~> callPc[t] = "idle"

\* "By default only idempotent calls are retried" (RpcRetryPolicy), and "the
\* same call is not retried" (RpcManagedClientImpl::call): a server method
\* runs at most once for a call that is not idempotent.
NotRepeated ==
    \A t \in Clients : t \notin Idempotent => executed[t] <= 1

\* "The failure of an endpoint only affects the next choice, the error is
\* returned" (rpc_managed_client.h, line 8) and "the same call is not retried;
\* ... the next select/call chooses the next endpoint" (line 184): a call that
\* is not retried uses one endpoint.
OneEndpointPerCall ==
    \A t \in Clients : t \notin Idempotent /\ callPc[t] = "acquire" =>
        tries[t] = Len(Endpoints) - 1
=============================================================================
