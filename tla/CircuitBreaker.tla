---------------------------- MODULE CircuitBreaker ----------------------------
(***************************************************************************)
(* galay::utils::BasicCircuitBreaker and the RpcGovernanceController of    *)
(* galay-rpc that puts it in front of every managed call, together with a  *)
(* rate limiter.  Both are lock-free and are called by any number of       *)
(* threads: one atomic operation is one step, and a compare-exchange loop  *)
(* that retries with the value it failed on is one step.                   *)
(*                                                                         *)
(* Time is the age of m_lastFailureTimeNs, in ticks, up to the timeout:    *)
(* the code only asks whether it has elapsed.  Counters that one call      *)
(* clears together and no other call compares are cleared in one step.     *)
(***************************************************************************)
EXTENDS Naturals, FiniteSets

CONSTANTS Callers,              \* threads that make calls
          FailureThreshold, SuccessThreshold, HalfOpenMaxRequests,
          ResetTicks,           \* resetTimeout, in ticks
          Limiters,             \* which limiters: a subset of LimiterKind
          Capacity,             \* permits of the counting semaphore
          AdminCalls            \* bound on reset() and forceOpen() calls

LimiterKind == {"off", "semaphore", "bucket"}

ASSUME BreakerAssumption ==
    /\ FailureThreshold \in Nat \ {0} /\ SuccessThreshold \in Nat \ {0}
    /\ HalfOpenMaxRequests \in Nat \ {0} /\ ResetTicks \in Nat /\ AdminCalls \in Nat
    /\ Limiters \subseteq LimiterKind /\ Capacity \in Nat /\ IsFiniteSet(Callers)

VARIABLES limiter,             \* RpcRateLimitPolicy, chosen once
          m_state, m_failureCount, m_successCount, m_halfOpenInFlight,
          age,                 \* ticks since m_lastFailureTimeNs
          m_open_observed,     \* RpcGovernanceController::m_open_observed
          m_count,             \* CountingSemaphore::m_count
          breakerPc,           \* where a caller is
          outcome,             \* what its operation returned
          probe,               \* it holds a half-open slot not given back
          down,                \* the service fails
          admin, adminCalls    \* where the administrator is; its calls so far

counters == <<m_failureCount, m_successCount>>
breaker == <<m_state, counters, m_halfOpenInFlight, age>>
governance == <<limiter, m_open_observed, m_count>>
adminVars == <<admin, adminCalls>>
breakerVars == <<breaker, governance, breakerPc, outcome, probe, down, adminVars>>

BreakerInit ==
    /\ limiter \in Limiters
    /\ m_state = "Closed"
    /\ m_failureCount = 0 /\ m_successCount = 0 /\ m_halfOpenInFlight = 0
    /\ age = ResetTicks
    /\ m_open_observed = FALSE /\ m_count = Capacity
    /\ breakerPc = [c \in Callers |-> "idle"]
    /\ outcome = [c \in Callers |-> "none"]
    /\ probe = [c \in Callers |-> FALSE]
    /\ down = FALSE
    /\ admin = "idle" /\ adminCalls \in {0, AdminCalls}

At(c, label) == breakerPc[c] = label
Move(c, label) == breakerPc' = [breakerPc EXCEPT ![c] = label]

\* The call is over: rejected, or reported.
EndCall(c) ==
    /\ Move(c, "idle")
    /\ outcome' = [outcome EXCEPT ![c] = "none"]
    /\ probe' = [probe EXCEPT ![c] = FALSE]

Stay(c) == UNCHANGED <<outcome, probe>>

-----------------------------------------------------------------------------
(* RpcGovernanceController::tryAcquire() and allowRequest() *)

\* The first call to see the breaker open is rejected without asking it.
TryAcquire(c) ==
    /\ At(c, "idle")
    /\ IF m_state = "Open" THEN Move(c, "observeOpen") ELSE Move(c, "load")
    /\ UNCHANGED <<breaker, governance, outcome, probe>>

ObserveOpen(c) ==
    /\ At(c, "observeOpen")
    /\ IF m_open_observed THEN Move(c, "load") ELSE Move(c, "idle")
    /\ m_open_observed' = TRUE
    /\ UNCHANGED <<breaker, limiter, m_count, outcome, probe>>

\* allowRequest(): the state decides, and once more after a move to HalfOpen.
LoadState(c) ==
    /\ breakerPc[c] \in {"load", "observe"}
    /\ \/ m_state = "Closed" /\ Move(c, "limit") /\ Stay(c)
       \/ m_state = "HalfOpen" /\ Move(c, "acquireProbe") /\ Stay(c)
       \/ m_state = "Open" /\ At(c, "load") /\ Move(c, "elapsed") /\ Stay(c)
       \/ m_state = "Open" /\ At(c, "observe") /\ EndCall(c)
    /\ UNCHANGED <<breaker, governance>>

CheckElapsed(c) ==
    /\ At(c, "elapsed")
    /\ IF age >= ResetTicks THEN Move(c, "halfOpen") /\ Stay(c) ELSE EndCall(c)
    /\ UNCHANGED <<breaker, governance>>

MoveToHalfOpen(c) ==
    /\ At(c, "halfOpen")
    /\ IF m_state = "Open"
       THEN m_state' = "HalfOpen" /\ Move(c, "clearCounts")
       ELSE UNCHANGED m_state /\ Move(c, "observe")
    /\ UNCHANGED <<counters, m_halfOpenInFlight, age, governance, outcome, probe>>

ClearCounts(c) ==
    /\ At(c, "clearCounts")
    /\ m_failureCount' = 0 /\ m_successCount' = 0
    /\ Move(c, "clearProbes")
    /\ UNCHANGED <<m_state, m_halfOpenInFlight, age, governance, outcome, probe>>

\* Mutant: the mover forgets the slots of the last half-open period.
ClearProbes_Keeps(c) ==
    /\ At(c, "clearProbes")
    /\ m_halfOpenInFlight' = IF outcome[c] = "none" THEN m_halfOpenInFlight ELSE 0
    /\ Move(c, IF outcome[c] = "none" THEN "observe" ELSE "settle")
    /\ UNCHANGED <<m_state, counters, age, governance, outcome, probe>>

\* A call being admitted looks at the state again; a reported one is done.
ClearProbes(c) ==
    /\ At(c, "clearProbes")
    /\ m_halfOpenInFlight' = 0
    /\ Move(c, IF outcome[c] = "none" THEN "observe" ELSE "settle")
    /\ UNCHANGED <<m_state, counters, age, governance, outcome, probe>>

tryAcquireHalfOpenProbe(c) ==
    /\ At(c, "acquireProbe")
    /\ IF m_halfOpenInFlight < HalfOpenMaxRequests
       THEN /\ m_halfOpenInFlight' = m_halfOpenInFlight + 1
            /\ probe' = [probe EXCEPT ![c] = TRUE]
            /\ Move(c, "limit") /\ UNCHANGED outcome
       ELSE EndCall(c) /\ UNCHANGED m_halfOpenInFlight
    /\ UNCHANGED <<m_state, counters, age, governance>>

\* The rate limiter is asked last; a refusal reports nothing to the breaker.
AcquirePermit(c) ==
    /\ At(c, "limit")
    /\ \/ /\ limiter = "semaphore" => m_count > 0
          /\ m_count' = IF limiter = "semaphore" THEN m_count - 1 ELSE m_count
          /\ Move(c, "running") /\ Stay(c)
       \/ /\ limiter = "bucket" \/ (limiter = "semaphore" /\ m_count = 0)
          /\ EndCall(c)
          /\ UNCHANGED m_count
    /\ UNCHANGED <<breaker, limiter, m_open_observed>>

-----------------------------------------------------------------------------
(* The operation; onSuccess() and onFailure() *)

Operate(c) ==
    /\ At(c, "running")
    /\ outcome' = [outcome EXCEPT ![c] = IF down THEN "failure" ELSE "success"]
    /\ Move(c, IF down THEN "onFailure" ELSE "onSuccess")
    /\ UNCHANGED <<breaker, governance, probe>>

onSuccess(c) ==
    /\ At(c, "onSuccess")
    /\ Move(c, CASE m_state = "Closed" -> "clearFailures"
                 [] m_state = "HalfOpen" -> "releaseProbe"
                 [] OTHER -> "settle")
    /\ UNCHANGED <<breaker, governance, outcome, probe>>

ClearFailures(c) ==
    /\ At(c, "clearFailures")
    /\ m_failureCount' = 0
    /\ Move(c, "settle")
    /\ UNCHANGED <<m_state, m_successCount, m_halfOpenInFlight, age, governance, outcome, probe>>

\* The time is stored before the state is read; it was read before that, and
\* may be any age when the store takes place.
onFailure(c) ==
    /\ At(c, "onFailure")
    /\ age' \in 0..ResetTicks
    /\ Move(c, "failed")
    /\ UNCHANGED <<m_state, counters, m_halfOpenInFlight, governance, outcome, probe>>

FailureState(c) ==
    /\ At(c, "failed")
    /\ Move(c, CASE m_state = "Closed" -> "countFailure"
                 [] m_state = "HalfOpen" -> "releaseProbe"
                 [] OTHER -> "settle")
    /\ UNCHANGED <<breaker, governance, outcome, probe>>

CountFailure(c) ==
    /\ At(c, "countFailure")
    /\ m_failureCount' = m_failureCount + 1
    /\ Move(c, IF m_failureCount' >= FailureThreshold THEN "trip" ELSE "settle")
    /\ UNCHANGED <<m_state, m_successCount, m_halfOpenInFlight, age, governance, outcome, probe>>

Trip(c) ==
    /\ At(c, "trip")
    /\ m_state' = IF m_state = "Closed" THEN "Open" ELSE m_state
    /\ Move(c, "settle")
    /\ UNCHANGED <<counters, m_halfOpenInFlight, age, governance, outcome, probe>>

\* Mutant: onSuccess() forgets releaseHalfOpenProbe().
releaseHalfOpenProbe_OnFailure(c) ==
    /\ At(c, "releaseProbe")
    /\ m_halfOpenInFlight' = IF outcome[c] = "failure" /\ m_halfOpenInFlight > 0
                             THEN m_halfOpenInFlight - 1 ELSE m_halfOpenInFlight
    /\ probe' = [probe EXCEPT ![c] = FALSE]
    /\ Move(c, IF outcome[c] = "success" THEN "countSuccess" ELSE "reopen")
    /\ UNCHANGED <<m_state, counters, age, governance, outcome>>

\* releaseHalfOpenProbe(), by whoever reports while the breaker is half open.
releaseHalfOpenProbe(c) ==
    /\ At(c, "releaseProbe")
    /\ m_halfOpenInFlight' = IF m_halfOpenInFlight > 0 THEN m_halfOpenInFlight - 1 ELSE 0
    /\ probe' = [probe EXCEPT ![c] = FALSE]
    /\ Move(c, IF outcome[c] = "success" THEN "countSuccess" ELSE "reopen")
    /\ UNCHANGED <<m_state, counters, age, governance, outcome>>

CountSuccess(c) ==
    /\ At(c, "countSuccess")
    /\ m_successCount' = m_successCount + 1
    /\ Move(c, IF m_successCount' >= SuccessThreshold THEN "close" ELSE "settle")
    /\ UNCHANGED <<m_state, m_failureCount, m_halfOpenInFlight, age, governance, outcome, probe>>

\* HalfOpen -> Closed after enough successes, HalfOpen -> Open after a
\* failure; whoever makes the move clears the counters.
LeaveHalfOpen(c) ==
    /\ breakerPc[c] \in {"close", "reopen"}
    /\ IF m_state = "HalfOpen"
       THEN /\ m_state' = IF At(c, "close") THEN "Closed" ELSE "Open"
            /\ Move(c, "clearCounts")
       ELSE UNCHANGED m_state /\ Move(c, "settle")
    /\ UNCHANGED <<counters, m_halfOpenInFlight, age, governance, outcome, probe>>

\* The controller looks at the state the report led to, forgets after it
\* that Open was observed, and release() gives the permit of a semaphore back.
Settle(c) ==
    /\ At(c, "settle")
    /\ Move(c, IF m_state = (IF outcome[c] = "success" THEN "Closed" ELSE "Open")
               THEN "forget" ELSE "release")
    /\ UNCHANGED <<breaker, governance, outcome, probe>>

ForgetOpen(c) ==
    /\ At(c, "forget")
    /\ m_open_observed' = FALSE
    /\ Move(c, "release")
    /\ UNCHANGED <<breaker, limiter, m_count, outcome, probe>>

ReleasePermit(c) ==
    /\ At(c, "release")
    /\ m_count' = IF limiter = "semaphore" THEN m_count + 1 ELSE m_count
    /\ EndCall(c)
    /\ UNCHANGED <<breaker, limiter, m_open_observed>>

-----------------------------------------------------------------------------
(* reset(), forceOpen(), the clock and the service *)

CallAdmin(call) ==
    /\ admin = "idle" /\ adminCalls < AdminCalls
    /\ admin' = call /\ adminCalls' = adminCalls + 1
    /\ UNCHANGED <<breaker, governance, breakerPc, outcome, probe, down>>

\* reset() stores the state first, forceOpen() last.
AdminStep ==
    /\ \/ admin = "reset" /\ m_state' = "Closed" /\ admin' = "resetCounts"
          /\ UNCHANGED <<counters, m_halfOpenInFlight, age>>
       \/ /\ admin \in {"resetCounts", "forceOpen"}
          /\ m_failureCount' = 0 /\ m_successCount' = 0 /\ m_halfOpenInFlight' = 0
          /\ age' = IF admin = "forceOpen" THEN 0 ELSE ResetTicks
          /\ admin' = IF admin = "forceOpen" THEN "open" ELSE "idle"
          /\ UNCHANGED m_state
       \/ admin = "open" /\ m_state' = "Open" /\ admin' = "idle"
          /\ UNCHANGED <<counters, m_halfOpenInFlight, age>>
    /\ UNCHANGED <<adminCalls, governance, breakerPc, outcome, probe, down>>

Tick ==
    /\ age < ResetTicks /\ age' = age + 1
    /\ UNCHANGED <<m_state, counters, m_halfOpenInFlight, governance, breakerPc,
                   outcome, probe, down, adminVars>>

ServiceTurns ==
    /\ down' = ~down
    /\ UNCHANGED <<breaker, governance, breakerPc, outcome, probe, adminVars>>

CallerStep(c) ==
    /\ \/ TryAcquire(c) \/ ObserveOpen(c) \/ LoadState(c) \/ CheckElapsed(c)
       \/ MoveToHalfOpen(c) \/ ClearCounts(c) \/ ClearProbes(c)
       \/ tryAcquireHalfOpenProbe(c) \/ AcquirePermit(c) \/ Operate(c)
       \/ onSuccess(c) \/ ClearFailures(c) \/ onFailure(c) \/ FailureState(c)
       \/ CountFailure(c) \/ Trip(c) \/ releaseHalfOpenProbe(c) \/ CountSuccess(c)
       \/ LeaveHalfOpen(c) \/ Settle(c) \/ ForgetOpen(c) \/ ReleasePermit(c)
    /\ UNCHANGED <<down, adminVars>>

BreakerNext ==
    \/ \E c \in Callers : CallerStep(c)
    \/ CallAdmin("reset") \/ CallAdmin("forceOpen") \/ AdminStep
    \/ Tick \/ ServiceTurns

BreakerSpec == BreakerInit /\ [][BreakerNext]_breakerVars

\* Calls keep coming, every thread runs, and time passes.
BreakerFairness ==
    /\ \A c \in Callers : WF_breakerVars(CallerStep(c))
    /\ WF_breakerVars(AdminStep) /\ WF_breakerVars(Tick)
BreakerFairSpec == BreakerSpec /\ BreakerFairness

-----------------------------------------------------------------------------
(* Properties *)

\* No half-open slot is lost: while the breaker is half open and nobody is
\* still clearing it, every slot counted in m_halfOpenInFlight is held by a
\* call that will report.  (A slot nobody gives back would reject all calls
\* for ever.)  Without a rate limiter.
NoLeakedProbe ==
    limiter = "off" /\ m_state = "HalfOpen"
    /\ (\A c \in Callers : breakerPc[c] \notin {"clearCounts", "clearProbes"}) =>
        m_halfOpenInFlight <= Cardinality({c \in Callers : probe[c]})

\* The class comment's transitions lead back to service: once the protected
\* service stays up and calls keep coming, the breaker closes for good.
Recovers ==
    (<>[](limiter = "off" /\ ~down)) => <>[](m_state = "Closed")

\* halfOpenMaxRequests is "the greatest number of concurrent probes allowed
\* while half open" (CircuitBreakerConfig).
ProbesBounded ==
    m_state = "HalfOpen" =>
        Cardinality({c \in Callers : probe[c]}) <= HalfOpenMaxRequests

\* The same as Recovers with the rate limiter on: a call that the limiter
\* refuses after the breaker let it through never gives its slot back.
RecoversLimited ==
    (<>[](limiter = "semaphore" /\ ~down)) => <>[](m_state = "Closed")
=============================================================================
