------------------------------ MODULE TimedAwait ------------------------------
(***************************************************************************)
(* What `co_await awaitable.timeout(t)` promises the coroutine: the wait   *)
(* is decided once, by the operation or by the timer, the coroutine is     *)
(* resumed only after the decision, and it is told the decision that was   *)
(* taken.  TimeoutTimer is the code that implements this.                  *)
(***************************************************************************)
VARIABLES outcome,   \* who decided the wait
          report     \* what await_resume told the coroutine

vars == <<outcome, report>>

Outcomes == {"undecided", "operation", "timeout"}

Init == outcome = "undecided" /\ report = "none"

\* The operation or the timer takes the decision; nobody takes it back.
Decide == /\ outcome = "undecided"
          /\ outcome' \in {"operation", "timeout"}
          /\ UNCHANGED report

\* The coroutine resumes and learns the decision.
Resume == /\ outcome # "undecided"
          /\ report = "none"
          /\ report' = outcome
          /\ UNCHANGED outcome

Next == Decide \/ Resume

Spec == Init /\ [][Next]_vars
=============================================================================
