------------------------------ MODULE MCAwaits ------------------------------
(***************************************************************************)
(* Two kinds of await in one run: that of an operation with a timeout, and *)
(* that of a connection of the MySQL and PostgreSQL pools.  A behaviour is *)
(* about one of them, the subject; the other one stays in an initial state.*)
(***************************************************************************)
EXTENDS TimeoutTimer, MCSql

VARIABLE subject

AwaitsInit ==
    /\ subject \in {"timeout", "sql"}
    /\ Init /\ SqlInit
    /\ subject # "sql" => sqlSetup = Calm("mysql", 1)
    /\ subject # "timeout" => scheduler

AwaitsNext ==
    \/ subject = "timeout" /\ Next /\ UNCHANGED <<subject, sqlVars>>
    \/ subject = "sql" /\ SqlNext /\ UNCHANGED <<subject, vars>>

\* The fairness of the two.  The coroutine has a step in the initial state, so
\* its fairness names the subject.
AwaitsSpec ==
    /\ AwaitsInit /\ [][AwaitsNext]_<<subject, vars, sqlVars>>
    /\ SqlFairness
    /\ WF_vars(subject = "timeout" /\ AwaiterStep)
    /\ WF_vars(subject = "timeout" /\ handleTimeout)
    /\ \A t \in Threads : WF_vars(WakeStep(t))
    /\ \A o \in Ops : WF_vars(commitOperation(o) \/ abortOperation(o))
=============================================================================
