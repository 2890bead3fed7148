-------------------------------- MODULE MCSql --------------------------------
(* Configurations of SqlPool: three callers on one thread with reliable     *)
(* connections, two or three on several threads with every fault, and those *)
(* of the documented disagreements.                                         *)
EXTENDS SqlPool
CONSTANTS q1, q2
Calm(k, n) == [kind |-> k, min |-> 1, max |-> n, users |-> Callers, oneThread |-> TRUE,
               connectFails |-> FALSE, breaks |-> k = "mysql"]
Stormy(k, n, who) == [kind |-> k, min |-> 0, max |-> n, users |-> who, oneThread |-> FALSE,
                      connectFails |-> TRUE, breaks |-> TRUE]
Parallel == [Calm("mysql", 1) EXCEPT !.oneThread = FALSE, !.users = {q1, q2}]
SomeSqlSetups ==
    {Calm(k, n) : k \in {"mysql", "postgres"}, n \in {1, 2}}
    \cup {Stormy("mysql", 1, {q1, q2}), Stormy("postgres", 1, {q1, q2}),
          Stormy("postgres", 2, Callers), Parallel}
ParallelOnly == {Parallel}
FailingMysql == {[Calm("mysql", 1) EXCEPT !.connectFails = TRUE]}
FailingPostgres == {[Calm("postgres", 1) EXCEPT !.connectFails = TRUE]}
BrokenPostgres == {[Calm("postgres", 1) EXCEPT !.breaks = TRUE]}
==============================================================================
