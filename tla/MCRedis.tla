------------------------------- MODULE MCRedis -------------------------------
(* Configurations of RedisPool: one thread without faults, several threads *)
(* with faults, several threads with a timeout.                            *)
EXTENDS RedisPool
CONSTANT t1
AllOps == {"cleanup", "expand", "shrink", "shutdown"}
OneThread == [timed |-> {}, oneThread |-> TRUE, faulty |-> FALSE, min |-> 0, ops |-> AllOps]
Faulty == [timed |-> {}, oneThread |-> FALSE, faulty |-> TRUE, min |-> 1,
           ops |-> {"cleanup", "expand", "shutdown"}]
Timeouts == [timed |-> {t1}, oneThread |-> FALSE, faulty |-> FALSE, min |-> 0, ops |-> {}]
Racing == [timed |-> {}, oneThread |-> FALSE, faulty |-> FALSE, min |-> 0, ops |-> {}]
SomeSetups == {OneThread, Faulty, Timeouts}
RacingOnly == {Racing}
TimeoutsOnly == {Timeouts}
=============================================================================
