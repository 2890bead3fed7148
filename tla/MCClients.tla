------------------------------ MODULE MCClients ------------------------------
(***************************************************************************)
(* Two connection pools in one run: the pool and the calls of the managed  *)
(* RPC client, and the Redis pool.  A behaviour is about one of them, the  *)
(* subject; the other one stays in its initial state, in which it has      *)
(* nothing to do.                                                          *)
(***************************************************************************)
EXTENDS MCRpc, MCRedis

VARIABLE subject

clientVars == <<subject, rpcVars, redisVars>>

ClientsInit ==
    /\ subject \in {"rpc", "redis"}
    /\ RpcInit /\ RedisInit
    /\ subject # "rpc" => behaviour = CHOOSE w \in Worlds : TRUE
    /\ subject # "redis" => setup = CHOOSE s \in Setups : TRUE

ClientsNext ==
    \/ subject = "rpc" /\ RpcNext /\ UNCHANGED <<subject, redisVars>>
    \/ subject = "redis" /\ RedisNext /\ UNCHANGED <<subject, rpcVars>>

ClientsSpec == ClientsInit /\ [][ClientsNext]_clientVars /\ RpcFairness /\ RedisFairness
=============================================================================
