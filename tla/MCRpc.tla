-------------------------------- MODULE MCRpc --------------------------------
(* Two endpoints for RpcManagedClient. *)
EXTENDS RpcManagedClient
TwoEndpoints == <<"a", "b">>
SomeWorlds == {[a |-> "up", b |-> "down"], [a |-> "flaky", b |-> "up"]}
=============================================================================
