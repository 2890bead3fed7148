------------------------------- MODULE MCManager -------------------------------
(***************************************************************************)
(* Http2Manager with two streams.  A service is named by what it does:     *)
(* "client", "active", "remote", "replies" and "prompt" as in Http2Manager.*)
(***************************************************************************)
EXTENDS Http2Manager

Streams == {"h1", "h2"}
Service(does, faults) ==
    [client |-> "client" \in does, active |-> "active" \in does, first |-> "h1",
     remote |-> "remote" \in does, replies |-> "replies" \in does,
     prompt |-> "prompt" \in does, faults |-> faults]

SomeServices ==
    {Service({"replies", "prompt"}, {}), Service({}, {}), Service({"remote"}, {}),
     Service({}, {"lost"}), Service({}, {"silent"}), Service({"replies"}, {"error", "memory"}),
     Service({}, {"memory", "silent"}), Service({"active"}, {"lost"}), Service({"client"}, {})}

Lossy == {Service({"prompt"}, {"lost"})}
LossyReplies == {Service({"replies", "prompt"}, {"lost"})}
SlowReplies == {Service({"replies"}, {})}
Remote == {Service({"remote", "prompt"}, {})}
=============================================================================
