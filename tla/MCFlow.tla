-------------------------------- MODULE MCFlow --------------------------------
(* The connections of the runs. *)
EXTENDS Http2Flow

Plain ==
    [mode |-> "handler", tls |-> FALSE, initial |-> [client |-> Default, server |-> Default],
     target |-> Default, limit |-> Cardinality(Ids), request |-> <<>>, response |-> <<1>>,
     ahead |-> TRUE, waits |-> TRUE, eager |-> FALSE, cancels |-> FALSE]

\* Uploads and downloads larger than the windows; other windows than the
\* default; a server at its limit; cancelled requests.
Uploads == [Plain EXCEPT !.request = <<Default + 2>>, !.response = <<>>]
Downloads == [Plain EXCEPT !.mode = "active", !.response = <<1, Default>>,
                           !.target = Default + 2, !.waits = FALSE]
Windows == [Uploads EXCEPT !.mode = "active", !.target = 0,
                           !.initial = [client |-> 3, server |-> 2 * Default]]
Limited == [Plain EXCEPT !.limit = 1, !.ahead = FALSE]
Secure == [Downloads EXCEPT !.mode = "handler", !.tls = TRUE, !.waits = TRUE]
Cancelled == [Uploads EXCEPT !.request = <<1>>, !.cancels = TRUE]

\* Connections on which a request may never end, or be refused.
CancelledUpload == {[Uploads EXCEPT !.cancels = TRUE]}
LateSettings == {[Uploads EXCEPT !.tls = TRUE, !.initial.server = 2]}
UnwaitedReply == {[Plain EXCEPT !.response = <<Default + 2>>, !.waits = FALSE]}
LimitedOnly == {Limited}

SomeConnections == {Uploads, Downloads, Windows, Limited, Secure, Cancelled}
=============================================================================
