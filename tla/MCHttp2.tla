------------------------------- MODULE MCHttp2 -------------------------------
(***************************************************************************)
(* The HTTP/2 streams with their flow control and the HTTP/2 stream        *)
(* manager's life cycle in one run.  A behaviour is about one of them, the *)
(* subject; the other one stays in an initial state.                       *)
(***************************************************************************)
EXTENDS MCFlow, MCManager

VARIABLE subject

http2Vars == <<subject, flowVars, managerVars>>

Http2Init ==
    /\ subject \in {"flow", "manager"}
    /\ FlowInit /\ ManagerInit
    /\ subject # "flow" => setup = Uploads
    /\ subject # "manager" => service = Service({}, {})

Http2Next ==
    \/ subject = "flow" /\ FlowNext /\ UNCHANGED <<subject, managerVars>>
    \/ subject = "manager" /\ ManagerNext /\ UNCHANGED <<subject, flowVars>>

\* The fairness of the two.  The client's SETTINGS are waiting to be read in
\* the initial state, so the readers' fairness names the subject.
Http2Spec ==
    /\ Http2Init /\ [][Http2Next]_http2Vars
    /\ ManagerFairness
    /\ \A e \in Ends :
          <>[](subject = "flow" /\ conn[Peer(e)].out # <<>>) => []<><<Read(e)>>_flowVars
    /\ \A s \in Ids : HandlerRuns(s) /\ WF_flowVars(Answered(s)) /\ WF_flowVars(Return(s))
=============================================================================
