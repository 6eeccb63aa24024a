------------------------------ MODULE MCServices ------------------------------
(* The two parts whose liveness is in doubt, one of them in each behaviour:     *)
(* the requests of a proxy and the quality gate of a team.  The fairness of the *)
(* idle part asks for nothing: no request has arrived, no task is open.         *)
EXTENDS ProxyServer, TeamPolicy

VARIABLE component

Init ==
    /\ component \in {"server", "team"}
    /\ ServerInit /\ TeamInit
    /\ component = "server" => open = {}

Next ==
    /\ UNCHANGED component
    /\ IF component = "server" THEN ServerNext ELSE UNCHANGED serverVars
    /\ IF component = "team" THEN TeamNext ELSE UNCHANGED teamVars

Spec == Init /\ [][Next]_<<component, serverVars, teamVars>> /\ ServerFairness /\ TeamFairness
================================================================================
