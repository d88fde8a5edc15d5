----------------------------- MODULE MCEdgeAgent -----------------------------
(* Two commands for TLC: a query at the limit the policy allows, and a REST   *)
(* call to a resource no pattern matches.                                     *)
EXTENDS EdgeAgent

Deployment(strict, flagId, token, faults) ==
    [strict |-> strict, flagId |-> flagId, token |-> token, faults |-> faults]

MCConfigs == {Deployment(FALSE, TRUE, TRUE, TRUE), Deployment(TRUE, TRUE, FALSE, FALSE),
              Deployment(TRUE, FALSE, TRUE, FALSE)}

MCCommands == 1 .. 2
MCParams ==
    [c \in MCCommands |->
        IF c = 1 THEN [connector |-> "postgres", connection |-> "orders-db", operation |-> "read",
                       resource |-> <<"orders">>, limit |-> 500]
        ELSE [connector |-> "rest", connection |-> "warehouse-api", operation |-> "post",
              resource |-> <<"refunds">>, limit |-> 0]]
=============================================================================
