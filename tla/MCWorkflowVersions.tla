-------------------------- MODULE MCWorkflowVersions --------------------------
(***************************************************************************)
(* Definitions for the runs of WorkflowVersions.  "carries" has the id of  *)
(* its workflow and schema version 2 inside, "plain" and the built-in one  *)
(* have the defaults.                                                      *)
(***************************************************************************)
EXTENDS WorkflowVersions

MCDefinitions == {"builtin", "plain", "carries"}
MCIdOf == [d \in MCDefinitions |-> IF d = "carries" THEN "orders" ELSE NoId]
MCSchemaVersion == [d \in MCDefinitions |-> IF d = "carries" THEN 2 ELSE 1]
=============================================================================
