-------------------------- MODULE MCPlanAuthoring --------------------------
(* Instances of PlanAuthoring for TLC.                                     *)
EXTENDS PlanAuthoring, TLC
CONSTANT p
=============================================================================
