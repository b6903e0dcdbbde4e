---------------------------- MODULE MCPlanLedger ----------------------------
EXTENDS PlanLedger, TLC
=============================================================================
