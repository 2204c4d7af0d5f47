----------------------------- MODULE MCScheduler -----------------------------
EXTENDS Scheduler, TLC
CONSTANTS j1, j2
MCPriority == (j1 :> 2) @@ (j2 :> 1)
=============================================================================
