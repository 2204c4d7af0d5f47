------------------------------- MODULE MCJobs -------------------------------
EXTENDS Jobs, TLC
CONSTANTS i1, i2, key
MCPriority == (i1 :> 1) @@ (i2 :> 0)
MCDedupKey == (i1 :> key) @@ (i2 :> key)
=============================================================================
