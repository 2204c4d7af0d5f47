----------------------------- MODULE MCWorkflow -----------------------------
EXTENDS Workflow, TLC
\* a request that is taken and given back, expires when nobody takes it, and is given back when stuck
MCStates == {"requested", "assigned", "done", "expired"}
MCTransition == ("requested" :> {"assigned"}) @@ ("assigned" :> {"requested", "done"})
                  @@ ("done" :> {}) @@ ("expired" :> {})
MCTimeout == ("requested" :> "expired") @@ ("assigned" :> "requested")
=============================================================================
