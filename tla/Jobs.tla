-------------------------------- MODULE Jobs --------------------------------
(***************************************************************************)
(* The jobs kernel (application/jobs/jobsService.js): enqueue with          *)
(* duplicate detection, cancel, and tick with its recovery pass and its     *)
(* due jobs, over a store whose writes may fail.  Calls of tick are not      *)
(* guarded against each other; the work on one job is serialised by the     *)
(* job's promise chain.  Every await that another call can overtake is a    *)
(* step boundary.  Time is abstracted to whether a job is due: its next      *)
(* attempt may start, or, running, its budget has passed.                    *)
(***************************************************************************)
EXTENDS Naturals, Sequences, FiniteSets

CONSTANTS
  Ids,          \* job ids, one per enqueue
  Priority,     \* [Ids -> Nat]; ties are broken by the choice of ids
  Keys, NoKey,  \* values of dedupKey, and its null
  DedupKey,     \* [Ids -> Keys \cup {NoKey}]
  MaxAttempts,  \* retryPolicy.maxAttempts
  Ticks,        \* bound: calls of tick() at one time
  Cancels,      \* bound: calls of cancel() at one time
  NoId,         \* no job
  MaxFaults     \* bound: writes the store rejects

ASSUME ConstantsAssumption ==
  /\ NoKey \notin Keys /\ NoId \notin Ids /\ Ticks \cap Cancels = {}
  /\ Priority \in [Ids -> Nat] /\ DedupKey \in [Ids -> Keys \cup {NoKey}]
  /\ MaxAttempts \in Nat \ {0} /\ MaxFaults \in Nat

VARIABLES
  stored,  \* the provider's models, with what _statusIndex says of them
  dedup,   \* _dedup: per key the job that holds it
  enq,     \* per job: where its enqueue stands
  chain,   \* _locks: per job the calls that wait or run, the running one first
  tick,    \* per call of tick(): phase, jobs left, the job it works on, the jobs due at its "now"
  cancel,  \* per call of cancel(): its job
  faults,  \* writes rejected so far
  inTime,  \* jobs whose handler has returned within the budget
  lost,    \* jobs whose completion the store did not take
  raced,   \* keys with which two enqueues have been in progress at once
  overlap  \* whether the latest call of tick began while another was in progress

vars == <<stored, dedup, enq, chain, tick, cancel, faults, inTime, lost, raced, overlap>>
ghosts == <<inTime, lost, raced, overlap>>

Runnable == {"queued", "scheduled", "retrying"}
Terminal == {"completed", "cancelled", "dead_letter"}
Statuses == {"absent", "running"} \cup Runnable \cup Terminal
Absent == [status |-> "absent", attempts |-> 0, due |-> FALSE]
NoTick == [at |-> "none", todo |-> {}, job |-> NoId, sees |-> {}]
NoEnq == [at |-> "idle", found |-> FALSE]

Has(i, status) == stored[i].status = status
Live(i) == stored[i].status \in {"running"} \cup Runnable
First(i, p) == chain[i] # <<>> /\ Head(chain[i]) = p
Join(i, p) == chain' = [chain EXCEPT ![i] = Append(@, p)]
Leave(i) == chain' = [chain EXCEPT ![i] = Tail(@)]
Active(t) == tick[t].at # "none"

Init ==
  /\ stored = [i \in Ids |-> Absent]
  /\ dedup = [k \in Keys |-> NoId]
  /\ enq = [i \in Ids |-> NoEnq]
  /\ chain = [i \in Ids |-> <<>>]
  /\ tick = [t \in Ticks |-> NoTick]
  /\ cancel = [c \in Cancels |-> NoId]
  /\ faults = 0 /\ inTime = {} /\ lost = {} /\ raced = {} /\ overlap = FALSE

Fault == faults < MaxFaults /\ faults' = faults + 1

(******************************* ENQUEUE ***********************************)

\* _create: the key is free, or the job that holds it is read (the answer comes after the await)
Enqueue(i) ==
  /\ Has(i, "absent") /\ enq[i].at = "idle"
  /\ LET k == DedupKey[i]
         holder == IF k = NoKey THEN NoId ELSE dedup[k] IN
     /\ enq' = [enq EXCEPT ![i] = [at |-> IF holder = NoId THEN "persist" ELSE "check",
                                   found |-> holder # NoId /\ Live(holder)]]
     /\ dedup' = IF k # NoKey /\ holder = NoId THEN [dedup EXCEPT ![k] = i] ELSE dedup
     /\ raced' = IF \E e \in Ids : enq[e].at \in {"check", "persist"} /\ DedupKey[e] = k
                 THEN raced \cup {k} ELSE raced
  /\ UNCHANGED <<stored, chain, tick, cancel, faults, inTime, lost, overlap>>

\* Faulty variant of Check: the key is taken over whatever the holder's status.
CheckTakesOver(i) ==
  /\ enq[i].at = "check"
  /\ enq' = [enq EXCEPT ![i].at = "persist"] /\ dedup' = [dedup EXCEPT ![DedupKey[i]] = i]
  /\ UNCHANGED <<stored, chain, tick, cancel, faults, ghosts>>

\* the holder was found live: the call answers with it; otherwise the key is taken over
Check(i) ==
  /\ enq[i].at = "check"
  /\ IF enq[i].found
     THEN enq' = [enq EXCEPT ![i] = NoEnq] /\ UNCHANGED dedup
     ELSE enq' = [enq EXCEPT ![i].at = "persist"] /\ dedup' = [dedup EXCEPT ![DedupKey[i]] = i]
  /\ UNCHANGED <<stored, chain, tick, cancel, faults, ghosts>>

\* enqueue or schedule writes the job; a rejected write leaves nothing but the key
Persist(i) ==
  /\ enq[i].at = "persist"
  /\ \/ /\ \E s \in {"queued", "scheduled"} :
             stored' = [stored EXCEPT ![i].status = s, ![i].due = (s = "queued")]
        /\ enq' = [enq EXCEPT ![i].at = "done"]
        /\ UNCHANGED faults
     \/ /\ Fault /\ enq' = [enq EXCEPT ![i].at = "failed"] /\ UNCHANGED stored
  /\ UNCHANGED <<dedup, chain, tick, cancel, ghosts>>

(******************************** TIME *************************************)

\* scheduledTime or nextAttemptAt comes, or the attempt has lasted longer than its timeout
Elapse(i) ==
  /\ Live(i) /\ ~stored[i].due
  /\ stored' = [stored EXCEPT ![i].due = TRUE]
  /\ UNCHANGED <<dedup, enq, chain, tick, cancel, faults, ghosts>>

(******************************* TICK **************************************)

\* tick() starts with the recovery pass over the running jobs that are past their timeout
TickCall(t) ==
  /\ ~Active(t)
  /\ \E i \in Ids : Live(i)
  /\ tick' = [tick EXCEPT ![t] =
       [at |-> "recover", todo |-> {i \in Ids : Has(i, "running") /\ stored[i].due}, job |-> NoId,
        sees |-> {i \in Ids : stored[i].status \in Runnable /\ stored[i].due}]]
  /\ overlap' = \E u \in Ticks : Active(u)
  /\ UNCHANGED <<stored, dedup, enq, chain, cancel, faults, inTime, lost, raced>>

\* Faulty variant of RecoverNext: running jobs are left alone.
RecoverNextSkips(t) ==
  /\ tick[t].at = "recover" /\ tick[t].job = NoId
  /\ \E i \in tick[t].todo : tick' = [tick EXCEPT ![t].todo = @ \ {i}]
  /\ UNCHANGED <<stored, dedup, enq, chain, cancel, faults, ghosts>>

\* one that is still running is waited for on its chain
RecoverNext(t) ==
  /\ tick[t].at = "recover" /\ tick[t].job = NoId
  /\ \E i \in tick[t].todo :
       IF Has(i, "running")
       THEN tick' = [tick EXCEPT ![t].todo = @ \ {i}, ![t].job = i] /\ Join(i, t)
       ELSE tick' = [tick EXCEPT ![t].todo = @ \ {i}] /\ UNCHANGED chain
  /\ UNCHANGED <<stored, dedup, enq, cancel, faults, ghosts>>

\* Faulty variant of Collect: nextAttemptAt is not compared.
CollectUndue(t) ==
  /\ tick[t].at = "recover" /\ tick[t].job = NoId /\ tick[t].todo = {}
  /\ tick' = [tick EXCEPT ![t].at = "run", ![t].sees = {},
                          ![t].todo = {i \in Ids : stored[i].status \in Runnable}]
  /\ UNCHANGED <<stored, dedup, enq, chain, cancel, faults, ghosts>>

\* the due jobs are collected, with the "now" of the call
Collect(t) ==
  /\ tick[t].at = "recover" /\ tick[t].job = NoId /\ tick[t].todo = {}
  /\ tick' = [tick EXCEPT ![t].at = "run", ![t].sees = {},
       ![t].todo = {i \in Ids : stored[i].status \in Runnable /\ (Has(i, "queued") \/ i \in tick[t].sees)}]
  /\ UNCHANGED <<stored, dedup, enq, chain, cancel, faults, ghosts>>

\* the due jobs are run one after the other, by priority
RunNext(t) ==
  /\ tick[t].at = "run" /\ tick[t].job = NoId
  /\ IF tick[t].todo = {} THEN tick' = [tick EXCEPT ![t] = NoTick] /\ UNCHANGED chain
     ELSE \E i \in tick[t].todo :
            /\ \A j \in tick[t].todo : Priority[i] >= Priority[j]
            /\ tick' = [tick EXCEPT ![t].todo = @ \ {i}, ![t].job = i]
            /\ Join(i, t)
  /\ UNCHANGED <<stored, dedup, enq, cancel, faults, ghosts>>

\* the call of tick is through with job i: it goes on, or its promise rejects
Onward(t, i) == Leave(i) /\ tick' = [tick EXCEPT ![t].job = NoId]
Rejects(t, i) == Leave(i) /\ tick' = [tick EXCEPT ![t] = NoTick]

\* _handleFailure: a retry after its delay (backoffMs > 0), or the dead letter
Failure(i) ==
  stored' = [stored EXCEPT ![i].status = IF stored[i].attempts < MaxAttempts THEN "retrying" ELSE "dead_letter",
                           ![i].due = FALSE]
\* its nextAttemptAt, or its next one, lies after the "now" of the calls in progress
Unseen(i, ticks) == [u \in Ticks |-> [ticks[u] EXCEPT !.sees = @ \ {i}]]

\* inside the chain only the status is looked at again, not the time
Recover(t) ==
  LET i == tick[t].job IN
  /\ tick[t].at = "recover" /\ i # NoId /\ First(i, t)
  /\ \/ ~Has(i, "running") /\ Onward(t, i) /\ UNCHANGED <<stored, faults>>
     \/ Has(i, "running") /\ Failure(i) /\ Leave(i) /\ tick' = Unseen(i, [tick EXCEPT ![t].job = NoId])
        /\ UNCHANGED faults
     \/ Has(i, "running") /\ Fault /\ Rejects(t, i) /\ UNCHANGED stored
  /\ UNCHANGED <<dedup, enq, cancel, ghosts>>

\* Faulty variant of Begin: the job is run as it was collected.
BeginStale(t) ==
  LET i == tick[t].job IN
  /\ tick[t].at = "run" /\ i # NoId /\ First(i, t)
  /\ stored' = [stored EXCEPT ![i] = [status |-> "running", attempts |-> @.attempts + 1, due |-> FALSE]]
  /\ tick' = [tick EXCEPT ![t].at = "handler"]
  /\ UNCHANGED <<dedup, enq, chain, cancel, faults, ghosts>>

\* _runJob: read again inside the chain, marked running; its budget is counted from the tick's "now",
\* so a job that waited behind others may begin with none left
Begin(t) ==
  LET i == tick[t].job IN
  /\ tick[t].at = "run" /\ i # NoId /\ First(i, t)
  /\ \/ /\ stored[i].status \notin Runnable
        /\ Onward(t, i) /\ UNCHANGED <<stored, faults>>
     \/ /\ stored[i].status \in Runnable
        /\ \E over \in BOOLEAN :
             stored' = [stored EXCEPT ![i] = [status |-> "running", attempts |-> @.attempts + 1, due |-> over]]
        /\ tick' = Unseen(i, [tick EXCEPT ![t].at = "handler"])
        /\ UNCHANGED <<chain, faults>>
     \/ stored[i].status \in Runnable /\ Fault /\ Rejects(t, i) /\ UNCHANGED stored
  /\ UNCHANGED <<dedup, enq, cancel, ghosts>>

InHandler(t, i) == tick[t].at = "handler" /\ tick[t].job = i
GoesOn(t) == [tick EXCEPT ![t].at = "run", ![t].job = NoId]

\* the handler returned within the budget and the store took the completion
Complete(t, i) ==
  /\ InHandler(t, i) /\ ~stored[i].due
  /\ stored' = [stored EXCEPT ![i].status = "completed"]
  /\ Leave(i) /\ tick' = GoesOn(t)
  /\ inTime' = inTime \cup {i}
  /\ UNCHANGED <<dedup, enq, cancel, faults, lost, raced, overlap>>

\* the handler threw, or returned too late
Fail(t, i) ==
  /\ InHandler(t, i)
  /\ Failure(i) /\ Leave(i)
  /\ tick' = Unseen(i, GoesOn(t))
  /\ UNCHANGED <<dedup, enq, cancel, faults, ghosts>>

\* the store rejects the completion: the catch block treats it as a failure of the job
CompletionLost(t, i) ==
  /\ InHandler(t, i) /\ ~stored[i].due /\ Fault
  /\ Failure(i) /\ Leave(i)
  /\ tick' = Unseen(i, GoesOn(t))
  /\ inTime' = inTime \cup {i} /\ lost' = lost \cup {i}
  /\ UNCHANGED <<dedup, enq, cancel, raced, overlap>>

\* the store rejects the failure too: the job stays running with nobody at it, the tick rejects
Orphan(t, i) ==
  /\ InHandler(t, i) /\ Fault
  /\ Rejects(t, i)
  /\ lost' = lost \cup {i}
  /\ UNCHANGED <<stored, dedup, enq, cancel, inTime, raced, overlap>>

(******************************** CANCEL ***********************************)

CancelCall(c, i) ==
  /\ cancel[c] = NoId /\ Live(i)
  /\ cancel' = [cancel EXCEPT ![c] = i]
  /\ Join(i, c)
  /\ UNCHANGED <<stored, dedup, enq, tick, faults, ghosts>>

\* a running or finished job is not cancelled
Cancel(c) ==
  LET i == cancel[c] IN
  /\ i # NoId /\ First(i, c)
  /\ \/ /\ stored' = IF stored[i].status \in Runnable
                     THEN [stored EXCEPT ![i].status = "cancelled", ![i].due = FALSE] ELSE stored
        /\ UNCHANGED faults
     \/ stored[i].status \in Runnable /\ Fault /\ UNCHANGED stored
  /\ cancel' = [cancel EXCEPT ![c] = NoId]
  /\ Leave(i)
  /\ UNCHANGED <<dedup, enq, tick, ghosts>>

HandlerEnds(t) ==
  \E i \in Ids : Complete(t, i) \/ Fail(t, i) \/ CompletionLost(t, i) \/ Orphan(t, i)

Step(t) ==
  RecoverNext(t) \/ Collect(t) \/ RunNext(t) \/ Recover(t) \/ Begin(t) \/ HandlerEnds(t)

Next ==
  \/ \E i \in Ids : Enqueue(i) \/ Check(i) \/ Persist(i) \/ Elapse(i)
  \/ \E t \in Ticks : TickCall(t) \/ Step(t)
  \/ \E c \in Cancels : Cancel(c) \/ \E i \in Ids : CancelCall(c, i)

Spec == Init /\ [][Next]_vars

\* Promises are run, time passes, tick is called again and again, every handler ends.
Fairness ==
  /\ \A t \in Ticks : WF_vars(Step(t))
  /\ WF_vars(\E t \in Ticks : TickCall(t))
  /\ \A i \in Ids : WF_vars(Check(i) \/ Persist(i)) /\ WF_vars(Elapse(i))
  /\ \A c \in Cancels : WF_vars(Cancel(c))

LiveSpec == Spec /\ Fairness

(******************************* PROPERTIES ********************************)

\* The variables keep their shapes, and whoever works on a job's model is first on its chain.
TypeOK ==
  /\ stored \in [Ids -> [status : Statuses, attempts : 0..MaxAttempts, due : BOOLEAN]]
  /\ dedup \in [Keys -> Ids \cup {NoId}]
  /\ enq \in [Ids -> [at : {"idle", "check", "persist", "done", "failed"}, found : BOOLEAN]]
  /\ chain \in [Ids -> Seq(Ticks \cup Cancels)]
  /\ tick \in [Ticks -> [at : {"none", "recover", "run", "handler"}, todo : SUBSET Ids,
                         job : Ids \cup {NoId}, sees : SUBSET Ids]]
  /\ cancel \in [Cancels -> Ids \cup {NoId}]
  /\ faults \in 0..MaxFaults
  /\ inTime \subseteq Ids /\ lost \subseteq Ids /\ raced \subseteq Keys \cup {NoKey} /\ overlap \in BOOLEAN
  /\ \A t \in Ticks, i \in Ids : InHandler(t, i) => First(i, t)

\* Overlapping ticks never run the handler of one job at the same time, and while it runs the store
\* says so: neither a cancel nor a recovery pass changes the job under it.
OneAttemptAtATime ==
  /\ \A t, u \in Ticks, i \in Ids : InHandler(t, i) /\ InHandler(u, i) => t = u
  /\ \A t \in Ticks, i \in Ids : InHandler(t, i) => Has(i, "running")

\* Outside a race of enqueues, a dedupKey has at most one job that is not finished.
DedupHolds ==
  \A k \in Keys \ raced : Cardinality({i \in Ids : DedupKey[i] = k /\ Live(i)}) <= 1

\* The invariants above together: at every step of overlapping ticks, cancels, enqueues and rejected
\* writes a job has one attempt at a time and a dedupKey one live job.
JobsAreSound == TypeOK /\ OneAttemptAtATime /\ DedupHolds

\* A finished job never runs again, whatever ticks had it on their lists.
TerminalIsFinal ==
  [][ \A i \in Ids : stored[i].status \in Terminal => stored'[i].status = stored[i].status ]_vars

\* A handler that returned in time is run again only when the store has lost its completion.
WorkIsNotRepeated ==
  [][ \A i \in Ids : i \in inTime /\ stored'[i].attempts > stored[i].attempts => i \in lost ]_vars

\* A retry starts after its delay, unless calls of tick have overlapped: a tick that had collected the
\* job before the failure runs it at once.
RetryWaits ==
  [][ \A i \in Ids : Has(i, "retrying") /\ stored'[i].status = "running" => stored[i].due \/ overlap ]_vars

\* Every job is completed, cancelled or dead-lettered in the end, although the store rejects writes
\* and leaves jobs running with nobody at them: every job here has a timeout, and every handler ends.
EveryJobIsDecided == <>[](\A i \in Ids : ~Live(i))

=============================================================================
