------------------------------ MODULE Scheduler ------------------------------
(***************************************************************************)
(* The scheduler kernel (application/scheduler/scheduler.js): a tick       *)
(* drains the due jobs through a limited number of executions, beside       *)
(* cancel, pause, resume, runNow, recover and shutdown, which may be called *)
(* while executions and other ticks are in flight.  Time is abstracted to   *)
(* whether a job's nextRun has come, and for each tick to the set of jobs   *)
(* whose nextRun lies at or before the "now" it was called with.            *)
(***************************************************************************)
EXTENDS Naturals, FiniteSets

CONSTANTS
  Jobs,        \* job ids
  Recurring,   \* the interval and cron jobs among them
  Priority,    \* [Jobs -> Nat]
  Concurrency, \* deps.concurrency
  MaxRetries,  \* retryPolicy.maxAttempts
  Ticks,       \* bound: calls of tick() at one time
  NoTick,      \* the null of _ticking, and the owner of an execution by runNow
  MaxOps       \* bound: calls of cancel, pause, resume, runNow, recover

ASSUME ConstantsAssumption ==
  /\ IsFiniteSet(Jobs) /\ Recurring \subseteq Jobs
  /\ Priority \in [Jobs -> Nat]
  /\ Concurrency \in Nat \ {0} /\ MaxRetries \in Nat /\ MaxOps \in Nat
  /\ NoTick \notin Ticks

VARIABLES
  job,        \* records: status, status before pause, retries, due, control.cancelled, runningSince
  execs,      \* the calls of _execute in flight
  running,    \* the running counter
  tick,       \* per call of tick(): where it stands and the jobs its "now" covers
  main,       \* _ticking: the call whose promise later calls wait for
  draining,   \* _draining
  drained,    \* TRUE once shutdown has answered { drained: true }
  ops,        \* calls counted against MaxOps
  forked,     \* jobs put back to work while an execution of theirs was in flight
  outlived    \* jobs whose execution completed normally after a cancel

vars == <<job, execs, running, tick, main, draining, drained, ops, forked, outlived>>

Statuses == {"absent", "scheduled", "running", "completed", "failed", "cancelled", "paused",
             "retrying"}
Absent == [status |-> "absent", before |-> "absent", retries |-> 0, due |-> FALSE,
           cancelled |-> FALSE, since |-> FALSE]
NoCall == [at |-> "none", sees |-> {}]
Decremented(n) == IF n = 0 THEN 0 ELSE n - 1

ExecsOf(j) == {x \in execs : x.job = j}
ExecsBy(t) == {x \in execs : x.tick = t}
\* executions are told apart by nth; two of one job overlap at most (bound in RunNow and Recover)
NewExec(j, t) == [job |-> j, tick |-> t, nth |-> IF \E x \in execs : x.job = j /\ x.nth = 1 THEN 2 ELSE 1]

\* Faulty variant of IsDue: a running job whose nextRun has come is picked again.
IsDueRunning(j) == job[j].status \in {"scheduled", "retrying", "running"} /\ job[j].due
IsDue(j) == job[j].status \in {"scheduled", "retrying"} /\ job[j].due

Init ==
  /\ job = [j \in Jobs |-> Absent]
  /\ execs = {} /\ running = 0
  /\ tick = [t \in Ticks |-> NoCall] /\ main = NoTick
  /\ draining = FALSE /\ drained = FALSE
  /\ ops = 0 /\ forked = {} /\ outlived = {}

\* A nextRun set to now or earlier may still lie at or before the "now" of the ticks in flight.
MaybeSeen(j) ==
  \/ UNCHANGED tick
  \/ tick' = [t \in Ticks |-> IF tick[t].at \in {"active", "refill"}
                              THEN [tick[t] EXCEPT !.sees = @ \cup {j}] ELSE tick[t]]

(************************** TIME AND REGISTRATION **************************)

\* _register, through schedule, scheduleAt, scheduleAfter or scheduleRecurring
Register(j) ==
  /\ job[j].status = "absent"
  /\ \/ /\ job' = [job EXCEPT ![j].status = "scheduled"]
        /\ UNCHANGED tick
     \/ /\ job' = [job EXCEPT ![j].status = "scheduled", ![j].due = TRUE]
        /\ MaybeSeen(j)
  /\ UNCHANGED <<execs, running, main, draining, drained, ops, forked, outlived>>

\* nextRun comes
Elapse(j) ==
  /\ job[j].status \in {"scheduled", "retrying"} /\ ~job[j].due
  /\ job' = [job EXCEPT ![j].due = TRUE]
  /\ UNCHANGED <<execs, running, tick, main, draining, drained, ops, forked, outlived>>

(********************************* TICKS ***********************************)

Free == IF running < Concurrency THEN Concurrency - running ELSE 0

\* what one run of fill() starts: as many due jobs as there is room for, by priority
Picks(S) ==
  LET due == {j \in S : IsDue(j)}
      n == IF Cardinality(due) < Free THEN Cardinality(due) ELSE Free
  IN {P \in SUBSET due : Cardinality(P) = n /\ \A p \in P, q \in due \ P : Priority[p] >= Priority[q]}

Start(P, t) ==
  /\ job' = [j \in Jobs |-> IF j \in P THEN [job[j] EXCEPT !.status = "running", !.since = TRUE]
                            ELSE job[j]]
  /\ execs' = execs \cup {NewExec(j, t) : j \in P}
  /\ running' = running + Cardinality(P)

\* the tick's promise settles: _ticking is cleared, and the calls that wait for it go on
Settled(t) ==
  /\ tick' = [u \in Ticks |-> IF u = t THEN NoCall
                              ELSE IF main = t /\ tick[u].at = "waiting" THEN [tick[u] EXCEPT !.at = "ready"]
                              ELSE tick[u]]
  /\ main' = IF main = t THEN NoTick ELSE main

Working(t, S) == tick' = [tick EXCEPT ![t] = [at |-> "active", sees |-> S]]

\* fill(), and the loop around it: the tick is over when nothing it started is in flight
Fill(t, S) ==
  \E P \in Picks(S) :
    /\ Start(P, t)
    /\ IF P = {} /\ ExecsBy(t) = {} THEN Settled(t) ELSE Working(t, S) /\ UNCHANGED main

DueNow == {j \in Jobs : job[j].due}

\* _tickOnce starts: nothing after shutdown, otherwise a first fill(); with nothing due it is over
TickCall(t) ==
  /\ tick[t].at = "none" /\ main = NoTick /\ ~draining
  /\ \E P \in Picks(DueNow) :
       /\ P # {} /\ Start(P, t) /\ Working(t, DueNow) /\ main' = t
  /\ UNCHANGED <<draining, drained, ops, forked, outlived>>

\* a call made while a tick is in flight waits for it
TickWaits(t) ==
  /\ tick[t].at = "none" /\ main # NoTick
  /\ tick' = [tick EXCEPT ![t].at = "waiting"]
  /\ UNCHANGED <<job, execs, running, main, draining, drained, ops, forked, outlived>>

\* ... and then runs once, without becoming the one that others wait for
TickLate(t) ==
  /\ tick[t].at = "ready"
  /\ IF draining
     THEN Settled(t) /\ UNCHANGED <<job, execs, running>>
     ELSE Fill(t, DueNow)
  /\ UNCHANGED <<draining, drained, ops, forked, outlived>>

\* Faulty variant of Refill: the freed place is left to the next tick.
RefillNothing(t) ==
  /\ tick[t].at = "refill"
  /\ IF ExecsBy(t) = {} THEN Settled(t) ELSE Working(t, tick[t].sees) /\ UNCHANGED main
  /\ UNCHANGED <<job, execs, running, draining, drained, ops, forked, outlived>>

\* an execution of this tick ended: fill() again, shutdown or not
Refill(t) ==
  /\ tick[t].at = "refill"
  /\ Fill(t, tick[t].sees)
  /\ UNCHANGED <<draining, drained, ops, forked, outlived>>

(******************************* EXECUTIONS ********************************)

\* _execute returns: the counter goes down, the tick that started it is woken
Ended(x, rec, sees) ==
  /\ job' = [job EXCEPT ![x.job] = [rec EXCEPT !.since = FALSE]]
  /\ execs' = execs \ {x}
  /\ running' = Decremented(running)
  /\ tick' = [t \in Ticks |->
       [at |-> IF t = x.tick THEN "refill" ELSE tick[t].at,
        sees |-> IF sees THEN tick[t].sees ELSE tick[t].sees \ {x.job}]]
  /\ UNCHANGED <<main, draining, drained, ops, forked>>

\* _onComplete: done, or back to scheduled for a later occurrence, whatever happened meanwhile
Completed(j) ==
  IF j \in Recurring
  THEN [job[j] EXCEPT !.status = "scheduled", !.due = FALSE, !.retries = 0]
  ELSE [job[j] EXCEPT !.status = "completed"]

Complete(x) ==
  /\ Ended(x, Completed(x.job), FALSE)
  /\ outlived' = IF job[x.job].cancelled THEN outlived \cup {x.job} ELSE outlived

\* the handler throws or times out: cancelled if that was asked for, else retried or dead-lettered
Failed(j, due) ==
  IF job[j].cancelled THEN [job[j] EXCEPT !.status = "cancelled"]
  ELSE IF job[j].retries < MaxRetries
  THEN [job[j] EXCEPT !.status = "retrying", !.retries = @ + 1, !.due = due]
  ELSE [job[j] EXCEPT !.status = "failed"]

Fail(x) ==
  /\ \E when \in {"thisTick", "nextTick", "later"} :
       Ended(x, Failed(x.job, when # "later"), when = "thisTick")
  /\ UNCHANGED outlived

(******************************** THE PORT *********************************)

Operation ==
  /\ ops < MaxOps
  /\ ops' = ops + 1
  /\ UNCHANGED <<draining, drained>>

\* Faulty variant of Cancel: a job that is not running keeps its status as well.
CancelByFlag(j) ==
  /\ Operation /\ job[j].status # "absent"
  /\ job' = [job EXCEPT ![j].cancelled = TRUE]
  /\ outlived' = outlived \ {j}
  /\ UNCHANGED <<execs, running, tick, main, forked>>

\* a running job is only asked to abort
Cancel(j) ==
  /\ Operation /\ job[j].status # "absent"
  /\ job' = [job EXCEPT ![j].cancelled = TRUE,
                        ![j].status = IF @ = "running" THEN @ ELSE "cancelled"]
  /\ outlived' = outlived \ {j}
  /\ UNCHANGED <<execs, running, tick, main, forked>>

Pause(j) ==
  /\ Operation /\ job[j].status \notin {"absent", "paused"}
  /\ job' = [job EXCEPT ![j].before = job[j].status, ![j].status = "paused"]
  /\ UNCHANGED <<execs, running, tick, main, forked, outlived>>

Resume(j) ==
  /\ Operation /\ job[j].status = "paused"
  /\ job' = [job EXCEPT ![j].status = job[j].before, ![j].before = "absent"]
  /\ UNCHANGED <<execs, running, tick, main, forked, outlived>>

\* runNow refuses a job whose status is running; it looks at nothing else
RunNow(j) ==
  /\ Operation /\ job[j].status \notin {"absent", "running"}
  /\ Cardinality(ExecsOf(j)) < 2
  /\ job' = [job EXCEPT ![j].status = "running", ![j].since = TRUE, ![j].due = TRUE,
                        ![j].cancelled = FALSE]
  /\ execs' = execs \cup {NewExec(j, NoTick)}
  /\ running' = running + 1
  /\ forked' = IF ExecsOf(j) = {} THEN forked ELSE forked \cup {j}
  /\ MaybeSeen(j)
  /\ UNCHANGED <<main, outlived>>

\* recover(): a job that has run for too long is put back, due at once
Recover(j) ==
  /\ Operation /\ job[j].status = "running" /\ job[j].since
  /\ Cardinality(ExecsOf(j)) < 2
  /\ job' = [job EXCEPT ![j].status = "scheduled", ![j].since = FALSE, ![j].due = TRUE,
                        ![j].retries = 0]
  /\ running' = Decremented(running)
  /\ forked' = forked \cup {j}
  /\ MaybeSeen(j)
  /\ UNCHANGED <<execs, main, outlived>>

Shutdown ==
  /\ ~draining /\ draining' = TRUE
  /\ UNCHANGED <<job, execs, running, tick, main, drained, ops, forked, outlived>>

\* the poll of shutdown is a timer: it sees the counter between two ticks' microtasks, never inside
Drained ==
  /\ draining /\ running = 0
  /\ \A t \in Ticks : tick[t].at \notin {"refill", "ready"}
  /\ drained' = TRUE
  /\ UNCHANGED <<job, execs, running, tick, main, draining, ops, forked, outlived>>

Next ==
  \/ \E j \in Jobs : \/ Register(j) \/ Elapse(j) \/ Cancel(j) \/ Pause(j) \/ Resume(j)
                     \/ RunNow(j) \/ Recover(j)
  \/ \E t \in Ticks : TickCall(t) \/ TickWaits(t) \/ TickLate(t) \/ Refill(t)
  \/ \E x \in execs : Complete(x) \/ Fail(x)
  \/ Shutdown \/ Drained

Spec == Init /\ [][Next]_vars

\* The interval timer calls tick(), promises are run, and every handler returns or times out.
Fairness ==
  /\ WF_vars(\E t \in Ticks : TickCall(t))
  /\ \A t \in Ticks : WF_vars(TickLate(t) \/ Refill(t))
  /\ \A j \in Jobs : WF_vars(\E x \in ExecsOf(j) : Complete(x) \/ Fail(x))

LiveSpec == Spec /\ Fairness

(******************************* PROPERTIES ********************************)

\* The variables keep their shapes; only the owner of _ticking is waited for.
TypeOK ==
  /\ job \in [Jobs -> [status : Statuses, before : Statuses, retries : 0..MaxRetries,
                       due : BOOLEAN, cancelled : BOOLEAN, since : BOOLEAN]]
  /\ execs \subseteq [job : Jobs, tick : Ticks \cup {NoTick}, nth : {1, 2}]
  /\ running \in Nat
  /\ tick \in [Ticks -> [at : {"none", "waiting", "ready", "active", "refill"}, sees : SUBSET Jobs]]
  /\ main \in Ticks \cup {NoTick}
  /\ draining \in BOOLEAN /\ drained \in BOOLEAN
  /\ ops \in 0..MaxOps
  /\ forked \subseteq Jobs /\ outlived \subseteq Jobs
  /\ \A t \in Ticks : tick[t].at = "waiting" => main # NoTick
  /\ main # NoTick => tick[main].at \in {"active", "refill"}

\* The running counter counts the executions in flight, until recover() or runNow has put a job to
\* work while an execution of it was still there (verifyQueue, scheduler.js:445, relies on it).
CounterIsExact == forked = {} => running = Cardinality(execs)

\* Overlapping ticks, waiting ticks and runNow never have one job in flight twice, unless it was
\* recovered while running, or paused or cancelled while running and then run by runNow.
OneExecution == \A j \in Jobs : j \notin forked => Cardinality(ExecsOf(j)) <= 1

\* However many ticks overlap, they never have more than Concurrency executions in flight.
ConcurrencyLimit == forked = {} => Cardinality({x \in execs : x.tick # NoTick}) <= Concurrency

\* When shutdown has answered drained, no tick has anything in flight and none starts anything more,
\* although a tick that was in flight goes on filling after _draining is set.
DrainedIsQuiet == drained /\ forked = {} => \A x \in execs : x.tick = NoTick

\* The invariants above together: overlapping ticks, waiting ticks, runNow, pauses, recovery and shutdown
\* never run one job twice, go past the limit, lose count or leave something behind a drained shutdown.
ExecutionsAreSound == TypeOK /\ CounterIsExact /\ OneExecution /\ ConcurrencyLimit /\ DrainedIsQuiet

\* A cancelled job is not started by a tick, unless its execution completed normally after the
\* cancel (a recurring one is then scheduled again) or recover() put it back.
CancelHolds ==
  [][ \A j \in Jobs : job[j].cancelled /\ (\E t \in Ticks : Cardinality({x \in execs' : x.job = j /\ x.tick = t})
                                                          > Cardinality({x \in execs : x.job = j /\ x.tick = t}))
        => j \in outlived \cup forked ]_vars

\* A due job is started, cancelled or paused, whatever the priorities, unless the scheduler drains.
DueIsStarted == \A j \in Jobs : []<>(~IsDue(j) \/ draining)

=============================================================================
