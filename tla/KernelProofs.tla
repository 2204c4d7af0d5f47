----------------------------- MODULE KernelProofs -----------------------------
(***************************************************************************)
(* Proofs about two kernels that share nothing, the scheduler (Scheduler)   *)
(* and the resource kernel (Resources), for any number of jobs, ticks,      *)
(* requests and failures.                                                   *)
(***************************************************************************)
EXTENDS Scheduler, Resources, FiniteSetTheorems, TLAPS

(***************************************************************************)
(*                             THE SCHEDULER                               *)
(***************************************************************************)

JobRecord == [status : Statuses, before : Statuses, retries : 0..MaxRetries,
              due : BOOLEAN, cancelled : BOOLEAN, since : BOOLEAN]
Execution == [job : Jobs, tick : Ticks \cup {NoTick}, nth : {1, 2}]
Call == [at : {"none", "waiting", "ready", "active", "refill"}, sees : SUBSET Jobs]

\* A tick does not pick a job in this state, and resume does not make it pick it.
Held(r) ==
  /\ r.status \notin {"absent", "scheduled", "retrying"}
  /\ r.status = "paused" => r.before \notin {"absent", "scheduled", "retrying", "paused"}

WorkTypes ==
  /\ job \in [Jobs -> JobRecord]
  /\ execs \subseteq Execution /\ IsFiniteSet(execs)
  /\ running \in Nat
  /\ ops \in 0..MaxOps
  /\ forked \subseteq Jobs /\ outlived \subseteq Jobs

\* Two executions in flight are of different jobs, but for the forked ones.
Once == \A x, y \in execs : x.job = y.job /\ x.job \notin forked => x = y

InFlightHeld == \A x \in execs : x.job \notin forked => Held(job[x.job])

CancelledHeld == \A j \in Jobs : job[j].cancelled /\ j \notin outlived \cup forked => Held(job[j])

ByTicks(X) == {x \in X : x.tick # NoTick}

WorkInv ==
  WorkTypes /\ CounterIsExact /\ Once /\ ConcurrencyLimit /\ InFlightHeld /\ CancelledHeld

TickTypes ==
  /\ tick \in [Ticks -> Call]
  /\ main \in Ticks \cup {NoTick}
  /\ draining \in BOOLEAN /\ drained \in BOOLEAN
  /\ \A t \in Ticks : tick[t].at = "waiting" => main # NoTick
  /\ main # NoTick => tick[main].at \in {"active", "refill"}

\* Once shutdown has answered, no tick has an execution to wait for or a fill to make.
Quiet ==
  drained => /\ draining
             /\ forked = {} => /\ \A x \in execs : x.tick = NoTick
                               /\ \A t \in Ticks : tick[t].at \notin {"refill", "ready"}

SchedulerInv == WorkInv /\ TickTypes /\ Quiet

----------------------------------------------------------------------------
(* ------------------------- records and executions ---------------------- *)

LEMMA SchedulerTypes == SchedulerInv => TypeOK
BY DEF SchedulerInv, WorkInv, WorkTypes, TickTypes, TypeOK, JobRecord, Execution, Call

\* Jobs without an execution have none in the set, and a subset of the executions is no larger.
LEMMA FewerByTicks ==
  ASSUME NEW X, IsFiniteSet(X), NEW Y \in SUBSET X
  PROVE  /\ IsFiniteSet(ByTicks(X)) /\ IsFiniteSet(ByTicks(Y))
         /\ Cardinality(ByTicks(Y)) <= Cardinality(ByTicks(X))
         /\ Cardinality(ByTicks(X)) <= Cardinality(X)
         /\ Cardinality(X) \in Nat /\ Cardinality(ByTicks(X)) \in Nat /\ Cardinality(ByTicks(Y)) \in Nat
<1>1. ByTicks(X) \subseteq X /\ ByTicks(Y) \subseteq ByTicks(X)
  BY DEF ByTicks
<1>2. IsFiniteSet(ByTicks(X)) /\ Cardinality(ByTicks(X)) <= Cardinality(X)
  BY <1>1, FS_Subset
<1>3. IsFiniteSet(ByTicks(Y)) /\ Cardinality(ByTicks(Y)) <= Cardinality(ByTicks(X))
  BY <1>1, <1>2, FS_Subset
<1> QED
  BY <1>2, <1>3, FS_CardinalityType

\* An execution that starts is not among the ones in flight.
LEMMA NewExecIsNew ==
  ASSUME NEW j \in Jobs, NEW t \in Ticks \cup {NoTick}
  PROVE  /\ NewExec(j, t) \in Execution /\ NewExec(j, t).job = j /\ NewExec(j, t).tick = t
         /\ ExecsOf(j) = {} => NewExec(j, t) \notin execs
<1>1. NewExec(j, t) \in Execution /\ NewExec(j, t).job = j /\ NewExec(j, t).tick = t
  BY DEF NewExec, Execution
<1> QED
  BY <1>1 DEF ExecsOf

\* A job no tick may pick has no execution in flight, unless it is forked.
LEMMA DueIsIdle ==
  ASSUME InFlightHeld, NEW j \in Jobs, j \notin forked, job[j].status \in {"scheduled", "retrying", "absent"}
  PROVE  ExecsOf(j) = {}
BY DEF InFlightHeld, ExecsOf, Held

LEMMA CountOfOne ==
  ASSUME NEW j \in Jobs, Once, j \notin forked
  PROVE  Cardinality(ExecsOf(j)) <= 1
<1>1. CASE ExecsOf(j) = {}
  BY <1>1, FS_EmptySet
<1>2. CASE ExecsOf(j) # {}
  <2>1. PICK x : x \in ExecsOf(j)
    BY <1>2
  <2>2. ExecsOf(j) = {x}
    BY <2>1 DEF Once, ExecsOf
  <2> QED
    BY <2>2, FS_Singleton
<1> QED
  BY <1>1, <1>2

LEMMA SchedulerIsSound == SchedulerInv => ExecutionsAreSound
<1> SUFFICES ASSUME SchedulerInv PROVE ExecutionsAreSound
  OBVIOUS
<1>1. OneExecution
  BY CountOfOne DEF SchedulerInv, WorkInv, OneExecution
<1>2. DrainedIsQuiet
  BY DEF SchedulerInv, Quiet, DrainedIsQuiet
<1> QED
  BY <1>1, <1>2, SchedulerTypes DEF SchedulerInv, WorkInv, ExecutionsAreSound

----------------------------------------------------------------------------
(* ----------------------- what a step does to the work ------------------ *)

\* A step that writes one job and no execution.
LEMMA JobWritten ==
  ASSUME WorkInv, NEW j \in Jobs, NEW r \in JobRecord, job' = [job EXCEPT ![j] = r],
         UNCHANGED <<execs, running, forked>>, ops' \in 0..MaxOps,
         outlived' = outlived \/ outlived' = outlived \ {j},
         Held(job[j]) => Held(r),
         r.cancelled /\ j \notin outlived' \cup forked => Held(r)
  PROVE  WorkInv'
<1>1. /\ job' \in [Jobs -> JobRecord] /\ job'[j] = r
      /\ \A k \in Jobs : k # j => job'[k] = job[k]
  BY DEF WorkInv, WorkTypes
<1>2. WorkTypes'
  BY <1>1 DEF WorkInv, WorkTypes
<1>3. CounterIsExact' /\ Once' /\ ConcurrencyLimit'
  BY DEF WorkInv, CounterIsExact, Once, ConcurrencyLimit
<1>4. InFlightHeld'
  <2> SUFFICES ASSUME NEW x \in execs, x.job \notin forked PROVE Held(job'[x.job])
    BY DEF InFlightHeld, Held
  <2>1. x.job \in Jobs /\ Held(job[x.job])
    BY DEF WorkInv, WorkTypes, Execution, InFlightHeld
  <2> QED
    BY <1>1, <2>1
<1>5. CancelledHeld'
  <2> SUFFICES ASSUME NEW k \in Jobs, job'[k].cancelled, k \notin outlived' \cup forked PROVE Held(job'[k])
    BY DEF CancelledHeld, Held
  <2>1. CASE k = j
    BY <1>1, <2>1
  <2>2. CASE k # j
    <3>1. job'[k] = job[k] /\ k \notin outlived \cup forked
      BY <1>1, <2>2
    <3> QED
      BY <3>1 DEF WorkInv, CancelledHeld
  <2> QED
    BY <2>1, <2>2
<1> QED
  BY <1>2, <1>3, <1>4, <1>5 DEF WorkInv

LEMMA WorkUntouched ==
  ASSUME WorkInv, UNCHANGED <<job, execs, running, ops, forked, outlived>>
  PROVE  WorkInv'
BY DEF WorkInv, WorkTypes, CounterIsExact, Once, ConcurrencyLimit, InFlightHeld, CancelledHeld, Held

\* The executions a fill starts: one per picked job, all of them new, no more than there is room for.
LEMMA PicksParts ==
  ASSUME WorkInv, NEW S \in SUBSET Jobs, NEW P \in Picks(S)
  PROVE  /\ P \subseteq Jobs /\ IsFiniteSet(P) /\ Cardinality(P) \in Nat
         /\ \A j \in P : IsDue(j)
         /\ P = {} \/ running + Cardinality(P) <= Concurrency
<1> DEFINE due == {j \in S : IsDue(j)}
<1>1. IsFiniteSet(due) /\ due \subseteq Jobs
  BY ConstantsAssumption, FS_Subset
<1>2. P \subseteq due /\ Cardinality(P) = IF Cardinality(due) < Free THEN Cardinality(due) ELSE Free
  BY DEF Picks
<1>3. IsFiniteSet(P) /\ Cardinality(P) \in Nat
  BY <1>1, <1>2, FS_Subset, FS_CardinalityType
<1>4. Cardinality(due) \in Nat
  BY <1>1, FS_CardinalityType
<1>5. Concurrency \in Nat /\ running \in Nat
  BY ConstantsAssumption DEF WorkInv, WorkTypes
<1>6. P = {} \/ Cardinality(P) # 0
  BY <1>3, FS_EmptySet
<1>7. P = {} \/ running + Cardinality(P) <= Concurrency
  <2>1. Cardinality(P) <= Free
    BY <1>2, <1>4, <1>5 DEF Free
  <2> QED
    BY <1>3, <1>5, <1>6, <2>1 DEF Free
<1> QED
  BY <1>1, <1>2, <1>3, <1>7

LEMMA StartedExecs ==
  ASSUME WorkInv, NEW t \in Ticks \cup {NoTick}, NEW P \in SUBSET Jobs, IsFiniteSet(P)
  PROVE  LET N == {NewExec(j, t) : j \in P} IN
         /\ N \subseteq Execution /\ IsFiniteSet(N) /\ Cardinality(N) = Cardinality(P)
         /\ IsFiniteSet(execs \cup N)
<1> DEFINE N == {NewExec(j, t) : j \in P}
<1> DEFINE f == [j \in P |-> NewExec(j, t)]
<1>1. \A j \in P : NewExec(j, t) \in Execution /\ NewExec(j, t).job = j
  BY NewExecIsNew
<1>2. f \in Bijection(P, N)
  <2>1. f \in [P -> N]
    OBVIOUS
  <2>2. \A a, b \in P : f[a] = f[b] => a = b
    BY <1>1
  <2>3. \A y \in N : \E j \in P : f[j] = y
    OBVIOUS
  <2> QED
    BY <2>1, <2>2, <2>3 DEF Bijection, Injection, IsInjective, Surjection
<1>3. ExistsBijection(P, N)
  BY <1>2 DEF ExistsBijection
<1>4. IsFiniteSet(N) /\ Cardinality(N) = Cardinality(P)
  BY <1>3, FS_Bijection
<1>5. IsFiniteSet(execs \cup N)
  BY <1>4, FS_Union DEF WorkInv, WorkTypes
<1> QED
  BY <1>1, <1>4, <1>5

LEMMA StartKeepsWork ==
  ASSUME WorkInv, NEW t \in Ticks, NEW S \in SUBSET Jobs, NEW P \in Picks(S), Start(P, t),
         UNCHANGED <<ops, forked, outlived>>
  PROVE  WorkInv'
<1> DEFINE N == {NewExec(j, t) : j \in P}
<1>1. /\ P \subseteq Jobs /\ IsFiniteSet(P) /\ Cardinality(P) \in Nat /\ \A j \in P : IsDue(j)
      /\ P = {} \/ running + Cardinality(P) <= Concurrency
  BY PicksParts
<1>2. N \subseteq Execution /\ IsFiniteSet(N) /\ Cardinality(N) = Cardinality(P) /\ IsFiniteSet(execs \cup N)
  BY <1>1, StartedExecs
<1>3. execs' = execs \cup N /\ running' = running + Cardinality(P)
  BY DEF Start
<1>4. \A j \in Jobs : job'[j] = IF j \in P THEN [job[j] EXCEPT !.status = "running", !.since = TRUE] ELSE job[j]
  BY DEF Start
<1>5. \A j \in Jobs : job[j] \in JobRecord
  BY DEF WorkInv, WorkTypes
<1>6. \A j \in P : /\ job'[j] \in JobRecord /\ Held(job'[j]) /\ job'[j].status = "running"
                   /\ job'[j].cancelled = job[j].cancelled
  <2> SUFFICES ASSUME NEW j \in P
               PROVE  /\ job'[j] \in JobRecord /\ Held(job'[j]) /\ job'[j].status = "running"
                      /\ job'[j].cancelled = job[j].cancelled
    OBVIOUS
  <2> DEFINE a == [job[j] EXCEPT !.status = "running"]
  <2> DEFINE b == [a EXCEPT !.since = TRUE]
  <2>1. job[j] \in JobRecord /\ job'[j] = b
    BY <1>1, <1>4, <1>5
  <2>2. a \in JobRecord /\ a.status = "running" /\ a.cancelled = job[j].cancelled
    BY <2>1 DEF JobRecord, Statuses
  <2> HIDE DEF a
  <2>3. b \in JobRecord /\ b.status = "running" /\ b.cancelled = a.cancelled
    BY <2>2 DEF JobRecord
  <2> HIDE DEF b
  <2> QED
    BY <2>1, <2>2, <2>3 DEF Held
<1>7. WorkTypes'
  <2>1. job' \in [Jobs -> JobRecord]
    BY <1>4, <1>5, <1>6 DEF Start
  <2>2. running' \in Nat
    BY <1>1, <1>3 DEF WorkInv, WorkTypes
  <2> QED
    BY <1>2, <1>3, <2>1, <2>2 DEF WorkInv, WorkTypes
<1>8. \A y \in N : y.job \in P /\ y.tick = t
  BY <1>1, NewExecIsNew
<1>9. \A y \in N : y.job \notin forked => ExecsOf(y.job) = {}
  BY <1>1, <1>8, DueIsIdle DEF IsDue, WorkInv
<1>10. forked = {} => execs \cap N = {}
  BY <1>9 DEF ExecsOf
<1>11. CounterIsExact'
  <2> SUFFICES ASSUME forked = {} PROVE running' = Cardinality(execs')
    BY DEF CounterIsExact
  <2>1. Cardinality(execs \cup N) = Cardinality(execs) + Cardinality(N) - Cardinality({})
    BY <1>2, <1>10, FS_Union DEF WorkInv, WorkTypes
  <2>2. Cardinality({}) = 0 /\ running = Cardinality(execs) /\ running \in Nat
    BY FS_EmptySet DEF WorkInv, WorkTypes, CounterIsExact
  <2> QED
    BY <1>1, <1>2, <1>3, <2>1, <2>2
<1>12. Once'
  <2> SUFFICES ASSUME NEW x \in execs', NEW y \in execs', x.job = y.job, x.job \notin forked PROVE x = y
    BY DEF Once
  <2>1. CASE x \in execs /\ y \in execs
    BY <2>1 DEF WorkInv, Once
  <2>2. CASE x \in N /\ y \in N
    <3>1. PICK a \in P, b \in P : x = NewExec(a, t) /\ y = NewExec(b, t)
      BY <2>2
    <3> QED
      BY <1>1, <3>1, NewExecIsNew
  <2>3. x \in N => y \notin execs
    BY <1>9 DEF ExecsOf
  <2>4. y \in N => x \notin execs
    BY <1>9 DEF ExecsOf
  <2> QED
    BY <1>3, <2>1, <2>2, <2>3, <2>4
<1>13. ConcurrencyLimit'
  <2> SUFFICES ASSUME forked = {} PROVE Cardinality(ByTicks(execs')) <= Concurrency
    BY DEF ConcurrencyLimit, ByTicks
  <2>1. CASE P = {}
    <3>1. execs' = execs
      BY <1>3, <2>1
    <3> QED
      BY <3>1 DEF WorkInv, ConcurrencyLimit, ByTicks
  <2>2. CASE running + Cardinality(P) <= Concurrency
    <3>1. IsFiniteSet(execs') /\ Cardinality(execs') = running'
      BY <1>7, <1>11 DEF WorkTypes, CounterIsExact
    <3>2. Cardinality(ByTicks(execs')) <= Cardinality(execs') /\ Cardinality(ByTicks(execs')) \in Nat
      BY <3>1, FewerByTicks
    <3>3. Concurrency \in Nat /\ running \in Nat
      BY ConstantsAssumption DEF WorkInv, WorkTypes
    <3> QED
      BY <1>1, <1>3, <2>2, <3>1, <3>2, <3>3
  <2> QED
    BY <1>1, <2>1, <2>2
<1>14. InFlightHeld'
  <2> SUFFICES ASSUME NEW x \in execs', x.job \notin forked PROVE Held(job'[x.job])
    BY DEF InFlightHeld, Held
  <2>1. CASE x \in N
    BY <1>6, <1>8, <2>1
  <2>2. CASE x \in execs
    <3>1. x.job \in Jobs /\ Held(job[x.job])
      BY <2>2 DEF WorkInv, WorkTypes, Execution, InFlightHeld
    <3> QED
      BY <1>4, <1>6, <3>1
  <2> QED
    BY <1>3, <2>1, <2>2
<1>15. CancelledHeld'
  <2> SUFFICES ASSUME NEW k \in Jobs, job'[k].cancelled, k \notin outlived \cup forked PROVE Held(job'[k])
    BY DEF CancelledHeld, Held
  <2> QED
    BY <1>4, <1>6 DEF WorkInv, CancelledHeld
<1> QED
  BY <1>7, <1>11, <1>12, <1>13, <1>14, <1>15 DEF WorkInv

\* An execution ends: it leaves the set, its job's record is written, the counter goes down.
LEMMA EndKeepsWork ==
  ASSUME WorkInv, NEW x \in execs, NEW r \in JobRecord, job' = [job EXCEPT ![x.job] = r],
         execs' = execs \ {x}, running' = Decremented(running), UNCHANGED <<ops, forked>>,
         outlived' \in {outlived, outlived \cup {x.job}},
         r.cancelled /\ x.job \notin outlived' \cup forked => Held(r)
  PROVE  WorkInv'
<1>1. x.job \in Jobs /\ running \in Nat /\ IsFiniteSet(execs)
  BY DEF WorkInv, WorkTypes, Execution
<1>2. /\ job' \in [Jobs -> JobRecord] /\ job'[x.job] = r
      /\ \A k \in Jobs : k # x.job => job'[k] = job[k]
  BY <1>1 DEF WorkInv, WorkTypes
<1>3. IsFiniteSet(execs') /\ Cardinality(execs') = Cardinality(execs) - 1
  BY <1>1, FS_RemoveElement
<1>4. WorkTypes'
  <2>1. running' \in Nat
    BY <1>1 DEF Decremented
  <2>2. execs' \subseteq Execution
    BY DEF WorkInv, WorkTypes
  <2> QED
    BY <1>1, <1>2, <1>3, <2>1, <2>2 DEF WorkInv, WorkTypes
<1>5. CounterIsExact'
  <2> SUFFICES ASSUME forked = {} PROVE running' = Cardinality(execs')
    BY DEF CounterIsExact
  <2>1. running = Cardinality(execs)
    BY DEF WorkInv, CounterIsExact
  <2>2. Cardinality(execs) # 0
    BY <1>1, FS_EmptySet
  <2> QED
    BY <1>1, <1>3, <2>1, <2>2 DEF Decremented
<1>6. Once'
  BY DEF WorkInv, Once
<1>7. ConcurrencyLimit'
  <2> SUFFICES ASSUME forked = {} PROVE Cardinality(ByTicks(execs')) <= Concurrency
    BY DEF ConcurrencyLimit, ByTicks
  <2>1. Cardinality(ByTicks(execs)) <= Concurrency
    BY DEF WorkInv, ConcurrencyLimit, ByTicks
  <2>2. /\ Cardinality(ByTicks(execs')) <= Cardinality(ByTicks(execs))
        /\ Cardinality(ByTicks(execs')) \in Nat /\ Cardinality(ByTicks(execs)) \in Nat
    BY <1>1, FewerByTicks
  <2>3. Concurrency \in Nat
    BY ConstantsAssumption
  <2> QED
    BY <2>1, <2>2, <2>3
<1>8. InFlightHeld'
  <2> SUFFICES ASSUME NEW y \in execs', y.job \notin forked PROVE Held(job'[y.job])
    BY DEF InFlightHeld, Held
  <2>1. y \in execs /\ y # x /\ y.job \in Jobs /\ Held(job[y.job])
    BY DEF WorkInv, WorkTypes, Execution, InFlightHeld
  <2>2. y.job # x.job
    BY <2>1 DEF WorkInv, Once
  <2> QED
    BY <1>2, <2>1, <2>2
<1>9. CancelledHeld'
  <2> SUFFICES ASSUME NEW k \in Jobs, job'[k].cancelled, k \notin outlived' \cup forked PROVE Held(job'[k])
    BY DEF CancelledHeld, Held
  <2>1. CASE k = x.job
    BY <1>2, <2>1
  <2>2. CASE k # x.job
    <3>1. job'[k] = job[k] /\ k \notin outlived \cup forked
      BY <1>2, <2>2
    <3> QED
      BY <3>1 DEF WorkInv, CancelledHeld
  <2> QED
    BY <2>1, <2>2
<1> QED
  BY <1>4, <1>5, <1>6, <1>7, <1>8, <1>9 DEF WorkInv

LEMMA RecordOf == ASSUME WorkInv, NEW j \in Jobs PROVE job[j] \in JobRecord
BY DEF WorkInv, WorkTypes

LEMMA RegisterKeepsWork ==
  ASSUME WorkInv, NEW j \in Jobs, Register(j)
  PROVE  WorkInv'
<1> DEFINE a == [job[j] EXCEPT !.status = "scheduled"]
<1> DEFINE b == [a EXCEPT !.due = TRUE]
<1>1. job[j] \in JobRecord /\ job[j].status = "absent" /\ ~Held(job[j])
  BY RecordOf DEF Register, Held
<1>2. j \notin outlived \cup forked => ~job[j].cancelled
  BY <1>1 DEF WorkInv, CancelledHeld
<1>3. a \in JobRecord /\ a.cancelled = job[j].cancelled
  BY <1>1 DEF JobRecord, Statuses
<1>4. b \in JobRecord /\ b.cancelled = job[j].cancelled
  BY <1>3 DEF JobRecord
<1>5. job' = [job EXCEPT ![j] = a] \/ job' = [job EXCEPT ![j] = b]
  BY DEF Register, WorkInv, WorkTypes
<1>6. UNCHANGED <<execs, running, ops, forked, outlived>> /\ ops \in 0..MaxOps
  BY DEF Register, WorkInv, WorkTypes
<1> HIDE DEF a, b
<1>7. CASE job' = [job EXCEPT ![j] = a]
  BY <1>1, <1>2, <1>3, <1>6, <1>7, JobWritten
<1>8. CASE job' = [job EXCEPT ![j] = b]
  BY <1>1, <1>2, <1>4, <1>6, <1>8, JobWritten
<1> QED
  BY <1>5, <1>7, <1>8

LEMMA ElapseKeepsWork ==
  ASSUME WorkInv, NEW j \in Jobs, Elapse(j)
  PROVE  WorkInv'
<1> DEFINE a == [job[j] EXCEPT !.due = TRUE]
<1>1. job[j] \in JobRecord
  BY RecordOf
<1>2. /\ a \in JobRecord /\ a.cancelled = job[j].cancelled /\ a.status = job[j].status
      /\ a.before = job[j].before
  BY <1>1 DEF JobRecord
<1>3. job' = [job EXCEPT ![j] = a] /\ UNCHANGED <<execs, running, ops, forked, outlived>> /\ ops \in 0..MaxOps
  BY DEF Elapse, WorkInv, WorkTypes
<1>4. Held(a) <=> Held(job[j])
  BY <1>2 DEF Held
<1>5. job[j].cancelled /\ j \notin outlived \cup forked => Held(job[j])
  BY DEF WorkInv, CancelledHeld
<1> HIDE DEF a
<1> QED
  BY <1>2, <1>3, <1>4, <1>5, JobWritten

LEMMA CountedOps == ASSUME WorkInv, Operation PROVE ops' \in 0..MaxOps
BY ConstantsAssumption DEF WorkInv, WorkTypes, Operation

LEMMA CancelKeepsWork ==
  ASSUME WorkInv, NEW j \in Jobs, Cancel(j)
  PROVE  WorkInv'
<1> DEFINE a == [job[j] EXCEPT !.cancelled = TRUE]
<1> DEFINE b == [a EXCEPT !.status = IF @ = "running" THEN @ ELSE "cancelled"]
<1>1. job[j] \in JobRecord
  BY RecordOf
<1>2. a \in JobRecord /\ a.status = job[j].status
  BY <1>1 DEF JobRecord
<1>3. b \in JobRecord /\ b.status \in {"running", "cancelled"}
  BY <1>2 DEF JobRecord, Statuses
<1>4. job' = [job EXCEPT ![j] = b]
  BY <1>1 DEF Cancel, WorkInv, WorkTypes
<1>5. /\ UNCHANGED <<execs, running, forked>> /\ ops' \in 0..MaxOps /\ outlived' = outlived \ {j}
  BY CountedOps DEF Cancel
<1>6. Held(b)
  BY <1>3 DEF Held
<1> HIDE DEF b
<1> QED
  BY <1>3, <1>4, <1>5, <1>6, JobWritten

LEMMA PauseKeepsWork ==
  ASSUME WorkInv, NEW j \in Jobs, Pause(j)
  PROVE  WorkInv'
<1> DEFINE a == [job[j] EXCEPT !.before = job[j].status]
<1> DEFINE b == [a EXCEPT !.status = "paused"]
<1>1. job[j] \in JobRecord /\ job[j].status \notin {"absent", "paused"}
  BY RecordOf DEF Pause
<1>2. a \in JobRecord /\ a.before = job[j].status /\ a.cancelled = job[j].cancelled
  BY <1>1 DEF JobRecord
<1>3. b \in JobRecord /\ b.status = "paused" /\ b.before = job[j].status /\ b.cancelled = job[j].cancelled
  BY <1>2 DEF JobRecord, Statuses
<1>4. job' = [job EXCEPT ![j] = b]
  BY <1>1 DEF Pause, WorkInv, WorkTypes
<1>5. UNCHANGED <<execs, running, forked, outlived>> /\ ops' \in 0..MaxOps
  BY CountedOps DEF Pause
<1>6. Held(job[j]) => Held(b)
  BY <1>1, <1>3 DEF Held
<1>7. job[j].cancelled /\ j \notin outlived \cup forked => Held(job[j])
  BY DEF WorkInv, CancelledHeld
<1> HIDE DEF b
<1> QED
  BY <1>3, <1>4, <1>5, <1>6, <1>7, JobWritten

LEMMA ResumeKeepsWork ==
  ASSUME WorkInv, NEW j \in Jobs, Resume(j)
  PROVE  WorkInv'
<1> DEFINE a == [job[j] EXCEPT !.status = job[j].before]
<1> DEFINE b == [a EXCEPT !.before = "absent"]
<1>1. job[j] \in JobRecord /\ job[j].status = "paused"
  BY RecordOf DEF Resume
<1>2. a \in JobRecord /\ a.status = job[j].before /\ a.cancelled = job[j].cancelled
  BY <1>1 DEF JobRecord
<1>3. b \in JobRecord /\ b.status = job[j].before /\ b.cancelled = job[j].cancelled
  BY <1>2 DEF JobRecord, Statuses
<1>4. job' = [job EXCEPT ![j] = b]
  BY <1>1 DEF Resume, WorkInv, WorkTypes
<1>5. UNCHANGED <<execs, running, forked, outlived>> /\ ops' \in 0..MaxOps
  BY CountedOps DEF Resume
<1>6. Held(job[j]) => Held(b)
  BY <1>1, <1>3 DEF Held
<1>7. job[j].cancelled /\ j \notin outlived \cup forked => Held(job[j])
  BY DEF WorkInv, CancelledHeld
<1> HIDE DEF b
<1> QED
  BY <1>3, <1>4, <1>5, <1>6, <1>7, JobWritten

LEMMA CompleteKeepsWork ==
  ASSUME WorkInv, NEW x \in execs, Complete(x)
  PROVE  WorkInv'
<1> DEFINE j == x.job
<1> DEFINE c == Completed(j)
<1> DEFINE r == [c EXCEPT !.since = FALSE]
<1>1. j \in Jobs /\ job[j] \in JobRecord
  BY RecordOf DEF WorkInv, WorkTypes, Execution
<1>2. c \in JobRecord /\ c.cancelled = job[j].cancelled
  <2> DEFINE a == [job[j] EXCEPT !.status = "scheduled"]
  <2> DEFINE b == [a EXCEPT !.due = FALSE]
  <2> DEFINE d == [b EXCEPT !.retries = 0]
  <2> DEFINE e == [job[j] EXCEPT !.status = "completed"]
  <2>1. a \in JobRecord /\ a.cancelled = job[j].cancelled
    BY <1>1 DEF JobRecord, Statuses
  <2>2. b \in JobRecord /\ b.cancelled = job[j].cancelled
    BY <2>1 DEF JobRecord
  <2>3. 0 \in 0..MaxRetries
    BY ConstantsAssumption
  <2>4. d \in JobRecord /\ d.cancelled = job[j].cancelled
    BY <2>2, <2>3 DEF JobRecord
  <2>5. e \in JobRecord /\ e.cancelled = job[j].cancelled
    BY <1>1 DEF JobRecord, Statuses
  <2>6. c \in {d, e}
    BY DEF Completed
  <2> HIDE DEF c, d, e
  <2> QED
    BY <2>4, <2>5, <2>6
<1>3. job' = [job EXCEPT ![j] = r] /\ outlived' = IF job[j].cancelled THEN outlived \cup {j} ELSE outlived
  BY DEF Complete, Ended
<1> HIDE DEF c
<1>4. r \in JobRecord /\ r.cancelled = job[j].cancelled
  BY <1>2 DEF JobRecord
<1>5. execs' = execs \ {x} /\ running' = Decremented(running) /\ UNCHANGED <<ops, forked>>
  BY DEF Complete, Ended
<1>6. r.cancelled => j \in outlived'
  BY <1>3, <1>4
<1>7. outlived' \in {outlived, outlived \cup {j}}
  BY <1>3
<1> HIDE DEF r
<1> QED
  BY <1>3, <1>4, <1>5, <1>6, <1>7, EndKeepsWork

LEMMA FailKeepsWork ==
  ASSUME WorkInv, NEW x \in execs, Fail(x)
  PROVE  WorkInv'
<1> DEFINE j == x.job
<1>1. j \in Jobs /\ job[j] \in JobRecord
  BY RecordOf DEF WorkInv, WorkTypes, Execution
<1>2. PICK when \in {"thisTick", "nextTick", "later"} : Ended(x, Failed(j, when # "later"), when = "thisTick")
  BY DEF Fail
<1> DEFINE due == when # "later"
<1> DEFINE f == Failed(j, due)
<1> DEFINE r == [f EXCEPT !.since = FALSE]
<1>3. due \in BOOLEAN
  OBVIOUS
<1> HIDE DEF due
<1>4. f \in JobRecord /\ f.cancelled = job[j].cancelled /\ (f.cancelled => f.status = "cancelled")
  <2>1. CASE job[j].cancelled
    <3>1. f = [job[j] EXCEPT !.status = "cancelled"]
      BY <2>1 DEF Failed
    <3> HIDE DEF f
    <3> QED
      BY <1>1, <3>1 DEF JobRecord, Statuses
  <2>2. CASE ~job[j].cancelled /\ job[j].retries < MaxRetries
    <3> DEFINE a == [job[j] EXCEPT !.status = "retrying"]
    <3> DEFINE b == [a EXCEPT !.retries = @ + 1]
    <3> DEFINE d == [b EXCEPT !.due = due]
    <3>1. f = d
      BY <1>1, <2>2 DEF Failed, JobRecord
    <3>2. a \in JobRecord /\ a.cancelled = job[j].cancelled /\ a.retries = job[j].retries
      BY <1>1 DEF JobRecord, Statuses
    <3>3. a.retries + 1 \in 0..MaxRetries
      <4>1. job[j].retries \in 0..MaxRetries /\ MaxRetries \in Nat
        BY <1>1, ConstantsAssumption DEF JobRecord
      <4> QED
        BY <2>2, <3>2, <4>1
    <3> HIDE DEF a
    <3>4. b \in JobRecord /\ b.cancelled = job[j].cancelled
      BY <3>2, <3>3 DEF JobRecord
    <3> HIDE DEF b
    <3>5. d \in JobRecord /\ d.cancelled = job[j].cancelled
      BY <1>3, <3>4 DEF JobRecord
    <3> HIDE DEF d, f
    <3> QED
      BY <2>2, <3>1, <3>5
  <2>3. CASE ~job[j].cancelled /\ ~(job[j].retries < MaxRetries)
    <3>1. f = [job[j] EXCEPT !.status = "failed"]
      BY <2>3 DEF Failed
    <3> HIDE DEF f
    <3> QED
      BY <1>1, <2>3, <3>1 DEF JobRecord, Statuses
  <2> QED
    BY <2>1, <2>2, <2>3
<1>5. /\ job' = [job EXCEPT ![j] = r] /\ outlived' = outlived
      /\ execs' = execs \ {x} /\ running' = Decremented(running) /\ UNCHANGED <<ops, forked>>
  BY <1>2 DEF Ended, Fail, due
<1> HIDE DEF f
<1>6. r \in JobRecord /\ r.cancelled = job[j].cancelled /\ (r.cancelled => r.status = "cancelled")
  BY <1>4 DEF JobRecord
<1>7. r.cancelled => Held(r)
  BY <1>6 DEF Held
<1> HIDE DEF r
<1> QED
  BY <1>5, <1>6, <1>7, EndKeepsWork

LEMMA RunNowKeepsWork ==
  ASSUME WorkInv, NEW j \in Jobs, RunNow(j)
  PROVE  WorkInv'
<1> DEFINE a == [job[j] EXCEPT !.status = "running"]
<1> DEFINE b == [a EXCEPT !.since = TRUE]
<1> DEFINE c == [b EXCEPT !.due = TRUE]
<1> DEFINE r == [c EXCEPT !.cancelled = FALSE]
<1> DEFINE n == NewExec(j, NoTick)
<1>1. job[j] \in JobRecord /\ running \in Nat /\ IsFiniteSet(execs)
  BY RecordOf DEF WorkInv, WorkTypes
<1>2. r \in JobRecord /\ r.status = "running" /\ ~r.cancelled
  <2>1. a \in JobRecord /\ a.status = "running"
    BY <1>1 DEF JobRecord, Statuses
  <2> HIDE DEF a
  <2>2. b \in JobRecord /\ b.status = "running"
    BY <2>1 DEF JobRecord
  <2> HIDE DEF b
  <2>3. c \in JobRecord /\ c.status = "running"
    BY <2>2 DEF JobRecord
  <2> HIDE DEF c
  <2> QED
    BY <2>3 DEF JobRecord
<1>3. /\ job' = [job EXCEPT ![j] = r] /\ execs' = execs \cup {n} /\ running' = running + 1
      /\ forked' = IF ExecsOf(j) = {} THEN forked ELSE forked \cup {j}
      /\ outlived' = outlived /\ ops' \in 0..MaxOps
  BY CountedOps DEF RunNow, WorkInv, WorkTypes
<1> HIDE DEF r
<1>4. n \in Execution /\ n.job = j /\ n.tick = NoTick /\ (ExecsOf(j) = {} => n \notin execs)
  BY NewExecIsNew
<1> HIDE DEF n
<1>5. job' \in [Jobs -> JobRecord] /\ job'[j] = r /\ \A k \in Jobs : k # j => job'[k] = job[k]
  BY <1>2, <1>3 DEF WorkInv, WorkTypes
<1>6. IsFiniteSet(execs') /\ Cardinality(execs') = IF n \in execs THEN Cardinality(execs) ELSE Cardinality(execs) + 1
  BY <1>1, <1>3, FS_AddElement
<1>7. Held(r)
  BY <1>2 DEF Held
<1>8. WorkTypes'
  BY <1>1, <1>3, <1>4, <1>5, <1>6 DEF WorkInv, WorkTypes
<1>9. CounterIsExact'
  BY <1>3, <1>4, <1>6 DEF WorkInv, CounterIsExact
<1>10. Once'
  <2> SUFFICES ASSUME NEW x \in execs', NEW y \in execs', x.job = y.job, x.job \notin forked' PROVE x = y
    BY DEF Once
  <2>1. x.job \notin forked
    BY <1>3
  <2>2. CASE x \in execs /\ y \in execs
    BY <2>1, <2>2 DEF WorkInv, Once
  <2>3. CASE x.job = j
    <3>1. ExecsOf(j) = {}
      BY <1>3, <2>3
    <3> QED
      BY <1>3, <2>3, <3>1 DEF ExecsOf
  <2> QED
    BY <1>3, <1>4, <2>2, <2>3
<1>11. ConcurrencyLimit'
  <2>1. ByTicks(execs') = ByTicks(execs)
    BY <1>3, <1>4 DEF ByTicks
  <2>2. forked' = {} => forked = {}
    BY <1>3
  <2> QED
    BY <2>1, <2>2 DEF WorkInv, ConcurrencyLimit, ByTicks
<1>12. InFlightHeld'
  <2> SUFFICES ASSUME NEW x \in execs', x.job \notin forked' PROVE Held(job'[x.job])
    BY DEF InFlightHeld, Held
  <2>1. CASE x.job = j
    BY <1>5, <1>7, <2>1
  <2>2. CASE x.job # j
    <3>1. x \in execs /\ x.job \notin forked /\ x.job \in Jobs
      BY <1>3, <1>4, <2>2 DEF WorkInv, WorkTypes, Execution
    <3>2. Held(job[x.job])
      BY <3>1 DEF WorkInv, InFlightHeld
    <3> QED
      BY <1>5, <2>2, <3>1, <3>2
  <2> QED
    BY <2>1, <2>2
<1>13. CancelledHeld'
  <2> SUFFICES ASSUME NEW k \in Jobs, job'[k].cancelled, k \notin outlived' \cup forked' PROVE Held(job'[k])
    BY DEF CancelledHeld, Held
  <2>1. k # j
    BY <1>2, <1>5
  <2>2. job'[k] = job[k] /\ k \notin outlived \cup forked
    BY <1>3, <1>5, <2>1
  <2> QED
    BY <2>2 DEF WorkInv, CancelledHeld
<1> QED
  BY <1>8, <1>9, <1>10, <1>11, <1>12, <1>13 DEF WorkInv

LEMMA RecoverKeepsWork ==
  ASSUME WorkInv, NEW j \in Jobs, Recover(j)
  PROVE  WorkInv'
<1> DEFINE a == [job[j] EXCEPT !.status = "scheduled"]
<1> DEFINE b == [a EXCEPT !.since = FALSE]
<1> DEFINE c == [b EXCEPT !.due = TRUE]
<1> DEFINE r == [c EXCEPT !.retries = 0]
<1>1. job[j] \in JobRecord /\ running \in Nat
  BY RecordOf DEF WorkInv, WorkTypes
<1>2. r \in JobRecord
  <2>1. a \in JobRecord
    BY <1>1 DEF JobRecord, Statuses
  <2> HIDE DEF a
  <2>2. b \in JobRecord
    BY <2>1 DEF JobRecord
  <2> HIDE DEF b
  <2>3. c \in JobRecord
    BY <2>2 DEF JobRecord
  <2> HIDE DEF c
  <2>4. 0 \in 0..MaxRetries
    BY ConstantsAssumption
  <2> QED
    BY <2>3, <2>4 DEF JobRecord
<1>3. /\ job' = [job EXCEPT ![j] = r] /\ running' = Decremented(running) /\ forked' = forked \cup {j}
      /\ UNCHANGED <<execs, outlived>> /\ ops' \in 0..MaxOps
  BY CountedOps DEF Recover, WorkInv, WorkTypes
<1> HIDE DEF r
<1>4. job' \in [Jobs -> JobRecord] /\ \A k \in Jobs : k # j => job'[k] = job[k]
  BY <1>2, <1>3 DEF WorkInv, WorkTypes
<1>5. WorkTypes'
  BY <1>1, <1>3, <1>4 DEF WorkInv, WorkTypes, Decremented
<1>6. CounterIsExact' /\ ConcurrencyLimit'
  BY <1>3 DEF CounterIsExact, ConcurrencyLimit
<1>7. Once'
  BY <1>3 DEF WorkInv, Once
<1>8. InFlightHeld'
  <2> SUFFICES ASSUME NEW x \in execs', x.job \notin forked' PROVE Held(job'[x.job])
    BY DEF InFlightHeld, Held
  <2>1. x \in execs /\ x.job \notin forked /\ x.job # j /\ x.job \in Jobs
    BY <1>3 DEF WorkInv, WorkTypes, Execution
  <2>2. Held(job[x.job])
    BY <2>1 DEF WorkInv, InFlightHeld
  <2> QED
    BY <1>4, <2>1, <2>2
<1>9. CancelledHeld'
  <2> SUFFICES ASSUME NEW k \in Jobs, job'[k].cancelled, k \notin outlived' \cup forked' PROVE Held(job'[k])
    BY DEF CancelledHeld, Held
  <2>1. job'[k] = job[k] /\ k \notin outlived \cup forked
    BY <1>3, <1>4
  <2> QED
    BY <2>1 DEF WorkInv, CancelledHeld
<1> QED
  BY <1>5, <1>6, <1>7, <1>8, <1>9 DEF WorkInv

----------------------------------------------------------------------------
(* ------------------ what a step does to the calls of tick -------------- *)

LEMMA NoCallIsCall == NoCall \in Call /\ NoCall.at = "none"
BY DEF NoCall, Call

LEMMA DueJobs == DueNow \subseteq Jobs
BY DEF DueNow

\* The ticks stay where they are, whatever their "now" covers.
LEMMA MaybeSeenParts ==
  ASSUME TickTypes, NEW j \in Jobs, MaybeSeen(j)
  PROVE  tick' \in [Ticks -> Call] /\ \A t \in Ticks : tick'[t].at = tick[t].at
<1>1. \A t \in Ticks : tick[t] \in Call /\ tick[t].sees \subseteq Jobs
  BY DEF TickTypes, Call
<1>2. \A t \in Ticks : /\ [tick[t] EXCEPT !.sees = @ \cup {j}] \in Call
                       /\ [tick[t] EXCEPT !.sees = @ \cup {j}].at = tick[t].at
  BY <1>1 DEF Call
<1>3. CASE UNCHANGED tick
  BY <1>3 DEF TickTypes
<1>4. CASE tick' = [t \in Ticks |-> IF tick[t].at \in {"active", "refill"}
                                    THEN [tick[t] EXCEPT !.sees = @ \cup {j}] ELSE tick[t]]
  BY <1>1, <1>2, <1>4
<1> QED
  BY <1>3, <1>4 DEF MaybeSeen

LEMMA TicksStay ==
  ASSUME TickTypes, tick' \in [Ticks -> Call], \A t \in Ticks : tick'[t].at = tick[t].at,
         main' = main, draining' \in BOOLEAN, drained' \in BOOLEAN
  PROVE  TickTypes'
BY DEF TickTypes

LEMMA WorkingParts ==
  ASSUME TickTypes, NEW t \in Ticks, NEW S \in SUBSET Jobs, Working(t, S)
  PROVE  /\ tick' \in [Ticks -> Call] /\ tick'[t].at = "active"
         /\ \A u \in Ticks : u # t => tick'[u] = tick[u]
<1>1. [at |-> "active", sees |-> S] \in Call
  BY DEF Call
<1> QED
  BY <1>1 DEF Working, TickTypes

LEMMA SettledParts ==
  ASSUME TickTypes, NEW t \in Ticks, Settled(t)
  PROVE  /\ tick' \in [Ticks -> Call] /\ tick'[t].at = "none"
         /\ main' = (IF main = t THEN NoTick ELSE main)
         /\ \A u \in Ticks : u # t => tick'[u].at = IF main = t /\ tick[u].at = "waiting" THEN "ready" ELSE tick[u].at
<1>1. \A u \in Ticks : tick[u] \in Call
  BY DEF TickTypes
<1>2. \A u \in Ticks : /\ [tick[u] EXCEPT !.at = "ready"] \in Call
                       /\ [tick[u] EXCEPT !.at = "ready"].at = "ready"
  BY <1>1 DEF Call
<1>3. \A u \in Ticks : tick'[u] = IF u = t THEN NoCall
                                  ELSE IF main = t /\ tick[u].at = "waiting" THEN [tick[u] EXCEPT !.at = "ready"]
                                  ELSE tick[u]
  BY DEF Settled
<1>4. tick' \in [Ticks -> Call]
  BY <1>1, <1>2, <1>3, NoCallIsCall DEF Settled
<1> QED
  BY <1>2, <1>3, <1>4, NoCallIsCall DEF Settled

\* A tick that settles, or goes on, leaves the calls that wait for one with one to wait for.
LEMMA SettledKeepsTicks ==
  ASSUME TickTypes, NEW t \in Ticks, Settled(t), UNCHANGED <<draining, drained>>
  PROVE  TickTypes'
<1>1. /\ tick' \in [Ticks -> Call] /\ tick'[t].at = "none"
      /\ main' = (IF main = t THEN NoTick ELSE main)
      /\ \A u \in Ticks : u # t => tick'[u].at = IF main = t /\ tick[u].at = "waiting" THEN "ready" ELSE tick[u].at
  BY SettledParts
<1>2. main' \in Ticks \cup {NoTick}
  BY <1>1 DEF TickTypes
<1>3. ASSUME NEW u \in Ticks, tick'[u].at = "waiting" PROVE main' # NoTick
  <2>1. u # t /\ tick[u].at = "waiting" /\ main # t
    BY <1>1, <1>3
  <2> QED
    BY <1>1, <2>1 DEF TickTypes
<1>4. ASSUME main' # NoTick PROVE tick'[main'].at \in {"active", "refill"}
  <2>1. main' = main /\ main # t /\ main \in Ticks /\ tick[main].at \in {"active", "refill"}
    BY <1>1, <1>4 DEF TickTypes
  <2> QED
    BY <1>1, <2>1
<1> QED
  BY <1>1, <1>2, <1>3, <1>4 DEF TickTypes

LEMMA WorkingKeepsTicks ==
  ASSUME TickTypes, NEW t \in Ticks, NEW S \in SUBSET Jobs, Working(t, S),
         main' = main \/ main' = t, UNCHANGED <<draining, drained>>
  PROVE  TickTypes'
<1>1. /\ tick' \in [Ticks -> Call] /\ tick'[t].at = "active"
      /\ \A u \in Ticks : u # t => tick'[u] = tick[u]
  BY WorkingParts
<1>2. main' \in Ticks \cup {NoTick} /\ NoTick \notin Ticks
  BY ConstantsAssumption DEF TickTypes
<1>3. ASSUME NEW u \in Ticks, tick'[u].at = "waiting" PROVE main' # NoTick
  <2>1. tick[u].at = "waiting"
    BY <1>1, <1>3
  <2> QED
    BY <1>2, <2>1 DEF TickTypes
<1>4. ASSUME main' # NoTick PROVE tick'[main'].at \in {"active", "refill"}
  <2>1. CASE main' = t
    BY <1>1, <2>1
  <2>2. CASE main' # t
    <3>1. main' = main /\ main \in Ticks /\ tick[main].at \in {"active", "refill"}
      BY <1>4, <2>2 DEF TickTypes
    <3> QED
      BY <1>1, <2>2, <3>1
  <2> QED
    BY <2>1, <2>2
<1> QED
  BY <1>1, <1>2, <1>3, <1>4 DEF TickTypes

LEMMA EndedParts ==
  ASSUME TickTypes, NEW x \in execs, NEW r, NEW sees \in BOOLEAN, Ended(x, r, sees)
  PROVE  /\ tick' \in [Ticks -> Call]
         /\ \A t \in Ticks : tick'[t].at = IF t = x.tick THEN "refill" ELSE tick[t].at
<1>1. \A t \in Ticks : tick[t] \in Call /\ tick[t].at \in {"none", "waiting", "ready", "active", "refill"}
                       /\ tick[t].sees \subseteq Jobs
  BY DEF TickTypes, Call
<1>2. tick' = [t \in Ticks |->
        [at |-> IF t = x.tick THEN "refill" ELSE tick[t].at,
         sees |-> IF sees THEN tick[t].sees ELSE tick[t].sees \ {x.job}]]
  BY DEF Ended
<1>3. \A t \in Ticks :
        [at |-> IF t = x.tick THEN "refill" ELSE tick[t].at,
         sees |-> IF sees THEN tick[t].sees ELSE tick[t].sees \ {x.job}] \in Call
  BY <1>1 DEF Call
<1> QED
  BY <1>2, <1>3

LEMMA EndedKeepsTicks ==
  ASSUME TickTypes, NEW x \in execs, NEW r, NEW sees \in BOOLEAN, Ended(x, r, sees)
  PROVE  TickTypes'
<1>1. /\ tick' \in [Ticks -> Call]
      /\ \A t \in Ticks : tick'[t].at = IF t = x.tick THEN "refill" ELSE tick[t].at
  BY EndedParts
<1>2. UNCHANGED <<main, draining, drained>>
  BY DEF Ended
<1> QED
  BY <1>1, <1>2 DEF TickTypes

\* Nothing a drained scheduler still does gives a tick an execution or a fill.
LEMMA QuietStays ==
  ASSUME Quiet, drained' = drained, draining => draining', forked \subseteq forked',
         drained /\ forked = {} => /\ \A x \in execs' : x \in execs \/ x.tick = NoTick
                                   /\ \A t \in Ticks : tick'[t].at \in {"refill", "ready"} => tick'[t].at = tick[t].at
  PROVE  Quiet'
BY DEF Quiet

----------------------------------------------------------------------------
(* ------------------------------- the steps ----------------------------- *)

Act(j) == Register(j) \/ Elapse(j) \/ Cancel(j) \/ Pause(j) \/ Resume(j) \/ RunNow(j) \/ Recover(j)

LEMMA SchedulerInit == Init => SchedulerInv
<1> SUFFICES ASSUME Init PROVE SchedulerInv
  OBVIOUS
<1>1. Absent \in JobRecord /\ ~Absent.cancelled
  BY ConstantsAssumption DEF Absent, JobRecord, Statuses
<1>2. IsFiniteSet(execs) /\ Cardinality(execs) = 0 /\ Cardinality(ByTicks(execs)) = 0
  BY FS_EmptySet DEF Init, ByTicks
<1>3. WorkTypes
  BY <1>1, <1>2, ConstantsAssumption DEF Init, WorkTypes
<1>4. CounterIsExact /\ Once /\ ConcurrencyLimit /\ InFlightHeld
  BY <1>2, ConstantsAssumption DEF Init, CounterIsExact, Once, ConcurrencyLimit, InFlightHeld, ByTicks
<1>5. CancelledHeld
  BY <1>1 DEF Init, CancelledHeld
<1>6. TickTypes
  BY NoCallIsCall DEF Init, TickTypes
<1>7. Quiet
  BY DEF Init, Quiet
<1> QED
  BY <1>3, <1>4, <1>5, <1>6, <1>7 DEF SchedulerInv, WorkInv

LEMMA OperationsKeep ==
  ASSUME SchedulerInv, NEW j \in Jobs, Act(j)
  PROVE  SchedulerInv'
<1> USE DEF SchedulerInv
<1>1. WorkInv'
  BY RegisterKeepsWork, ElapseKeepsWork, CancelKeepsWork, PauseKeepsWork, ResumeKeepsWork,
     RunNowKeepsWork, RecoverKeepsWork DEF Act
<1>2. /\ UNCHANGED <<main, draining, drained>> /\ forked \subseteq forked'
      /\ UNCHANGED tick \/ MaybeSeen(j)
      /\ \A x \in execs' : x \in execs \/ x.tick = NoTick
  <2>1. CASE RunNow(j)
    BY <2>1, NewExecIsNew DEF RunNow, Operation
  <2>2. CASE Recover(j)
    BY <2>2 DEF Recover, Operation
  <2>3. CASE Register(j) \/ Elapse(j)
    BY <2>3 DEF Register, Elapse
  <2>4. CASE Cancel(j) \/ Pause(j) \/ Resume(j)
    BY <2>4 DEF Cancel, Pause, Resume, Operation
  <2> QED
    BY <2>1, <2>2, <2>3, <2>4 DEF Act
<1>3. tick' \in [Ticks -> Call] /\ \A t \in Ticks : tick'[t].at = tick[t].at
  BY <1>2, MaybeSeenParts DEF TickTypes
<1>4. TickTypes'
  <2>1. draining \in BOOLEAN /\ drained \in BOOLEAN
    BY DEF TickTypes
  <2> QED
    BY <1>2, <1>3, <2>1, TicksStay
<1>5. Quiet'
  BY <1>2, <1>3, QuietStays
<1> QED
  BY <1>1, <1>4, <1>5

LEMMA FillKeeps ==
  ASSUME WorkInv, TickTypes, NEW t \in Ticks, NEW S \in SUBSET Jobs, Fill(t, S),
         UNCHANGED <<draining, drained, ops, forked, outlived>>
  PROVE  WorkInv' /\ TickTypes'
<1>1. PICK P \in Picks(S) : Start(P, t) /\ (Settled(t) \/ (Working(t, S) /\ UNCHANGED main))
  BY DEF Fill
<1>2. WorkInv'
  BY <1>1, StartKeepsWork
<1>3. TickTypes'
  BY <1>1, SettledKeepsTicks, WorkingKeepsTicks
<1> QED
  BY <1>2, <1>3

LEMMA TicksKeep ==
  ASSUME SchedulerInv, NEW t \in Ticks, TickCall(t) \/ TickWaits(t) \/ TickLate(t) \/ Refill(t)
  PROVE  SchedulerInv'
<1> USE DEF SchedulerInv
<1>a. tick[t] \in Call /\ tick[t].sees \subseteq Jobs
  BY DEF TickTypes, Call
<1>1. CASE TickCall(t)
  <2>1. PICK P \in Picks(DueNow) : Start(P, t) /\ Working(t, DueNow) /\ main' = t
    BY <1>1 DEF TickCall
  <2>2. ~draining /\ UNCHANGED <<draining, drained, ops, forked, outlived>>
    BY <1>1 DEF TickCall
  <2>3. WorkInv'
    BY <2>1, <2>2, DueJobs, StartKeepsWork
  <2>4. TickTypes'
    BY <2>1, <2>2, DueJobs, WorkingKeepsTicks
  <2>5. Quiet'
    BY <2>2 DEF Quiet
  <2> QED
    BY <2>3, <2>4, <2>5
<1>2. CASE TickWaits(t)
  <2>1. /\ main # NoTick /\ tick' = [tick EXCEPT ![t].at = "waiting"] /\ tick[t].at = "none"
        /\ UNCHANGED <<job, execs, running, main, draining, drained, ops, forked, outlived>>
    BY <1>2 DEF TickWaits
  <2>2. [tick[t] EXCEPT !.at = "waiting"] \in Call /\ [tick[t] EXCEPT !.at = "waiting"].at = "waiting"
    BY <1>a DEF Call
  <2>3. /\ tick' \in [Ticks -> Call] /\ tick'[t].at = "waiting"
        /\ \A u \in Ticks : u # t => tick'[u] = tick[u]
    BY <2>1, <2>2 DEF TickTypes
  <2>4. TickTypes'
    <3>1. main # t
      BY <2>1 DEF TickTypes
    <3> QED
      BY <2>1, <2>3, <3>1 DEF TickTypes
  <2>5. WorkInv'
    BY <2>1, WorkUntouched
  <2>6. Quiet'
    BY <2>1, <2>3, QuietStays
  <2> QED
    BY <2>4, <2>5, <2>6
<1>3. CASE TickLate(t)
  <2>1. tick[t].at = "ready" /\ UNCHANGED <<draining, drained, ops, forked, outlived>>
    BY <1>3 DEF TickLate
  <2>2. Quiet'
    BY <2>1 DEF Quiet
  <2>3. CASE draining
    <3>1. Settled(t) /\ UNCHANGED <<job, execs, running>>
      BY <1>3, <2>3 DEF TickLate
    <3>2. WorkInv'
      BY <2>1, <3>1, WorkUntouched
    <3>3. TickTypes'
      BY <2>1, <3>1, SettledKeepsTicks
    <3> QED
      BY <2>2, <3>2, <3>3
  <2>4. CASE ~draining
    <3>1. Fill(t, DueNow)
      BY <1>3, <2>4 DEF TickLate
    <3> QED
      BY <2>1, <2>2, <3>1, DueJobs, FillKeeps
  <2> QED
    BY <2>3, <2>4
<1>4. CASE Refill(t)
  <2>1. /\ tick[t].at = "refill" /\ Fill(t, tick[t].sees)
        /\ UNCHANGED <<draining, drained, ops, forked, outlived>>
    BY <1>4 DEF Refill
  <2>2. Quiet'
    BY <2>1 DEF Quiet
  <2> QED
    BY <1>a, <2>1, <2>2, FillKeeps
<1> QED
  BY <1>1, <1>2, <1>3, <1>4

LEMMA EndingsKeep ==
  ASSUME SchedulerInv, NEW x \in execs, Complete(x) \/ Fail(x)
  PROVE  SchedulerInv'
<1> USE DEF SchedulerInv
<1>1. WorkInv'
  BY CompleteKeepsWork, FailKeepsWork
<1>2. \E r : \E sees \in BOOLEAN : Ended(x, r, sees)
  <2>1. CASE Complete(x)
    <3>1. Ended(x, Completed(x.job), FALSE) /\ FALSE \in BOOLEAN
      BY <2>1 DEF Complete
    <3> QED
      BY ONLY <3>1, ZenonT(30)
  <2>2. CASE Fail(x)
    <3>1. PICK when \in {"thisTick", "nextTick", "later"} : Ended(x, Failed(x.job, when # "later"), when = "thisTick")
      BY <2>2 DEF Fail
    <3> DEFINE rec == Failed(x.job, when # "later")
    <3> DEFINE seen == when = "thisTick"
    <3>2. Ended(x, rec, seen) /\ seen \in BOOLEAN
      BY <3>1
    <3> HIDE DEF rec, seen
    <3> QED
      BY ONLY <3>2, ZenonT(30)
  <2> QED
    BY <2>1, <2>2
<1>3. PICK r : \E sees \in BOOLEAN : Ended(x, r, sees)
  BY <1>2
<1>4. PICK sees \in BOOLEAN : Ended(x, r, sees)
  BY <1>3
<1>5. TickTypes'
  BY <1>4, EndedKeepsTicks
<1>6. Quiet'
  <2>1. /\ UNCHANGED <<draining, drained, forked>> /\ execs' \subseteq execs
        /\ \A t \in Ticks : tick'[t].at = IF t = x.tick THEN "refill" ELSE tick[t].at
    BY <1>4, EndedParts DEF Ended
  <2>2. drained /\ forked = {} => x.tick \notin Ticks
    BY ConstantsAssumption DEF Quiet
  <2> QED
    BY <2>1, <2>2, QuietStays
<1> QED
  BY <1>1, <1>5, <1>6

LEMMA ShutdownKeeps ==
  ASSUME SchedulerInv, Shutdown \/ Drained \/ UNCHANGED vars
  PROVE  SchedulerInv'
<1> USE DEF SchedulerInv
<1>1. UNCHANGED <<job, execs, running, tick, main, ops, forked, outlived>>
  BY DEF Shutdown, Drained, vars
<1>2. WorkInv'
  BY <1>1, WorkUntouched
<1>3. /\ draining' \in BOOLEAN /\ drained' \in BOOLEAN /\ (draining => draining')
      /\ drained' = drained \/ (Drained /\ drained')
  BY DEF Shutdown, Drained, vars, TickTypes
<1>4. TickTypes'
  <2>1. tick' \in [Ticks -> Call] /\ main' = main /\ \A t \in Ticks : tick'[t].at = tick[t].at
    BY <1>1 DEF TickTypes
  <2> QED
    BY <1>3, <2>1, TicksStay
<1>5. Quiet'
  <2>1. CASE drained' = drained
    BY <1>1, <1>3, <2>1, QuietStays
  <2>2. CASE Drained
    <3>1. draining' /\ running = 0 /\ \A t \in Ticks : tick[t].at \notin {"refill", "ready"}
      BY <2>2 DEF Drained
    <3>2. forked = {} => execs = {}
      <4>1. IsFiniteSet(execs) /\ (forked = {} => running = Cardinality(execs))
        BY DEF WorkInv, WorkTypes, CounterIsExact
      <4> QED
        BY <3>1, <4>1, FS_EmptySet
    <3> QED
      BY <1>1, <3>1, <3>2 DEF Quiet
  <2> QED
    BY <1>3, <2>1, <2>2
<1> QED
  BY <1>2, <1>4, <1>5

LEMMA SchedulerStep ==
  ASSUME SchedulerInv, [Next]_vars
  PROVE  SchedulerInv'
<1>1. CASE \E j \in Jobs : Act(j)
  BY <1>1, OperationsKeep
<1>2. CASE \E t \in Ticks : TickCall(t) \/ TickWaits(t) \/ TickLate(t) \/ Refill(t)
  BY <1>2, TicksKeep
<1>3. CASE \E x \in execs : Complete(x) \/ Fail(x)
  BY <1>3, EndingsKeep
<1>4. CASE Shutdown \/ Drained \/ UNCHANGED vars
  BY <1>4, ShutdownKeeps
<1> QED
  BY <1>1, <1>2, <1>3, <1>4 DEF Next, Act

LEMMA SchedulerInvariance == Spec => []SchedulerInv
<1>1. SchedulerInv /\ [Next]_vars => SchedulerInv'
  BY SchedulerStep
<1> QED
  BY <1>1, SchedulerInit, PTL DEF Spec

\* Whatever ticks overlap and whatever is cancelled, paused, run by hand or recovered meanwhile
\* (scheduler.js:254-292, 329-426): no job is in flight twice, the limit holds, the counter is exact and
\* a drained scheduler is quiet, up to the forked jobs.
THEOREM SchedulerSound == Spec => []ExecutionsAreSound
<1> QED
  BY SchedulerInvariance, SchedulerIsSound, PTL

\* Only a fill adds to the executions of a tick, and only of jobs that are due.
LEMMA AddedByTick ==
  ASSUME SchedulerInv, [Next]_vars, NEW j \in Jobs, NEW t \in Ticks,
         NEW y \in execs', y \notin execs, y.job = j, y.tick = t
  PROVE  IsDue(j)
<1>1. CASE \E k \in Jobs : Act(k)
  <2>1. PICK k \in Jobs : Act(k)
    BY <1>1
  <2>2. y.tick = NoTick
    <3>1. CASE RunNow(k)
      BY <3>1, NewExecIsNew DEF RunNow
    <3>2. CASE ~RunNow(k)
      BY <2>1, <3>2 DEF Act, Register, Elapse, Cancel, Pause, Resume, Recover
    <3> QED
      BY <3>1, <3>2
  <2> QED
    BY <2>2, ConstantsAssumption
<1>2. ASSUME NEW u \in Ticks, NEW S \in SUBSET Jobs, NEW P \in Picks(S), Start(P, u) PROVE IsDue(j)
  <2>1. PICK k \in P : y = NewExec(k, u)
    BY <1>2 DEF Start
  <2>2. P \subseteq Jobs /\ \A i \in P : IsDue(i)
    BY <1>2, PicksParts DEF SchedulerInv
  <2> QED
    BY <2>1, <2>2, NewExecIsNew
<1>3. CASE \E u \in Ticks : TickCall(u) \/ TickWaits(u) \/ TickLate(u) \/ Refill(u)
  <2>1. PICK u \in Ticks : TickCall(u) \/ TickWaits(u) \/ TickLate(u) \/ Refill(u)
    BY <1>3
  <2>2. tick[u].sees \subseteq Jobs
    BY DEF SchedulerInv, TickTypes, Call
  <2>3. CASE TickCall(u)
    BY <1>2, <2>3, DueJobs DEF TickCall
  <2>4. CASE TickWaits(u)
    BY <2>4 DEF TickWaits
  <2>5. CASE TickLate(u)
    BY <1>2, <2>5, DueJobs DEF TickLate, Fill
  <2>6. CASE Refill(u)
    BY <1>2, <2>2, <2>6 DEF Refill, Fill
  <2> QED
    BY <2>1, <2>3, <2>4, <2>5, <2>6
<1>4. CASE \E x \in execs : Complete(x) \/ Fail(x)
  BY <1>4 DEF Complete, Fail, Ended
<1>5. CASE Shutdown \/ Drained \/ UNCHANGED vars
  BY <1>5 DEF Shutdown, Drained, vars
<1> QED
  BY <1>1, <1>3, <1>4, <1>5 DEF Next, Act

LEMMA CancelledStaysOut ==
  ASSUME SchedulerInv, [Next]_vars, NEW j \in Jobs, job[j].cancelled,
         NEW t \in Ticks, Cardinality({x \in execs' : x.job = j /\ x.tick = t})
                          > Cardinality({x \in execs : x.job = j /\ x.tick = t})
  PROVE  j \in outlived \cup forked
<1> DEFINE A == {x \in execs : x.job = j /\ x.tick = t}
<1> DEFINE B == {x \in execs' : x.job = j /\ x.tick = t}
<1>1. IsFiniteSet(A)
  BY FS_Subset DEF SchedulerInv, WorkInv, WorkTypes
<1>2. ~(B \subseteq A)
  <2> SUFFICES ASSUME B \subseteq A PROVE FALSE
    OBVIOUS
  <2>1. Cardinality(B) <= Cardinality(A) /\ Cardinality(A) \in Nat /\ Cardinality(B) \in Nat
    BY <1>1, FS_Subset, FS_CardinalityType
  <2>2. Cardinality(B) > Cardinality(A)
    OBVIOUS
  <2> HIDE DEF A, B
  <2> QED
    BY <2>1, <2>2
<1>3. PICK y \in execs' : y \notin execs /\ y.job = j /\ y.tick = t
  BY <1>2
<1>4. IsDue(j)
  BY <1>3, AddedByTick
<1> QED
  BY <1>4 DEF IsDue, SchedulerInv, WorkInv, CancelledHeld, Held

\* No tick starts a job that cancel (scheduler.js:329) has been asked for, through pauses, resumes,
\* retries and late ticks, unless a normal completion or recover put it back.
THEOREM CancelledNeverStarts == Spec => CancelHolds
<1>1. SchedulerInv /\ [Next]_vars
        => [ \A j \in Jobs : job[j].cancelled /\ (\E t \in Ticks : Cardinality({x \in execs' : x.job = j /\ x.tick = t})
                                                          > Cardinality({x \in execs : x.job = j /\ x.tick = t}))
        => j \in outlived \cup forked ]_vars
  BY CancelledStaysOut
<1> QED
  BY <1>1, SchedulerInvariance, PTL DEF Spec, CancelHolds

(***************************************************************************)
(*                          THE RESOURCE KERNEL                            *)
(***************************************************************************)

(* -------------------------------- sums --------------------------------- *)

LEMMA SumCountsUnits ==
  ASSUME NEW f, NEW S
  PROVE  SumOf(f, S) = Cardinality(UNION {{i} \X (1..f[i]) : i \in S})
BY DEF SumOf

LEMMA SumIsNat ==
  ASSUME NEW S, IsFiniteSet(S), NEW f, \A i \in S : f[i] \in Nat
  PROVE  /\ IsFiniteSet(UNION {{i} \X (1..f[i]) : i \in S})
         /\ SumOf(f, S) \in Nat
<1> DEFINE T == {{i} \X (1..f[i]) : i \in S}
<1> DEFINE g == [i \in S |-> {i} \X (1..f[i])]
<1>1. g \in Surjection(S, T)
  BY DEF Surjection
<1>2. IsFiniteSet(T)
  BY <1>1, FS_Surjection
<1>3. \A i \in S : IsFiniteSet({i} \X (1..f[i]))
  <2> SUFFICES ASSUME NEW i \in S PROVE IsFiniteSet({i} \X (1..f[i]))
    OBVIOUS
  <2>1. IsFiniteSet({i})
    BY FS_Singleton
  <2>2. 1 \in Int /\ f[i] \in Int
    OBVIOUS
  <2>3. IsFiniteSet(1..f[i])
    BY <2>2, FS_Interval
  <2> QED
    BY <2>1, <2>3, FS_Product
<1>4. IsFiniteSet(UNION T)
  BY <1>2, <1>3, FS_UNION
<1>5. Cardinality(UNION T) \in Nat
  BY <1>4, FS_CardinalityType
<1> QED
  BY <1>4, <1>5, SumCountsUnits

\* One more allocation adds its amount.
LEMMA SumGrows ==
  ASSUME NEW S, IsFiniteSet(S), NEW f, \A i \in S : f[i] \in Nat, NEW n, n \notin S, f[n] \in Nat
  PROVE  SumOf(f, S \cup {n}) = SumOf(f, S) + f[n]
<1> DEFINE U == UNION {{i} \X (1..f[i]) : i \in S}
<1> DEFINE V == {n} \X (1..f[n])
<1>1. UNION {{i} \X (1..f[i]) : i \in S \cup {n}} = U \cup V
  OBVIOUS
<1>2. U \cap V = {}
  OBVIOUS
<1>3. IsFiniteSet(U) /\ SumOf(f, S) \in Nat
  BY SumIsNat
<1>4. IsFiniteSet(V) /\ Cardinality(V) = f[n]
  <2>1. IsFiniteSet({n}) /\ Cardinality({n}) = 1
    BY FS_Singleton
  <2>2. IsFiniteSet(1..f[n]) /\ Cardinality(1..f[n]) = f[n]
    <3>1. 1 \in Int /\ f[n] \in Int /\ (1 > f[n] <=> f[n] = 0) /\ f[n] - 1 + 1 = f[n]
      OBVIOUS
    <3>2. /\ IsFiniteSet(1..f[n])
          /\ Cardinality(1..f[n]) = IF 1 > f[n] THEN 0 ELSE f[n] - 1 + 1
      BY <3>1, FS_Interval
    <3> QED
      BY <3>1, <3>2
  <2> QED
    <3>1. /\ IsFiniteSet({n} \X (1..f[n]))
          /\ Cardinality({n} \X (1..f[n])) = Cardinality({n}) * Cardinality(1..f[n])
      BY <2>1, <2>2, FS_Product
    <3>2. 1 * f[n] = f[n]
      OBVIOUS
    <3> QED
      BY <2>1, <2>2, <3>1, <3>2
<1>5. SumOf(f, S \cup {n}) = Cardinality(U \cup V) /\ SumOf(f, S) = Cardinality(U)
  BY <1>1, SumCountsUnits
<1> HIDE DEF U, V
<1>6. Cardinality(U \cup V) = Cardinality(U) + Cardinality(V) - Cardinality({})
  BY <1>2, <1>3, <1>4, FS_Union
<1> QED
  BY <1>3, <1>4, <1>5, <1>6, FS_EmptySet

LEMMA SumIsTheSame ==
  ASSUME NEW S, NEW f, NEW g, \A i \in S : f[i] = g[i]
  PROVE  SumOf(f, S) = SumOf(g, S)
<1>1. UNION {{i} \X (1..f[i]) : i \in S} = UNION {{i} \X (1..g[i]) : i \in S}
  OBVIOUS
<1> QED
  BY <1>1, SumCountsUnits

LEMMA SumShrinks ==
  ASSUME NEW S, IsFiniteSet(S), NEW f, \A i \in S : f[i] \in Nat, NEW n \in S
  PROVE  SumOf(f, S) = SumOf(f, S \ {n}) + f[n] /\ SumOf(f, S \ {n}) \in Nat
<1>1. IsFiniteSet(S \ {n}) /\ S = (S \ {n}) \cup {n}
  BY FS_RemoveElement
<1>2. SumOf(f, (S \ {n}) \cup {n}) = SumOf(f, S \ {n}) + f[n]
  BY <1>1, SumGrows
<1>3. SumOf(f, S \ {n}) \in Nat
  BY <1>1, SumIsNat
<1> QED
  BY <1>1, <1>2, <1>3

LEMMA SumOfPart ==
  ASSUME NEW S, IsFiniteSet(S), NEW f, \A i \in S : f[i] \in Nat, NEW T \in SUBSET S
  PROVE  SumOf(f, T) <= SumOf(f, S)
<1> DEFINE U == UNION {{i} \X (1..f[i]) : i \in S}
<1> DEFINE V == UNION {{i} \X (1..f[i]) : i \in T}
<1>1. V \subseteq U
  OBVIOUS
<1>2. IsFiniteSet(U)
  BY SumIsNat
<1>3. SumOf(f, T) = Cardinality(V) /\ SumOf(f, S) = Cardinality(U)
  BY SumCountsUnits
<1> HIDE DEF U, V
<1> QED
  BY <1>1, <1>2, <1>3, FS_Subset

----------------------------------------------------------------------------
(* ---------------------------- the invariant ---------------------------- *)

AllocRecord == [owner : Owners \cup {NoOwner}, amount : Amounts \cup {0}, priority : Priorities \cup {0}]
CallRecord == [op : {"none", "allocate", "release"}, owner : Owners \cup {NoOwner},
               amount : Amounts \cup {0}, priority : Priorities \cup {0}, id : Ids \cup {0},
               at : {"idle", "queued", "deciding", "preempting", "written"}]

Owned(o) == {i \in Active : alloc[i].owner = o}
Taken == Total(Active)

AllocTypes ==
  /\ alloc \in [Ids -> AllocRecord]
  /\ made \in 0..MaxAllocs /\ \A i \in Ids : i > made => alloc[i] = Unmade

\* Only the first on the chain has begun, and what it does is part of an allocate or a release.
CallTypes ==
  /\ call \in [Callers -> CallRecord]
  /\ queue \in Seq(Callers)
  /\ \A c \in Callers :
       /\ call[c].at \notin {"idle", "queued"} => Running(c)
       /\ call[c].at \in {"deciding", "preempting"} => call[c].op = "allocate"
       /\ call[c].at = "written" => call[c].op \in {"allocate", "release"}
       /\ call[c].op = "allocate" => call[c].owner \in Owners

OtherTypes == allocated \in Nat /\ sum \in Nat /\ faults \in 0..MaxFaults /\ drift \in {"none", "high", "any"}

\* Before its first write a call has read the stored sum; while an allocation is being taken away the
\* stored sum is still too high, which is where a failure leaves it.
CopyIsRead == \A c \in Callers : call[c].at = "deciding" => sum = allocated
StoredIsHigh ==
  \A c \in Callers :
    call[c].at = "preempting" \/ (call[c].at = "written" /\ call[c].op = "release")
      => drift = "any" \/ allocated >= Taken

\* The quota that was checked at the beginning still has room for the request.
RoomLeft ==
  \A c \in Callers, o \in Owners :
    call[c].at \in {"deciding", "preempting"} /\ call[c].owner = o
      => Total(Owned(o)) + call[c].amount <= Quota

\* Every request in progress that has not written its allocation has a number left.
Claims == {c \in Callers : call[c].op = "allocate" /\ call[c].at # "written"}
NumbersLeft == IsFiniteSet(Claims) /\ made + Cardinality(Claims) <= MaxAllocs

ResourceInv ==
  /\ AllocTypes /\ CallTypes /\ OtherTypes
  /\ AccountingHolds /\ NeverOvercommitted /\ CopyIsRead /\ StoredIsHigh
  /\ QuotaHolds /\ RoomLeft /\ NumbersLeft

LEMMA ResourcesSoundNow == ResourceInv => AccountsAreSound
BY DEF ResourceInv, AllocTypes, CallTypes, OtherTypes, AllocRecord, CallRecord, AccountsAreSound, ResourcesTypeOK

----------------------------------------------------------------------------
(* --------------------- allocations and their sums ---------------------- *)

LEMMA Sizes ==
  \A a \in Amounts \cup {0}, p \in Priorities \cup {0} : a \in Nat /\ p \in Nat
<1> SUFFICES ASSUME NEW a \in Amounts \cup {0}, NEW p \in Priorities \cup {0}
             PROVE  a \in Nat /\ p \in Nat
  OBVIOUS
<1>1. Amounts \subseteq Nat /\ Priorities \subseteq Nat
  BY ResourcesAssumption DEF ResourcesAssumption
<1> QED
  BY <1>1

LEMMA Amounted ==
  ASSUME AllocTypes
  PROVE  /\ IsFiniteSet(Ids) /\ Active \subseteq Ids
         /\ IsFiniteSet(Active) /\ \A o : IsFiniteSet(Owned(o)) /\ Owned(o) \subseteq Active
         /\ \A i \in Ids : /\ alloc[i] \in AllocRecord /\ alloc[i].amount \in Nat
                             /\ alloc[i].priority \in Nat
<1>1. IsFiniteSet(Ids)
  BY ResourcesAssumption, FS_Interval DEF Ids, ResourcesAssumption
<1>2. Active \subseteq Ids /\ \A o : Owned(o) \subseteq Active
  BY DEF Active, Owned
<1>3. IsFiniteSet(Active) /\ \A o : IsFiniteSet(Owned(o))
  BY <1>1, <1>2, FS_Subset
<1>4. \A i \in Ids : alloc[i] \in AllocRecord /\ alloc[i].amount \in Nat /\ alloc[i].priority \in Nat
  <2> SUFFICES ASSUME NEW i \in Ids
               PROVE  alloc[i] \in AllocRecord /\ alloc[i].amount \in Nat /\ alloc[i].priority \in Nat
    OBVIOUS
  <2>1. alloc[i] \in AllocRecord
    BY DEF AllocTypes
  <2>2. alloc[i].amount \in Amounts \cup {0} /\ alloc[i].priority \in Priorities \cup {0}
    BY <2>1 DEF AllocRecord
  <2> QED
    BY <2>1, <2>2, Sizes
<1> QED
  BY <1>1, <1>2, <1>3, <1>4

LEMMA TotalsAreNat ==
  ASSUME AllocTypes
  PROVE  Taken \in Nat /\ \A o : Total(Owned(o)) \in Nat
<1> DEFINE f == [i \in Ids |-> alloc[i].amount]
<1>1. \A S \in SUBSET Ids : \A i \in S : f[i] \in Nat
  BY Amounted
<1>2. Taken = SumOf(f, Active) /\ \A o : Total(Owned(o)) = SumOf(f, Owned(o))
  BY DEF Taken, Total
<1>3. \A S \in SUBSET Ids : IsFiniteSet(S) => SumOf(f, S) \in Nat
  BY <1>1, SumIsNat
<1>4. Active \in SUBSET Ids /\ \A o : Owned(o) \in SUBSET Ids
  BY Amounted
<1> QED
  BY <1>2, <1>3, <1>4, Amounted

\* An allocation that ends takes its amount out of the total, and out of no owner's but its own.
LEMMA Dropped ==
  ASSUME AllocTypes, NEW v \in Active,
         alloc' = [alloc EXCEPT ![v] = Freed(v)], made' = made
  PROVE  /\ AllocTypes'
         /\ Active' = Active \ {v} /\ \A i \in Ids : i # v => alloc'[i] = alloc[i]
         /\ Taken = Taken' + alloc[v].amount /\ Taken' \in Nat
         /\ \A o : Total(Owned(o))' <= Total(Owned(o)) /\ Total(Owned(o))' \in Nat
<1> DEFINE f == [i \in Ids |-> alloc[i].amount]
<1>1. v \in Ids /\ alloc[v] \in AllocRecord /\ alloc[v].amount \in Nat
  BY Amounted
<1>2. /\ Freed(v) \in AllocRecord /\ Freed(v).amount = alloc[v].amount /\ Freed(v).owner = NoOwner
  BY <1>1 DEF Freed, Unmade, AllocRecord
<1>3. /\ alloc' \in [Ids -> AllocRecord] /\ alloc'[v] = Freed(v)
      /\ \A i \in Ids : i # v => alloc'[i] = alloc[i]
  BY <1>1, <1>2 DEF AllocTypes
<1>4. v <= made
  <2> SUFFICES ASSUME v > made PROVE FALSE
    BY ResourcesAssumption, <1>1 DEF AllocTypes, Ids, ResourcesAssumption
  <2> QED
    BY <1>1 DEF AllocTypes, Active, Unmade
<1>5. AllocTypes'
  <2>1. ASSUME NEW i \in Ids, i > made PROVE alloc'[i] = Unmade
    <3>1. i # v
      BY ResourcesAssumption, <1>1, <1>4, <2>1 DEF AllocTypes, Ids, ResourcesAssumption
    <3> QED
      BY <1>3, <2>1, <3>1 DEF AllocTypes
  <2> QED
    BY <1>3, <2>1 DEF AllocTypes, Unmade, Ids
<1>6. Active' = Active \ {v}
  BY <1>1, <1>2, <1>3 DEF Active, Ids
<1>7. f' = f
  BY <1>2, <1>3 DEF Ids
<1>8. \A o : Owned(o)' \subseteq Owned(o)
  BY <1>3, <1>6 DEF Owned, Active
<1>9. /\ Taken = SumOf(f, Active) /\ Taken' = SumOf(f, Active \ {v})
      /\ \A o : Total(Owned(o)) = SumOf(f, Owned(o)) /\ Total(Owned(o))' = SumOf(f, Owned(o)')
  BY <1>6, <1>7 DEF Taken, Total
<1>10. \A i \in Ids : f[i] \in Nat
  BY Amounted
<1>11. f[v] = alloc[v].amount
  BY <1>1
<1> HIDE DEF f
<1>12. Taken = Taken' + alloc[v].amount /\ Taken' \in Nat
  BY <1>9, <1>10, <1>11, Amounted, SumShrinks
<1>13. ASSUME NEW o PROVE Total(Owned(o))' <= Total(Owned(o)) /\ Total(Owned(o))' \in Nat
  <2>1. IsFiniteSet(Owned(o)) /\ Owned(o) \subseteq Ids
    BY Amounted
  <2>2. IsFiniteSet(Owned(o)')
    BY <1>8, <2>1, FS_Subset
  <2>3. SumOf(f, Owned(o)') <= SumOf(f, Owned(o))
    BY <1>8, <1>10, <2>1, SumOfPart
  <2>4. SumOf(f, Owned(o)') \in Nat
    BY <1>8, <1>10, <2>1, <2>2, SumIsNat
  <2> QED
    BY <1>9, <2>3, <2>4
<1> QED
  BY <1>3, <1>5, <1>6, <1>12, <1>13

\* A new allocation adds its amount to the total and to its owner's.
LEMMA Added ==
  ASSUME AllocTypes, made + 1 <= MaxAllocs, NEW r \in AllocRecord, r.owner \in Owners,
         alloc' = [alloc EXCEPT ![made + 1] = r], made' = made + 1
  PROVE  /\ AllocTypes'
         /\ made + 1 \notin Active /\ Active' = Active \cup {made + 1}
         /\ \A i \in Active : alloc'[i] = alloc[i]
         /\ Taken' = Taken + r.amount
         /\ \A o : Total(Owned(o))' = Total(Owned(o)) + IF o = r.owner THEN r.amount ELSE 0
<1> DEFINE n == made + 1
<1> DEFINE f == [i \in Ids |-> alloc[i].amount]
<1> DEFINE g == [i \in Ids |-> alloc'[i].amount]
<1>1. n \in Ids /\ made \in Nat /\ MaxAllocs \in Nat /\ Ids \subseteq Nat
  BY ResourcesAssumption DEF Ids, AllocTypes, ResourcesAssumption
<1>2. alloc[n] = Unmade
  BY <1>1 DEF AllocTypes
<1>3. n \notin Active /\ r.owner # NoOwner
  BY ResourcesAssumption, <1>2 DEF Active, Unmade, ResourcesAssumption
<1>4. /\ alloc' \in [Ids -> AllocRecord] /\ alloc'[n] = r
      /\ \A i \in Ids : i # n => alloc'[i] = alloc[i]
  BY <1>1 DEF AllocTypes
<1>5. AllocTypes'
  <2>1. ASSUME NEW i \in Ids, i > n PROVE alloc'[i] = Unmade
    BY <1>1, <1>4, <2>1 DEF AllocTypes
  <2> QED
    BY <1>1, <1>4, <2>1 DEF AllocTypes, Unmade, Ids
<1>6. Active' = Active \cup {n}
  BY <1>1, <1>3, <1>4 DEF Active, Ids
<1>7. \A i \in Active : alloc'[i] = alloc[i] /\ i \in Ids /\ i # n
  BY <1>3, <1>4 DEF Active
<1>8. r.amount \in Nat /\ g[n] = r.amount /\ \A i \in Ids : f[i] \in Nat
  <2>1. r.amount \in Amounts \cup {0}
    BY DEF AllocRecord
  <2>2. r.amount \in Nat
    BY <2>1, Sizes
  <2>3. \A i \in Ids : f[i] \in Nat
    BY Amounted
  <2> QED
    BY <1>1, <1>4, <2>2, <2>3
<1>9. \A i \in Ids : i # n => f[i] = g[i]
  BY <1>4
<1>10. /\ Taken = SumOf(f, Active) /\ Taken' = SumOf(g, Active')
       /\ \A o : Total(Owned(o)) = SumOf(f, Owned(o)) /\ Total(Owned(o))' = SumOf(g, Owned(o)')
  BY DEF Taken, Total, Ids
<1> HIDE DEF f, g
<1>11. ASSUME NEW S \in SUBSET Active, IsFiniteSet(S)
       PROVE  /\ SumOf(g, S) = SumOf(f, S) /\ SumOf(g, S) \in Nat
              /\ SumOf(g, S \cup {n}) = SumOf(f, S) + r.amount
  <2>1. n \notin S /\ \A i \in S : f[i] = g[i] /\ g[i] \in Nat
    BY <1>3, <1>7, <1>8, <1>9
  <2>2. SumOf(g, S) = SumOf(f, S)
    BY <2>1, SumIsTheSame
  <2>3. SumOf(g, S) \in Nat
    BY <1>11, <2>1, SumIsNat
  <2>4. SumOf(g, S \cup {n}) = SumOf(g, S) + g[n]
    BY <1>8, <1>11, <2>1, SumGrows
  <2> QED
    BY <1>8, <2>2, <2>3, <2>4
<1>12. Taken' = Taken + r.amount
  BY <1>6, <1>10, <1>11, Amounted
<1>13. ASSUME NEW o PROVE Total(Owned(o))' = Total(Owned(o)) + IF o = r.owner THEN r.amount ELSE 0
  <2>1. Owned(o)' = IF o = r.owner THEN Owned(o) \cup {n} ELSE Owned(o)
    BY <1>1, <1>3, <1>4, <1>6, <1>7 DEF Owned
  <2>2. Owned(o) \in SUBSET Active /\ IsFiniteSet(Owned(o))
    BY Amounted
  <2>3. Total(Owned(o)) = SumOf(f, Owned(o)) /\ Total(Owned(o))' = SumOf(g, Owned(o)')
    BY <1>10
  <2>4. /\ SumOf(g, Owned(o)) = SumOf(f, Owned(o)) /\ SumOf(g, Owned(o)) \in Nat
        /\ SumOf(g, Owned(o) \cup {n}) = SumOf(f, Owned(o)) + r.amount
    BY <1>11, <2>2
  <2>5. CASE o = r.owner
    BY <2>1, <2>3, <2>4, <2>5
  <2>6. CASE o # r.owner
    <3>1. Total(Owned(o))' = Total(Owned(o)) /\ Total(Owned(o)) \in Nat
      BY <2>1, <2>3, <2>4, <2>6
    <3> QED
      BY <2>6, <3>1
  <2> QED
    BY <2>5, <2>6
<1> QED
  BY <1>3, <1>5, <1>6, <1>7, <1>12, <1>13

----------------------------------------------------------------------------
(* ------------------------- calls and their chain ----------------------- *)

\* While one call runs, no other has begun.
LEMMA Alone ==
  ASSUME CallTypes, NEW c \in Callers, Running(c)
  PROVE  /\ queue # <<>> /\ Head(queue) = c
         /\ \A d \in Callers : d # c => call[d].at \in {"idle", "queued"}
BY DEF CallTypes, Running

LEMMA IdleIsCall == Idle \in CallRecord /\ Idle.at = "idle" /\ Idle.op = "none"
BY DEF Idle, CallRecord

LEMMA LeaveParts ==
  ASSUME CallTypes, NEW c \in Callers, Running(c), Leave(c)
  PROVE  /\ CallTypes' /\ sum' = 0
         /\ \A d \in Callers : call'[d].at \in {"idle", "queued"} /\ (d # c => call'[d] = call[d])
         /\ call'[c].op = "none"
<1>1. /\ queue' = Tail(queue) /\ call' = [call EXCEPT ![c] = Idle] /\ sum' = 0
  BY DEF Leave
<1>2. queue' \in Seq(Callers)
  BY <1>1, Alone DEF CallTypes
<1>3. /\ call' \in [Callers -> CallRecord] /\ call'[c] = Idle
      /\ \A d \in Callers : d # c => call'[d] = call[d]
  BY <1>1, IdleIsCall DEF CallTypes
<1>4. \A d \in Callers : call'[d].at \in {"idle", "queued"}
  BY <1>3, Alone, IdleIsCall
<1>5. \A d \in Callers : call'[d].op = "allocate" => call'[d].owner \in Owners
  BY <1>3, IdleIsCall DEF CallTypes
<1> QED
  BY <1>1, <1>2, <1>3, <1>4, <1>5, IdleIsCall DEF CallTypes

LEMMA GoToParts ==
  ASSUME CallTypes, NEW c \in Callers, Running(c), NEW w \in {"deciding", "preempting", "written"}, GoTo(c, w),
         queue' = queue, call[c].op = "allocate" \/ (call[c].op = "release" /\ w = "written")
  PROVE  /\ CallTypes'
         /\ \A d \in Callers : d # c => call'[d] = call[d] /\ call[d].at \in {"idle", "queued"}
         /\ call'[c].at = w /\ call'[c].op = call[c].op /\ call'[c].owner = call[c].owner
         /\ call'[c].amount = call[c].amount
<1> DEFINE r == [call[c] EXCEPT !.at = w]
<1>1. call' = [call EXCEPT ![c] = r] /\ call[c] \in CallRecord
  BY DEF GoTo, CallTypes
<1>2. r \in CallRecord /\ r.at = w /\ r.op = call[c].op /\ r.owner = call[c].owner /\ r.amount = call[c].amount
  BY <1>1 DEF CallRecord
<1> HIDE DEF r
<1>3. /\ call' \in [Callers -> CallRecord] /\ call'[c] = r
      /\ \A d \in Callers : d # c => call'[d] = call[d] /\ call[d].at \in {"idle", "queued"}
  BY <1>1, <1>2, Alone DEF CallTypes
<1>4. \A d \in Callers : call'[d].at \notin {"idle", "queued"} => Running(d)'
  BY <1>3, Alone DEF Running
<1>5. \A d \in Callers :
        /\ call'[d].at \in {"deciding", "preempting"} => call'[d].op = "allocate"
        /\ call'[d].at = "written" => call'[d].op \in {"allocate", "release"}
        /\ call'[d].op = "allocate" => call'[d].owner \in Owners
  BY <1>2, <1>3 DEF CallTypes
<1>6. queue' \in Seq(Callers)
  BY DEF CallTypes
<1> QED
  BY <1>2, <1>3, <1>4, <1>5, <1>6 DEF CallTypes

LEMMA AskParts ==
  ASSUME CallTypes, NEW c \in Callers, call[c].op = "none", NEW r \in CallRecord, r.at = "queued",
         r.op = "allocate" => r.owner \in Owners, call' = [call EXCEPT ![c] = r], queue' = Append(queue, c)
  PROVE  /\ CallTypes'
         /\ call'[c] = r /\ \A d \in Callers : d # c => call'[d] = call[d]
         /\ call[c].at \in {"idle", "queued"}
<1>1. call[c] \in CallRecord /\ call[c].at \in {"idle", "queued"}
  <2>1. call[c] \in CallRecord
    BY DEF CallTypes
  <2>2. call[c].at \in {"idle", "queued", "deciding", "preempting", "written"}
    BY <2>1 DEF CallRecord
  <2> QED
    BY <2>1, <2>2 DEF CallTypes
<1>2. /\ call' \in [Callers -> CallRecord] /\ call'[c] = r
      /\ \A d \in Callers : d # c => call'[d] = call[d]
  BY DEF CallTypes
<1>3. queue \in Seq(Callers) /\ queue' \in Seq(Callers)
  BY DEF CallTypes
<1>4. queue # <<>> => queue' # <<>> /\ Head(queue') = Head(queue)
  BY <1>3
<1>5. \A d \in Callers : call'[d].at \notin {"idle", "queued"} => Running(d)'
  BY <1>2, <1>4 DEF CallTypes, Running
<1>6. \A d \in Callers :
        /\ call'[d].at \in {"deciding", "preempting"} => call'[d].op = "allocate"
        /\ call'[d].at = "written" => call'[d].op \in {"allocate", "release"}
        /\ call'[d].op = "allocate" => call'[d].owner \in Owners
  BY <1>2 DEF CallTypes
<1> QED
  BY <1>1, <1>2, <1>3, <1>5, <1>6 DEF CallTypes

----------------------------------------------------------------------------
(* ------------------------------- the steps ----------------------------- *)

\* The allocations are what they were.
LEMMA SameTaken ==
  ASSUME UNCHANGED alloc
  PROVE  /\ Taken' = Taken /\ Active' = Active /\ \A o : Owned(o)' = Owned(o)
         /\ \A o : Total(Owned(o))' = Total(Owned(o))
         /\ (AllocTypes /\ UNCHANGED made => AllocTypes') /\ (QuotaHolds => QuotaHolds')
<1>1. Active' = Active
  BY DEF Active, Ids
<1>2. \A o : Owned(o)' = Owned(o)
  BY <1>1 DEF Owned
<1>3. Taken' = Taken /\ \A o : Total(Owned(o))' = Total(Owned(o))
  BY <1>1, <1>2 DEF Taken, Total, Ids
<1>4. AllocTypes /\ UNCHANGED made => AllocTypes'
  BY DEF AllocTypes, Ids, Unmade
<1>5. QuotaHolds => QuotaHolds'
  BY <1>3 DEF QuotaHolds, Owned
<1> QED
  BY <1>1, <1>2, <1>3, <1>4, <1>5

\* A call that ends claims no number any more.
LEMMA FewerClaims ==
  ASSUME NumbersLeft, Claims' \subseteq Claims, made' = made, made \in Nat, MaxAllocs \in Nat
  PROVE  NumbersLeft'
<1>1. IsFiniteSet(Claims') /\ Cardinality(Claims') <= Cardinality(Claims)
  BY FS_Subset DEF NumbersLeft
<1>2. Cardinality(Claims') \in Nat /\ Cardinality(Claims) \in Nat
  BY <1>1, FS_CardinalityType DEF NumbersLeft
<1>3. made + Cardinality(Claims) <= MaxAllocs
  BY DEF NumbersLeft
<1>4. made + Cardinality(Claims') <= MaxAllocs
  BY <1>1, <1>2, <1>3
<1> QED
  BY <1>1, <1>4 DEF NumbersLeft

\* A step that ends the running call, whatever it leaves in the resource record.
LEMMA AfterLeave ==
  ASSUME ResourceInv, NEW c \in Callers, Running(c), Leave(c), UNCHANGED <<alloc, made>>,
         allocated' \in Nat, faults' \in 0..MaxFaults, drift' \in {"none", "high", "any"},
         drift' = "none" => allocated' = Taken, drift' = "high" => allocated' >= Taken,
         drift' # "any" => Taken <= Allocatable
  PROVE  ResourceInv'
<1> USE DEF ResourceInv
<1>1. /\ CallTypes' /\ sum' = 0
      /\ \A d \in Callers : call'[d].at \in {"idle", "queued"} /\ (d # c => call'[d] = call[d])
      /\ call'[c].op = "none"
  BY LeaveParts
<1>2. Booked' = allocated'
  BY <1>1 DEF Booked, Midway
<1>3. Taken' = Taken /\ AllocTypes' /\ QuotaHolds'
  BY SameTaken
<1>4. OtherTypes'
  BY <1>1 DEF OtherTypes
<1>5. AccountingHolds' /\ NeverOvercommitted'
  BY <1>2, <1>3 DEF AccountingHolds, NeverOvercommitted, Taken, Allocatable
<1>6. CopyIsRead' /\ StoredIsHigh' /\ RoomLeft'
  BY <1>1 DEF CopyIsRead, StoredIsHigh, RoomLeft
<1>7. Claims' \subseteq Claims
  BY <1>1 DEF Claims
<1>8. NumbersLeft'
  BY ResourcesAssumption, <1>7, FewerClaims DEF AllocTypes, ResourcesAssumption
<1> QED
  BY <1>1, <1>3, <1>4, <1>5, <1>6, <1>8

\* A step that only queues a call.
LEMMA AfterAsk ==
  ASSUME ResourceInv, NEW c \in Callers, call[c].op = "none", NEW r \in CallRecord, r.at = "queued",
         r.op = "allocate" => r.owner \in Owners, call' = [call EXCEPT ![c] = r], queue' = Append(queue, c),
         UNCHANGED <<alloc, made, allocated, sum, faults, drift>>, NumbersLeft'
  PROVE  ResourceInv'
<1> USE DEF ResourceInv
<1>1. /\ CallTypes' /\ call'[c] = r /\ \A d \in Callers : d # c => call'[d] = call[d]
      /\ call[c].at \in {"idle", "queued"}
  BY AskParts
<1>2. Booked' = Booked
  BY <1>1 DEF Booked, Midway
<1>3. /\ Taken' = Taken /\ AllocTypes' /\ QuotaHolds'
      /\ \A o : Total(Owned(o))' = Total(Owned(o))
  BY SameTaken
<1>4. AccountingHolds' /\ NeverOvercommitted'
  BY <1>2, <1>3 DEF AccountingHolds, NeverOvercommitted, Taken, Allocatable
<1>5. CopyIsRead' /\ StoredIsHigh'
  BY <1>1, <1>3 DEF CopyIsRead, StoredIsHigh
<1>6. RoomLeft'
  <2> SUFFICES ASSUME NEW d \in Callers, NEW o \in Owners,
                      call'[d].at \in {"deciding", "preempting"}, call'[d].owner = o
               PROVE  Total(Owned(o))' + call'[d].amount <= Quota
    BY DEF RoomLeft
  <2>1. call'[d] = call[d]
    BY <1>1
  <2>2. Total(Owned(o)) + call[d].amount <= Quota
    BY <2>1 DEF RoomLeft
  <2> QED
    BY <1>3, <2>1, <2>2
<1> QED
  BY <1>1, <1>3, <1>4, <1>5, <1>6 DEF OtherTypes

\* A step of the running call after which it goes on.
LEMMA AfterGoTo ==
  ASSUME ResourceInv, NEW c \in Callers, Running(c), NEW w \in {"deciding", "preempting", "written"}, GoTo(c, w),
         UNCHANGED <<queue, allocated, faults, drift>>,
         call[c].op = "allocate" \/ (call[c].op = "release" /\ w = "written"),
         AllocTypes', sum' \in Nat, Taken' \in Nat,
         w = "deciding" => sum' = allocated,
         drift = "none" => sum' = Taken', drift = "high" => sum' >= Taken',
         drift # "any" => Taken' <= Allocatable,
         w = "preempting" \/ (w = "written" /\ call[c].op = "release") => drift = "any" \/ allocated >= Taken',
         QuotaHolds',
         w \in {"deciding", "preempting"}
           => \A o \in Owners : call[c].owner = o => Total(Owned(o))' + call[c].amount <= Quota,
         NumbersLeft'
  PROVE  ResourceInv'
<1> USE DEF ResourceInv
<1>1. /\ CallTypes'
      /\ \A d \in Callers : d # c => call'[d] = call[d] /\ call[d].at \in {"idle", "queued"}
      /\ call'[c].at = w /\ call'[c].op = call[c].op /\ call'[c].owner = call[c].owner
      /\ call'[c].amount = call[c].amount
  BY GoToParts
<1>2. Booked' = sum'
  <2>1. CASE w = "deciding"
    <3>1. ~Midway'
      BY <1>1, <2>1 DEF Midway
    <3> QED
      BY <2>1, <3>1 DEF Booked
  <2>2. CASE w # "deciding"
    <3>1. Midway'
      BY <1>1, <2>2 DEF Midway
    <3> QED
      BY <3>1 DEF Booked
  <2> QED
    BY <2>1, <2>2
<1>3. AccountingHolds' /\ NeverOvercommitted'
  BY <1>2 DEF AccountingHolds, NeverOvercommitted, Taken, Allocatable
<1>4. CopyIsRead' /\ StoredIsHigh'
  BY <1>1 DEF CopyIsRead, StoredIsHigh
<1>5. RoomLeft'
  <2> SUFFICES ASSUME NEW d \in Callers, NEW o \in Owners,
                      call'[d].at \in {"deciding", "preempting"}, call'[d].owner = o
               PROVE  Total(Owned(o))' + call'[d].amount <= Quota
    BY DEF RoomLeft
  <2>1. d = c
    BY <1>1
  <2>2. call'[d].owner = call[c].owner /\ call'[d].amount = call[c].amount /\ w \in {"deciding", "preempting"}
    BY <1>1, <2>1
  <2> QED
    BY <2>2
<1>6. OtherTypes'
  BY DEF OtherTypes
<1> QED
  BY <1>1, <1>3, <1>4, <1>5, <1>6

\* The books as a call that has not begun, or is deciding, finds them: its copy, if it has one, and the
\* stored sum are right.
LEMMA BooksBefore ==
  ASSUME ResourceInv, NEW c \in Callers, Running(c), call[c].at \in {"idle", "queued", "deciding"}
  PROVE  /\ drift = "none" => allocated = Taken
         /\ drift = "high" => allocated >= Taken
         /\ drift # "any" => Taken <= Allocatable
         /\ Taken \in Nat /\ allocated \in Nat /\ Allocatable \in Nat
<1>1. ~Midway
  BY Alone DEF ResourceInv, Midway
<1>2. Booked = allocated
  BY <1>1 DEF Booked
<1>3. Taken \in Nat
  BY TotalsAreNat DEF ResourceInv
<1>4. Allocatable \in Nat
  BY ResourcesAssumption DEF ResourceInv, ResourcesAssumption, Allocatable
<1> QED
  BY <1>2, <1>3, <1>4 DEF ResourceInv, AccountingHolds, NeverOvercommitted, Taken, OtherTypes

LEMMA BooksMidway ==
  ASSUME ResourceInv, NEW c \in Callers, Running(c), call[c].at \in {"preempting", "written"}
  PROVE  /\ drift = "none" => sum = Taken
         /\ drift = "high" => sum >= Taken
         /\ drift # "any" => Taken <= Allocatable
         /\ Taken \in Nat /\ sum \in Nat /\ Allocatable \in Nat
<1>1. Midway
  BY DEF Midway
<1>2. Booked = sum
  BY <1>1 DEF Booked
<1>3. Taken \in Nat
  BY TotalsAreNat DEF ResourceInv
<1>4. Allocatable \in Nat
  BY ResourcesAssumption DEF ResourceInv, ResourcesAssumption, Allocatable
<1> QED
  BY <1>2, <1>3, <1>4 DEF ResourceInv, AccountingHolds, NeverOvercommitted, Taken, OtherTypes

LEMMA BooksDeciding ==
  ASSUME ResourceInv, NEW c \in Callers, Deciding(c)
  PROVE  /\ Running(c) /\ call[c].at \in {"deciding", "preempting"} /\ call[c].op = "allocate"
         /\ drift = "none" => sum = Taken
         /\ drift = "high" => sum >= Taken
         /\ drift # "any" => Taken <= Allocatable /\ allocated >= Taken
         /\ Taken \in Nat /\ sum \in Nat /\ allocated \in Nat /\ Allocatable \in Nat
<1>1. Running(c) /\ call[c].at \in {"deciding", "preempting"} /\ call[c].op = "allocate"
  BY DEF Deciding, ResourceInv, CallTypes
<1>2. CASE call[c].at = "deciding"
  <2>1. sum = allocated
    BY <1>2 DEF ResourceInv, CopyIsRead
  <2>2. /\ drift = "none" => allocated = Taken
        /\ drift = "high" => allocated >= Taken
        /\ drift # "any" => Taken <= Allocatable
        /\ Taken \in Nat /\ allocated \in Nat /\ Allocatable \in Nat
    BY <1>1, <1>2, BooksBefore
  <2>3. drift # "any" => allocated >= Taken
    BY <2>2 DEF ResourceInv, OtherTypes
  <2> QED
    BY <1>1, <2>1, <2>2, <2>3
<1>3. CASE call[c].at = "preempting"
  <2>1. drift # "any" => allocated >= Taken
    BY <1>3 DEF ResourceInv, StoredIsHigh
  <2>2. allocated \in Nat
    BY DEF ResourceInv, OtherTypes
  <2> QED
    BY <1>1, <1>3, <2>1, <2>2, BooksMidway
<1> QED
  BY <1>1, <1>2, <1>3

\* A request that asks for a number finds one that neither an allocation nor another request has.
LEMMA NumbersAsked ==
  ASSUME ResourceInv, NEW c \in Callers, AskAllocate(c)
  PROVE  NumbersLeft'
<1> DEFINE Asking == {d \in Callers : call[d].op = "allocate"}
<1>1. IsFiniteSet(Claims) /\ Cardinality(Claims) \in Nat /\ made \in Nat /\ MaxAllocs \in Nat
  BY ResourcesAssumption, FS_CardinalityType DEF ResourceInv, NumbersLeft, AllocTypes, ResourcesAssumption
<1>2. Asking \subseteq Claims \cup {Head(queue)}
  BY DEF ResourceInv, CallTypes, Claims, Running
<1>3. IsFiniteSet(Claims \cup {Head(queue)})
  BY <1>1, FS_AddElement
<1>4. IsFiniteSet(Asking)
  BY <1>2, <1>3, FS_Subset
<1>5. Claims \subseteq Asking /\ Cardinality(Claims) <= Cardinality(Asking) /\ Cardinality(Asking) \in Nat
  <2>1. Claims \subseteq Asking
    BY DEF Claims
  <2> QED
    BY <2>1, <1>4, FS_Subset, FS_CardinalityType
<1>6. made + Cardinality(Asking) < MaxAllocs
  BY DEF AskAllocate
<1>7. \A d \in Callers : d # c => call'[d] = call[d]
  BY DEF AskAllocate, ResourceInv, CallTypes
<1>8. Claims' \subseteq Claims \cup {c}
  BY <1>7 DEF Claims
<1> HIDE DEF Asking
<1>9. /\ IsFiniteSet(Claims \cup {c}) /\ Cardinality(Claims \cup {c}) \in Nat
      /\ Cardinality(Claims \cup {c}) <= Cardinality(Claims) + 1
  <2>1. /\ IsFiniteSet(Claims \cup {c})
        /\ Cardinality(Claims \cup {c})
             = IF c \in Claims THEN Cardinality(Claims) ELSE Cardinality(Claims) + 1
    BY <1>1, FS_AddElement
  <2> QED
    BY <1>1, <2>1
<1>10. IsFiniteSet(Claims') /\ Cardinality(Claims') <= Cardinality(Claims \cup {c}) /\ Cardinality(Claims') \in Nat
  BY <1>8, <1>9, FS_Subset, FS_CardinalityType
<1>11. made' = made
  BY DEF AskAllocate
<1>12. made' + Cardinality(Claims') <= MaxAllocs
  BY <1>1, <1>5, <1>6, <1>9, <1>10, <1>11
<1> QED
  BY <1>10, <1>12 DEF NumbersLeft

LEMMA AskAllocateKeeps ==
  ASSUME ResourceInv, NEW c \in Callers, AskAllocate(c)
  PROVE  ResourceInv'
<1>1. PICK o \in Owners, a \in Amounts, p \in Priorities :
        call' = [call EXCEPT ![c] =
          [op |-> "allocate", owner |-> o, amount |-> a, priority |-> p, id |-> 0, at |-> "queued"]]
  BY DEF AskAllocate
<1> DEFINE r == [op |-> "allocate", owner |-> o, amount |-> a, priority |-> p, id |-> 0, at |-> "queued"]
<1>2. r \in CallRecord /\ r.at = "queued" /\ r.op = "allocate" /\ r.owner \in Owners
  BY DEF CallRecord
<1>3. call' = [call EXCEPT ![c] = r]
  BY <1>1
<1> HIDE DEF r
<1>4. /\ call[c].op = "none" /\ queue' = Append(queue, c)
      /\ UNCHANGED <<alloc, made, allocated, sum, faults, drift>>
  BY DEF AskAllocate
<1> QED
  BY <1>2, <1>3, <1>4, NumbersAsked, AfterAsk

LEMMA AskReleaseKeeps ==
  ASSUME ResourceInv, NEW c \in Callers, AskRelease(c)
  PROVE  ResourceInv'
<1>1. PICK i \in Active :
        call' = [call EXCEPT ![c] = [Idle EXCEPT !.op = "release", !.id = i, !.at = "queued"]]
  BY ZenonT(30) DEF AskRelease
<1> DEFINE r == [Idle EXCEPT !.op = "release", !.id = i, !.at = "queued"]
<1>2. r \in CallRecord /\ r.at = "queued" /\ r.op = "release"
  BY DEF CallRecord, Idle, Active
<1>3. call' = [call EXCEPT ![c] = r]
  BY <1>1
<1> HIDE DEF r
<1>4. /\ call[c].op = "none" /\ queue' = Append(queue, c)
      /\ UNCHANGED <<alloc, made, allocated, sum, faults, drift>>
  BY DEF AskRelease
<1>5. Claims' \subseteq Claims
  BY <1>2, <1>3 DEF Claims, ResourceInv, CallTypes
<1>6. NumbersLeft'
  BY ResourcesAssumption, <1>4, <1>5, FewerClaims DEF ResourceInv, AllocTypes, ResourcesAssumption
<1> QED
  BY <1>2, <1>3, <1>4, <1>6, AfterAsk

LEMMA CallAmount ==
  ASSUME ResourceInv, NEW c \in Callers
  PROVE  call[c] \in CallRecord /\ call[c].amount \in Amounts \cup {0} /\ call[c].amount \in Nat
<1>1. call[c] \in CallRecord
  BY DEF ResourceInv, CallTypes
<1>2. call[c].amount \in Amounts \cup {0}
  BY <1>1 DEF CallRecord
<1> QED
  BY <1>1, <1>2, Sizes DEF ResourceInv

\* A running call that goes on claims no number it had not claimed.
LEMMA ClaimsGoOn ==
  ASSUME ResourceInv, NEW c \in Callers, Running(c), NEW w \in {"deciding", "preempting", "written"}, GoTo(c, w),
         queue' = queue, call[c].op = "allocate" \/ (call[c].op = "release" /\ w = "written"),
         call[c].at # "written", made' = made
  PROVE  NumbersLeft'
<1>1. /\ \A d \in Callers : d # c => call'[d] = call[d]
      /\ call'[c].at = w /\ call'[c].op = call[c].op
  BY GoToParts DEF ResourceInv
<1>2. Claims' \subseteq Claims
  BY <1>1 DEF Claims
<1> QED
  BY ResourcesAssumption, <1>2, FewerClaims DEF ResourceInv, AllocTypes, ResourcesAssumption

LEMMA BeginKeeps ==
  ASSUME ResourceInv, NEW c \in Callers, Begin(c)
  PROVE  ResourceInv'
<1>1. /\ Running(c) /\ call[c].op = "allocate" /\ call[c].at = "queued"
      /\ UNCHANGED <<alloc, made, allocated, faults, drift>>
  BY DEF Begin
<1>2. /\ drift = "none" => allocated = Taken
      /\ drift = "high" => allocated >= Taken
      /\ drift # "any" => Taken <= Allocatable
      /\ Taken \in Nat /\ allocated \in Nat
  BY <1>1, BooksBefore
<1>3. CASE OverQuota(c)
  <2>1. Leave(c)
    BY <1>3 DEF Begin
  <2> QED
    BY <1>1, <1>2, <2>1, AfterLeave DEF ResourceInv, OtherTypes
<1>4. CASE ~OverQuota(c)
  <2>1. GoTo(c, "deciding") /\ sum' = allocated /\ UNCHANGED queue
    BY <1>4 DEF Begin
  <2>2. Taken' = Taken /\ AllocTypes' /\ QuotaHolds' /\ \A o : Total(Owned(o))' = Total(Owned(o))
    BY <1>1, SameTaken DEF ResourceInv
  <2>3. NumbersLeft'
    BY <1>1, <2>1, ClaimsGoOn
  <2>4. ASSUME NEW o \in Owners, call[c].owner = o PROVE Total(Owned(o))' + call[c].amount <= Quota
    <3>1. call[c].amount \in Nat
      BY CallAmount
    <3>2. Total(Owned(o)) \in Nat
      BY TotalsAreNat DEF ResourceInv
    <3>3. ~(Total(Owned(o)) + call[c].amount > Quota)
      BY <1>4, <2>4 DEF OverQuota, Owned
    <3>4. Quota \in Nat
      BY ResourcesAssumption DEF ResourceInv, ResourcesAssumption
    <3> QED
      BY <2>2, <3>1, <3>2, <3>3, <3>4
  <2>5. AllocTypes' /\ Taken' \in Nat /\ sum' \in Nat
    BY <1>2, <2>1, <2>2
  <2> QED
    BY <1>1, <1>2, <2>1, <2>2, <2>3, <2>4, <2>5, AfterGoTo DEF Allocatable
<1> QED
  BY <1>3, <1>4

\* The quotas are kept when no owner's total grows.
LEMMA QuotaStays ==
  ASSUME QuotaHolds, \A o : Total(Owned(o))' <= Total(Owned(o)) /\ Total(Owned(o))' \in Nat,
         \A o : Total(Owned(o)) \in Nat, Quota \in Nat
  PROVE  QuotaHolds'
<1>1. \A o \in Owners : Total(Owned(o)) <= Quota
  BY DEF QuotaHolds, Owned
<1>2. \A o \in Owners : Total(Owned(o))' <= Quota
  BY <1>1
<1> QED
  BY <1>2 DEF QuotaHolds, Owned

LEMMA PreemptKeeps ==
  ASSUME ResourceInv, NEW c \in Callers, Preempt(c)
  PROVE  ResourceInv'
<1>1. /\ Deciding(c) /\ GoTo(c, "preempting")
      /\ UNCHANGED <<made, allocated, queue, faults, drift>>
  BY DEF Preempt
<1>2. /\ Running(c) /\ call[c].at \in {"deciding", "preempting"} /\ call[c].op = "allocate"
      /\ drift = "none" => sum = Taken
      /\ drift = "high" => sum >= Taken
      /\ drift # "any" => Taken <= Allocatable /\ allocated >= Taken
      /\ Taken \in Nat /\ sum \in Nat /\ allocated \in Nat /\ Allocatable \in Nat
  BY <1>1, BooksDeciding
<1>3. PICK v \in Victims(c) :
        alloc' = [alloc EXCEPT ![v] = Freed(v)] /\ sum' = Less(sum, alloc[v].amount)
  BY DEF Preempt
<1>4. v \in Active /\ alloc[v].amount \in Nat
  BY <1>3, Amounted DEF Victims, ResourceInv
<1>5. /\ AllocTypes' /\ Taken = Taken' + alloc[v].amount /\ Taken' \in Nat
      /\ \A o : Total(Owned(o))' <= Total(Owned(o)) /\ Total(Owned(o))' \in Nat
  BY <1>1, <1>3, <1>4, Dropped DEF ResourceInv
<1>6. \A o : Total(Owned(o)) \in Nat
  BY TotalsAreNat DEF ResourceInv
<1>7. Quota \in Nat
  BY ResourcesAssumption DEF ResourceInv, ResourcesAssumption
<1>8. QuotaHolds'
  BY <1>5, <1>6, <1>7, QuotaStays DEF ResourceInv
<1>9. NumbersLeft'
  BY <1>1, <1>2, ClaimsGoOn
<1>10. \A o \in Owners : call[c].owner = o => Total(Owned(o))' + call[c].amount <= Quota
  <2> SUFFICES ASSUME NEW o \in Owners, call[c].owner = o
               PROVE  Total(Owned(o))' + call[c].amount <= Quota
    OBVIOUS
  <2>1. Total(Owned(o)) + call[c].amount <= Quota
    BY <1>2 DEF ResourceInv, RoomLeft
  <2>2. call[c].amount \in Nat
    BY CallAmount
  <2> QED
    BY <1>5, <1>6, <1>7, <2>1, <2>2
<1>11. /\ sum' \in Nat
       /\ drift = "none" => sum' = Taken'
       /\ drift = "high" => sum' >= Taken'
       /\ drift # "any" => Taken' <= Allocatable /\ allocated >= Taken'
  BY <1>2, <1>3, <1>4, <1>5 DEF Less
<1> QED
  BY <1>1, <1>2, <1>5, <1>8, <1>9, <1>10, <1>11, AfterGoTo

LEMMA ConflictKeeps ==
  ASSUME ResourceInv, NEW c \in Callers, Conflict(c)
  PROVE  ResourceInv'
<1>1. /\ Deciding(c) /\ Leave(c) /\ UNCHANGED <<alloc, made, allocated, faults>>
      /\ drift' = IF call[c].at = "preempting" THEN Worse("high") ELSE drift
  BY DEF Conflict
<1>2. /\ Running(c) /\ call[c].at \in {"deciding", "preempting"}
      /\ drift = "none" => sum = Taken
      /\ drift = "high" => sum >= Taken
      /\ drift # "any" => Taken <= Allocatable /\ allocated >= Taken
      /\ Taken \in Nat /\ sum \in Nat /\ allocated \in Nat /\ Allocatable \in Nat
  BY <1>1, BooksDeciding
<1>3. drift' \in {"none", "high", "any"} /\ (drift' # "any" => drift # "any")
  BY <1>1 DEF ResourceInv, OtherTypes, Worse
<1>4. drift' = "none" => allocated' = Taken
  <2> SUFFICES ASSUME drift' = "none" PROVE allocated = Taken
    BY <1>1
  <2>1. call[c].at = "deciding" /\ drift = "none"
    BY <1>1, <1>2 DEF Worse
  <2> QED
    BY <1>2, <2>1 DEF ResourceInv, CopyIsRead
<1>5. /\ drift' = "high" => allocated' >= Taken
      /\ drift' # "any" => Taken <= Allocatable
  BY <1>1, <1>2, <1>3
<1>6. allocated' \in Nat /\ faults' \in 0..MaxFaults
  BY <1>1 DEF ResourceInv, OtherTypes
<1> QED
  BY <1>1, <1>2, <1>3, <1>4, <1>5, <1>6, AfterLeave

\* A request that still has to write its allocation finds a number for it.
LEMMA NumberForCreate ==
  ASSUME ResourceInv, NEW c \in Callers, Create(c)
  PROVE  made + 1 <= MaxAllocs /\ NumbersLeft'
<1>1. /\ Deciding(c) /\ GoTo(c, "written") /\ UNCHANGED queue /\ made' = made + 1
  BY DEF Create
<1>2. Running(c) /\ call[c].at \in {"deciding", "preempting"} /\ call[c].op = "allocate"
  BY <1>1, BooksDeciding
<1>3. c \in Claims
  BY <1>2 DEF Claims
<1>4. /\ IsFiniteSet(Claims) /\ Cardinality(Claims) \in Nat /\ made \in Nat /\ MaxAllocs \in Nat
      /\ made + Cardinality(Claims) <= MaxAllocs
  BY ResourcesAssumption, FS_CardinalityType DEF ResourceInv, NumbersLeft, AllocTypes, ResourcesAssumption
<1>5. /\ \A d \in Callers : d # c => call'[d] = call[d]
      /\ call'[c].at = "written"
  BY <1>1, <1>2, GoToParts DEF ResourceInv
<1>6. Claims' = Claims \ {c}
  BY <1>5 DEF Claims
<1>7. /\ IsFiniteSet(Claims \ {c}) /\ Cardinality(Claims \ {c}) = Cardinality(Claims) - 1
      /\ Cardinality(Claims \ {c}) \in Nat
  BY <1>3, <1>4, FS_RemoveElement, FS_CardinalityType
<1>8. made + 1 <= MaxAllocs
  BY <1>4, <1>7
<1>9. made' + Cardinality(Claims') <= MaxAllocs
  BY <1>1, <1>4, <1>6, <1>7
<1> QED
  BY <1>6, <1>7, <1>8, <1>9 DEF NumbersLeft

LEMMA CreateParts ==
  ASSUME ResourceInv, NEW c \in Callers, Create(c)
  PROVE  /\ AllocTypes'
         /\ made + 1 \notin Active /\ Active' = Active \cup {made + 1}
         /\ \A i \in Active : alloc'[i] = alloc[i]
         /\ Taken' = Taken + call[c].amount
         /\ \A o : Total(Owned(o))' = Total(Owned(o)) + IF o = call[c].owner THEN call[c].amount ELSE 0
<1> DEFINE r == [owner |-> call[c].owner, amount |-> call[c].amount, priority |-> call[c].priority]
<1>1. Deciding(c) /\ made' = made + 1 /\ alloc' = [alloc EXCEPT ![made + 1] = r]
  BY DEF Create
<1>2. call[c].owner \in Owners
  BY <1>1, BooksDeciding DEF ResourceInv, CallTypes
<1>3. call[c] \in CallRecord
  BY CallAmount
<1>4. r \in AllocRecord /\ r.owner = call[c].owner /\ r.amount = call[c].amount
  BY <1>3 DEF AllocRecord, CallRecord
<1> HIDE DEF r
<1>5. made + 1 <= MaxAllocs
  BY NumberForCreate
<1> QED
  BY <1>1, <1>2, <1>4, <1>5, Added DEF ResourceInv

LEMMA CreateKeeps ==
  ASSUME ResourceInv, NEW c \in Callers, Create(c)
  PROVE  ResourceInv'
<1>1. /\ Deciding(c) /\ Fits(c) /\ GoTo(c, "written") /\ sum' = sum + call[c].amount
      /\ UNCHANGED <<allocated, queue, faults, drift>>
  BY DEF Create
<1>2. /\ Running(c) /\ call[c].at \in {"deciding", "preempting"} /\ call[c].op = "allocate"
      /\ drift = "none" => sum = Taken
      /\ drift = "high" => sum >= Taken
      /\ Taken \in Nat /\ sum \in Nat /\ Allocatable \in Nat
      /\ drift # "any" => Taken <= Allocatable
  BY <1>1, BooksDeciding
<1>3. call[c].amount \in Nat
  BY CallAmount
<1>4. /\ AllocTypes' /\ Taken' = Taken + call[c].amount
      /\ \A o : Total(Owned(o))' = Total(Owned(o)) + IF o = call[c].owner THEN call[c].amount ELSE 0
  BY CreateParts
<1>5. NumbersLeft'
  BY NumberForCreate
<1>6. /\ sum' \in Nat /\ Taken' \in Nat
      /\ drift = "none" => sum' = Taken'
      /\ drift = "high" => sum' >= Taken'
  BY <1>1, <1>2, <1>3, <1>4
<1>7. drift # "any" => Taken' <= Allocatable
  <2>1. drift # "any" => Taken <= sum
    BY <1>2 DEF ResourceInv, OtherTypes
  <2>2. sum + call[c].amount <= Allocatable
    BY <1>1 DEF Fits
  <2> QED
    BY <1>2, <1>3, <1>4, <2>1, <2>2
<1>8. QuotaHolds'
  <2>1. ASSUME NEW o \in Owners PROVE Total(Owned(o))' <= Quota
    <3>1. Total(Owned(o)) \in Nat /\ Total(Owned(o)) <= Quota
      BY TotalsAreNat DEF ResourceInv, QuotaHolds, Owned
    <3>2. CASE o = call[c].owner
      <4>1. Total(Owned(o)) + call[c].amount <= Quota
        BY <1>2, <3>2 DEF ResourceInv, RoomLeft
      <4>2. Total(Owned(o))' = Total(Owned(o)) + call[c].amount
        BY <1>4, <3>2
      <4> QED
        BY <4>1, <4>2
    <3>3. CASE o # call[c].owner
      <4>1. Total(Owned(o))' = Total(Owned(o))
        BY <1>4, <3>1, <3>3
      <4> QED
        BY <3>1, <4>1
    <3> QED
      BY <3>2, <3>3
  <2> QED
    BY <2>1 DEF QuotaHolds, Owned
<1> QED
  BY <1>1, <1>2, <1>4, <1>5, <1>6, <1>7, <1>8, AfterGoTo DEF Allocatable

LEMMA StoreKeeps ==
  ASSUME ResourceInv, NEW c \in Callers, Store(c)
  PROVE  ResourceInv'
<1>1. /\ Running(c) /\ call[c].at = "written" /\ allocated' = sum /\ Leave(c)
      /\ UNCHANGED <<alloc, made, faults, drift>>
  BY DEF Store
<1>2. /\ drift = "none" => sum = Taken
      /\ drift = "high" => sum >= Taken
      /\ drift # "any" => Taken <= Allocatable
      /\ Taken \in Nat /\ sum \in Nat
  BY <1>1, BooksMidway
<1> QED
  BY <1>1, <1>2, AfterLeave DEF ResourceInv, OtherTypes

LEMMA DropKeeps ==
  ASSUME ResourceInv, NEW c \in Callers, Drop(c)
  PROVE  ResourceInv'
<1> DEFINE v == call[c].id
<1>1. /\ Running(c) /\ call[c].op = "release" /\ call[c].at = "queued" /\ v \in Active
      /\ alloc' = [alloc EXCEPT ![v] = Freed(v)] /\ sum' = Less(allocated, alloc[v].amount)
      /\ GoTo(c, "written") /\ UNCHANGED <<made, allocated, queue, faults, drift>>
  BY DEF Drop, StillActive
<1> HIDE DEF v
<1>2. /\ drift = "none" => allocated = Taken
      /\ drift = "high" => allocated >= Taken
      /\ drift # "any" => Taken <= Allocatable
      /\ Taken \in Nat /\ allocated \in Nat /\ Allocatable \in Nat
  BY <1>1, BooksBefore
<1>3. alloc[v].amount \in Nat
  BY <1>1, Amounted DEF ResourceInv
<1>4. /\ AllocTypes' /\ Taken = Taken' + alloc[v].amount /\ Taken' \in Nat
      /\ \A o : Total(Owned(o))' <= Total(Owned(o)) /\ Total(Owned(o))' \in Nat
  BY <1>1, Dropped DEF ResourceInv
<1>5. QuotaHolds'
  BY ResourcesAssumption, <1>4, TotalsAreNat, QuotaStays DEF ResourceInv, ResourcesAssumption
<1>6. NumbersLeft'
  BY <1>1, ClaimsGoOn
<1>7. /\ sum' \in Nat
      /\ drift = "none" => sum' = Taken'
      /\ drift = "high" => sum' >= Taken'
      /\ drift # "any" => Taken' <= Allocatable
  BY <1>1, <1>2, <1>3, <1>4 DEF Less
<1>8. drift = "any" \/ allocated >= Taken'
  <2>1. drift # "any" => allocated >= Taken
    BY <1>2 DEF ResourceInv, OtherTypes
  <2> QED
    BY <1>2, <1>3, <1>4, <2>1
<1> QED
  BY <1>1, <1>4, <1>5, <1>6, <1>7, <1>8, AfterGoTo DEF Allocatable

LEMMA AlreadyGoneKeeps ==
  ASSUME ResourceInv, NEW c \in Callers, AlreadyGone(c)
  PROVE  ResourceInv'
<1>1. /\ Running(c) /\ call[c].at = "queued" /\ Leave(c)
      /\ UNCHANGED <<alloc, made, allocated, faults, drift>>
  BY DEF AlreadyGone
<1>2. /\ drift = "none" => allocated = Taken
      /\ drift = "high" => allocated >= Taken
      /\ drift # "any" => Taken <= Allocatable
      /\ allocated \in Nat
  BY <1>1, BooksBefore
<1> QED
  BY <1>1, <1>2, AfterLeave DEF ResourceInv, OtherTypes

LEMMA FailKeeps ==
  ASSUME ResourceInv, NEW c \in Callers, Reject(c)
  PROVE  ResourceInv'
<1>1. /\ Running(c) /\ Leave(c) /\ UNCHANGED <<alloc, made, allocated>>
      /\ faults < MaxFaults /\ faults' = faults + 1 /\ drift' = Remains(c)
  BY DEF Reject
<1>2. /\ allocated' \in Nat /\ faults' \in 0..MaxFaults
      /\ drift \in {"none", "high", "any"}
  BY ResourcesAssumption, <1>1 DEF ResourceInv, OtherTypes, ResourcesAssumption
<1>3. call[c].at \in {"idle", "queued", "deciding", "preempting", "written"}
  BY CallAmount DEF CallRecord
<1>4. CASE call[c].at \in {"idle", "queued", "deciding"}
  <2>1. drift' = drift
    BY <1>1, <1>4 DEF Remains
  <2>2. /\ drift = "none" => allocated = Taken
        /\ drift = "high" => allocated >= Taken
        /\ drift # "any" => Taken <= Allocatable
    BY <1>1, <1>4, BooksBefore
  <2> QED
    BY <1>1, <1>2, <2>1, <2>2, AfterLeave
<1>5. CASE call[c].at = "preempting" \/ (call[c].at = "written" /\ call[c].op = "release")
  <2>1. drift' = IF drift = "any" THEN "any" ELSE "high"
    BY <1>1, <1>5 DEF Remains, Worse
  <2>2. drift = "any" \/ allocated >= Taken
    BY <1>5 DEF ResourceInv, StoredIsHigh
  <2>3. drift # "any" => Taken <= Allocatable
    BY <1>1, <1>5, BooksMidway
  <2> QED
    BY <1>1, <1>2, <2>1, <2>2, <2>3, AfterLeave
<1>6. CASE call[c].at = "written" /\ call[c].op # "release"
  <2>1. drift' = "any"
    BY <1>1, <1>6 DEF Remains
  <2> QED
    BY <1>1, <1>2, <2>1, AfterLeave
<1> QED
  BY <1>3, <1>4, <1>5, <1>6

----------------------------------------------------------------------------
(* ----------------------------- the theorems ---------------------------- *)

LEMMA EmptySum == SumOf([i \in Ids |-> alloc[i].amount], {}) = 0
<1>1. UNION {{i} \X (1..[j \in Ids |-> alloc[j].amount][i]) : i \in {}} = {}
  OBVIOUS
<1> QED
  BY <1>1, SumCountsUnits, FS_EmptySet

LEMMA ResourcesStart ==
  ASSUME ResourcesInit
  PROVE  ResourceInv
<1>1. /\ alloc = [i \in Ids |-> Unmade] /\ made = 0 /\ allocated = 0 /\ queue = <<>>
      /\ call = [c \in Callers |-> Idle] /\ sum = 0 /\ faults = 0 /\ drift = "none"
  BY DEF ResourcesInit
<1>2. AllocTypes
  BY ResourcesAssumption, <1>1 DEF AllocTypes, AllocRecord, Unmade, ResourcesAssumption
<1>3. CallTypes
  <2>1. call \in [Callers -> CallRecord] /\ \A c \in Callers : call[c] = Idle
    BY <1>1, IdleIsCall
  <2> QED
    BY <1>1, <2>1, IdleIsCall DEF CallTypes
<1>4. OtherTypes
  BY ResourcesAssumption, <1>1 DEF OtherTypes, ResourcesAssumption
<1>5. \A c \in Callers : call[c].at = "idle" /\ call[c].op = "none"
  BY <1>1, IdleIsCall
<1>6. Active = {} /\ \A o : Owned(o) = {}
  BY <1>1 DEF Active, Unmade, Owned
<1>7. Taken = 0 /\ \A o : Total(Owned(o)) = 0
  BY <1>6, EmptySum DEF Taken, Total
<1>8. AccountingHolds /\ NeverOvercommitted /\ QuotaHolds
  <2>1. Booked = 0
    BY <1>1, <1>5 DEF Booked, Midway
  <2>2. Quota >= 0 /\ Allocatable >= 0
    BY ResourcesAssumption DEF Allocatable, ResourcesAssumption
  <2>3. AccountingHolds
    BY <1>7, <2>1 DEF AccountingHolds, Taken
  <2>4. NeverOvercommitted
    BY <1>7, <2>2 DEF NeverOvercommitted, Taken
  <2>5. QuotaHolds
    BY <1>7, <2>2 DEF QuotaHolds, Owned
  <2> QED
    BY <2>3, <2>4, <2>5
<1>9. CopyIsRead /\ StoredIsHigh /\ RoomLeft
  BY <1>5 DEF CopyIsRead, StoredIsHigh, RoomLeft
<1>10. NumbersLeft
  <2>1. Claims = {}
    BY <1>5 DEF Claims
  <2>2. IsFiniteSet(Claims) /\ Cardinality(Claims) = 0
    BY <2>1, FS_EmptySet
  <2> QED
    BY ResourcesAssumption, <1>1, <2>2 DEF NumbersLeft, ResourcesAssumption
<1> QED
  BY <1>2, <1>3, <1>4, <1>8, <1>9, <1>10 DEF ResourceInv

LEMMA ResourcesStutter ==
  ASSUME ResourceInv, UNCHANGED resourcesVars
  PROVE  ResourceInv'
<1>1. UNCHANGED <<alloc, made, allocated, queue, call, sum, faults, drift>>
  BY DEF resourcesVars
<1>2. Taken' = Taken /\ AllocTypes' /\ QuotaHolds' /\ \A o : Total(Owned(o))' = Total(Owned(o))
  BY <1>1, SameTaken DEF ResourceInv
<1>3. AccountingHolds' /\ NeverOvercommitted' /\ CopyIsRead' /\ StoredIsHigh'
  BY <1>1, <1>2 DEF ResourceInv, AccountingHolds, NeverOvercommitted, Booked, Midway, Allocatable,
                    CopyIsRead, StoredIsHigh, Taken
<1>4. RoomLeft'
  BY <1>1, <1>2 DEF ResourceInv, RoomLeft
<1>5. CallTypes' /\ OtherTypes'
  BY <1>1 DEF ResourceInv, CallTypes, OtherTypes, Running
<1>6. NumbersLeft'
  <2>1. Claims' = Claims
    BY <1>1 DEF Claims
  <2> QED
    BY <1>1, <2>1 DEF ResourceInv, NumbersLeft
<1> QED
  BY <1>2, <1>3, <1>4, <1>5, <1>6 DEF ResourceInv

LEMMA ResourcesStep ==
  ASSUME ResourceInv, [ResourcesNext]_resourcesVars
  PROVE  ResourceInv'
<1>1. CASE ResourcesNext
  <2> SUFFICES ASSUME NEW c \in Callers,
                      \/ AskAllocate(c) \/ Begin(c) \/ Preempt(c) \/ Conflict(c) \/ Create(c) \/ Store(c)
                      \/ AskRelease(c) \/ Drop(c) \/ AlreadyGone(c)
                      \/ Reject(c)
               PROVE  ResourceInv'
    BY <1>1 DEF ResourcesNext
  <2> QED
    BY AskAllocateKeeps, BeginKeeps, PreemptKeeps, ConflictKeeps, CreateKeeps, StoreKeeps, AskReleaseKeeps,
       DropKeeps, AlreadyGoneKeeps, FailKeeps
<1>2. CASE UNCHANGED resourcesVars
  BY <1>2, ResourcesStutter
<1> QED
  BY <1>1, <1>2

LEMMA ResourcesInvariance == ResourcesSpec => []ResourceInv
<1>1. ResourcesInit => ResourceInv
  BY ResourcesStart
<1>2. ResourceInv /\ [ResourcesNext]_resourcesVars => ResourceInv'
  BY ResourcesStep
<1> QED
  BY <1>1, <1>2, PTL DEF ResourcesSpec

\* The books, the capacity and the quotas of the resource kernel hold for any owners, requests, limits and
\* failures: whatever allocate, release, preemption and rejected provider calls interleave on the promise chain
\* (resourcesService.js:187-298), the stored sum is exactly what verify() adds up, or off only in the way a cut
\* call leaves it; capacity, reservation and every quota are kept.
THEOREM ResourcesSound == ResourcesSpec => []AccountsAreSound
<1>1. ResourcesSpec => []ResourceInv
  BY ResourcesInvariance
<1>2. ResourceInv => AccountsAreSound
  BY ResourcesSoundNow
<1> QED
  BY <1>1, <1>2, PTL

LEMMA EndsInOrder ==
  ASSUME ResourceInv, [ResourcesNext]_resourcesVars, NEW i \in Active, alloc'[i].owner = NoOwner
  PROVE  \E c \in Callers :
           /\ Running(c)
           /\ \/ call[c].op = "release" /\ call[c].id = i
              \/ /\ call[c].op = "allocate" /\ alloc[i].priority < call[c].priority
                 /\ \A j \in Active : alloc[j].priority >= alloc[i].priority
<1>1. i \in Ids /\ alloc[i].owner # NoOwner
  BY DEF Active
<1>2. alloc' # alloc
  BY <1>1
<1>3. PICK c \in Callers : Preempt(c) \/ Create(c) \/ Drop(c)
  <2>1. ResourcesNext
    BY <1>2 DEF resourcesVars
  <2>2. \A c \in Callers : AskAllocate(c) \/ AskRelease(c) => alloc' = alloc
    BY ZenonT(30) DEF AskAllocate, AskRelease
  <2>3. \A c \in Callers : Begin(c) \/ Conflict(c) \/ Store(c) \/ AlreadyGone(c) \/ Reject(c) => alloc' = alloc
    BY DEF Begin, Conflict, Store, AlreadyGone, Reject
  <2> QED
    BY <1>2, <2>1, <2>2, <2>3 DEF ResourcesNext
<1>4. CASE Create(c)
  <2>1. alloc'[i] = alloc[i]
    BY <1>4, CreateParts
  <2> QED
    BY <1>1, <2>1
<1>5. CASE Drop(c)
  <2>1. /\ Running(c) /\ call[c].op = "release" /\ call[c].id \in Active
        /\ alloc' = [alloc EXCEPT ![call[c].id] = Freed(call[c].id)]
    BY <1>5 DEF Drop, StillActive
  <2>2. call[c].id = i
    BY <1>1, <2>1 DEF ResourceInv, AllocTypes
  <2> QED
    BY <2>1, <2>2
<1>6. CASE Preempt(c)
  <2>1. Running(c) /\ call[c].op = "allocate"
    BY <1>6, BooksDeciding DEF Preempt
  <2>2. PICK v \in Victims(c) : IsFirst(v, Victims(c)) /\ alloc' = [alloc EXCEPT ![v] = Freed(v)]
    BY <1>6 DEF Preempt
  <2>3. v \in Active /\ v = i
    BY <1>1, <2>2 DEF Victims, ResourceInv, AllocTypes
  <2>4. alloc[i].priority < call[c].priority
    BY <2>2, <2>3 DEF Victims
  <2>5. ASSUME NEW j \in Active PROVE alloc[j].priority >= alloc[i].priority
    <3>1. alloc[i].priority \in Nat /\ alloc[j].priority \in Nat
      BY Amounted DEF ResourceInv
    <3>2. call[c].priority \in Nat
      BY CallAmount, Sizes DEF CallRecord, ResourceInv
    <3>3. CASE j \in Victims(c)
      BY <2>2, <2>3, <3>1, <3>3 DEF IsFirst
    <3>4. CASE j \notin Victims(c)
      BY <2>4, <3>1, <3>2, <3>4 DEF Victims
    <3> QED
      BY <3>3, <3>4
  <2> QED
    BY <2>1, <2>3, <2>4, <2>5
<1> QED
  BY <1>3, <1>4, <1>5, <1>6

\* Preemption is in order for any priorities and requests: an allocation ends by its own release, or for a running
\* request of higher priority while no active allocation has a lower one (the victims of
\* allocate, resourcesService.js:217-237).
THEOREM PreemptionOrdered == ResourcesSpec => PreemptionIsOrdered
<1>1. ResourcesSpec => []ResourceInv
  BY ResourcesInvariance
<1>2. ResourceInv /\ [ResourcesNext]_resourcesVars =>
        [ \A i \in Active : alloc'[i].owner = NoOwner =>
            \E c \in Callers :
              /\ Running(c)
              /\ \/ call[c].op = "release" /\ call[c].id = i
                 \/ /\ call[c].op = "allocate" /\ alloc[i].priority < call[c].priority
                    /\ \A j \in Active : alloc[j].priority >= alloc[i].priority ]_resourcesVars
  BY EndsInOrder
<1> QED
  BY <1>1, <1>2, PTL DEF ResourcesSpec, PreemptionIsOrdered

===============================================================================
