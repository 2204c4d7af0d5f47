------------------------------ MODULE Workflow ------------------------------
(***************************************************************************)
(* The workflow engine (application/workflow/workflowService.js) for one     *)
(* workflow id: start, signal, cancel, the timeout armed on the scheduler    *)
(* for each timed state, and recover() after a restart.  The calls on a      *)
(* workflow are chained (_withWorkflow), so each load, decision, write and    *)
(* re-arming is one step; what is not chained - the timer, recover(), the     *)
(* second write of a final state, a stop of the process - is a step of its     *)
(* own.  The lock guard is the engine's own (one engine: it never conflicts).  *)
(***************************************************************************)
EXTENDS Naturals, Sequences

CONSTANTS
  States, Initial,  \* the definition's states
  Transition,       \* [States -> SUBSET States]: where a signal may lead
  Final, Failure,   \* terminal states, and the failure states
  Timeout,          \* [a subset of States -> States]: onTimeout.to
  MaxCalls,         \* bound: calls of start, signal and cancel
  MaxStarts,        \* bound: calls of start among them
  MaxFaults,        \* bound: storage operations that fail
  MaxStops          \* bound: stops of the process

ASSUME DefinitionAssumption ==
  /\ Initial \in States /\ Final \subseteq States /\ Failure \subseteq States
  /\ Transition \in [States -> SUBSET States]
  /\ DOMAIN Timeout \subseteq States /\ \A s \in DOMAIN Timeout : Timeout[s] \in States
  /\ MaxCalls \in Nat /\ MaxStarts \in Nat /\ MaxFaults \in Nat /\ MaxStops \in Nat

VARIABLES
  store,      \* the persisted instance: state, status, version
  chain,      \* _chains: the calls on the workflow, the running one first
  timer,      \* the scheduler job armed for the workflow, or NoTimer
  finishing,  \* the running call has reached a final state and _finalize is yet to write
  recovering, \* the process has started and recover() is yet to be called
  listing,    \* what recover() has read from storage, or NoTimer
  calls, starts, faults, stops,  \* bounded counts
  moves,      \* starts and transitions stored so far
  disturbed,  \* the stay in the present state has lost its timer to a failed write or a stale listing
  torn        \* a final state was stored and its status was not

vars == <<store, chain, timer, finishing, recovering, listing, calls, starts, faults, stops,
          moves, disturbed, torn>>
counts == <<calls, starts, faults, stops>>
recovery == <<recovering, listing>>

Finished == {"completed", "failed", "cancelled"}
Instance == [state : States, status : {"absent", "running"} \cup Finished, version : Nat]
NoTimer == [state |-> Initial, version |-> 0, born |-> 0]
Timer == [state : States, version : Nat, born : Nat]
Call == [kind : {"start", "cancel"}] \cup [kind : {"signal"}, to : States]
          \cup [kind : {"timeout"}, at : Timer]

Running(inst) == inst.status = "running"
Timed(inst) == Running(inst) /\ inst.state \in DOMAIN Timeout
TimerFor(inst, n) == [state |-> inst.state, version |-> inst.version, born |-> n]
Turn(kind) == chain # <<>> /\ ~finishing /\ Head(chain).kind = kind
Fault == faults < MaxFaults /\ faults' = faults + 1 /\ UNCHANGED <<calls, starts, stops>>

Init ==
  /\ store = [state |-> Initial, status |-> "absent", version |-> 0]
  /\ chain = <<>> /\ timer = NoTimer /\ finishing = FALSE
  /\ recovering = FALSE /\ listing = NoTimer
  /\ calls = 0 /\ starts = 0 /\ faults = 0 /\ stops = 0
  /\ moves = 0 /\ disturbed = FALSE /\ torn = FALSE

(******************************* THE CALLS *********************************)

Calls(call) ==
  /\ calls < MaxCalls /\ calls' = calls + 1
  /\ chain' = Append(chain, call)
  /\ UNCHANGED <<store, timer, finishing, recovery, faults, stops, moves, disturbed, torn>>

CallStart == starts < MaxStarts /\ starts' = starts + 1 /\ Calls([kind |-> "start"])
CallSignal == \E s \in States : Calls([kind |-> "signal", to |-> s]) /\ UNCHANGED starts
CallCancel == Calls([kind |-> "cancel"]) /\ UNCHANGED starts

\* the call is over and has stored nothing
Ends == chain' = Tail(chain) /\ UNCHANGED <<store, finishing, moves, torn>>
Refused == Ends /\ UNCHANGED <<timer, disturbed, counts>>

\* Faulty variant of Stored: the timer is armed for the state that was left.
StoredArmingOld(inst) ==
  /\ store' = inst /\ moves' = moves + 1
  /\ timer' = IF Timed(store) /\ inst.state \notin Final THEN TimerFor(store, moves) ELSE NoTimer
  /\ finishing' = (inst.state \in Final)
  /\ chain' = IF inst.state \in Final THEN chain ELSE Tail(chain)
  /\ disturbed' = FALSE /\ torn' = FALSE
  /\ UNCHANGED counts

\* the instance is stored, the timer of its last state cancelled and that of its new one
\* armed; _finalize cancels the timer of a final state before its own write is waited for
Stored(inst) ==
  /\ store' = inst /\ moves' = moves + 1
  /\ timer' = IF Timed(inst) /\ inst.state \notin Final THEN TimerFor(inst, moves + 1) ELSE NoTimer
  /\ finishing' = (inst.state \in Final)
  /\ chain' = IF inst.state \in Final THEN chain ELSE Tail(chain)
  /\ disturbed' = FALSE /\ torn' = FALSE
  /\ UNCHANGED counts

Moved(to) == [store EXCEPT !.state = to, !.version = @ + 1]

\* start writes a new instance, over one of the same id if there is one
Start ==
  /\ Turn("start")
  /\ \/ Stored([state |-> Initial, status |-> "running", version |-> 1])
     \/ Fault /\ Ends /\ UNCHANGED <<timer, disturbed>>
  /\ UNCHANGED recovery

\* a running workflow takes a declared transition, if its guard lets it
Signal ==
  /\ Turn("signal")
  /\ \/ Running(store) /\ Head(chain).to \in Transition[store.state] /\ Stored(Moved(Head(chain).to))
     \/ Refused
     \/ Running(store) /\ Fault /\ Ends /\ UNCHANGED <<timer, disturbed>>
  /\ UNCHANGED recovery

\* the timer is cancelled before the write, which may fail
Cancel ==
  /\ Turn("cancel")
  /\ \/ ~Running(store) /\ Refused
     \/ /\ Running(store)
        /\ store' = [store EXCEPT !.status = "cancelled", !.version = @ + 1]
        /\ chain' = Tail(chain) /\ timer' = NoTimer
        /\ UNCHANGED <<finishing, moves, disturbed, torn, counts>>
     \/ Running(store) /\ Fault /\ Ends /\ timer' = NoTimer /\ disturbed' = TRUE
  /\ UNCHANGED recovery

\* Faulty variant of Current: only the name of the state is compared.
CurrentByName(t) == Running(store) /\ store.state = t.state
\* whether the state is still the one the timer was armed for
Current(t) == Running(store) /\ store.state = t.state /\ store.version = t.version

\* _onTimeout: a stale timer is ignored; when its read or write fails the timer is gone
OnTimeout ==
  /\ Turn("timeout")
  /\ LET at == Head(chain).at IN
     \/ Current(at) /\ Stored(Moved(Timeout[store.state]))
     \/ ~Current(at) /\ Refused
     \/ Fault /\ Ends /\ UNCHANGED timer /\ disturbed' = (disturbed \/ Current(at))
  /\ UNCHANGED recovery

\* _finalize: the status is written in a second write; a timer that recover() has armed before it
\* outlives the workflow
Finalize ==
  /\ finishing /\ finishing' = FALSE /\ chain' = Tail(chain)
  /\ \/ /\ store' = [store EXCEPT !.status = IF store.state \in Failure THEN "failed" ELSE "completed",
                                  !.version = @ + 1]
        /\ disturbed' = (disturbed \/ timer # NoTimer)
        /\ UNCHANGED <<torn, counts>>
     \/ Fault /\ torn' = TRUE /\ UNCHANGED <<store, disturbed>>
  /\ UNCHANGED <<timer, recovery, moves>>

(*************************** TIMER AND RECOVERY ****************************)

\* the scheduler runs the job: its handler queues on the workflow
Fire ==
  /\ timer # NoTimer
  /\ timer' = NoTimer
  /\ chain' = Append(chain, [kind |-> "timeout", at |-> timer])
  /\ UNCHANGED <<store, finishing, recovery, counts, moves, disturbed, torn>>

\* the process stops: chain and timers are gone, the host calls recover() when it starts again
Stop ==
  /\ stops < MaxStops /\ stops' = stops + 1
  /\ chain' = <<>> /\ timer' = NoTimer /\ finishing' = FALSE
  /\ recovering' = TRUE /\ listing' = NoTimer
  /\ torn' = (torn \/ finishing)
  /\ UNCHANGED <<store, calls, starts, faults, moves, disturbed>>

\* recover() reads the instances; it is not chained
RecoverList ==
  /\ recovering /\ recovering' = FALSE
  /\ \/ /\ listing' = IF Timed(store) THEN TimerFor(store, moves) ELSE NoTimer
        /\ UNCHANGED <<disturbed, counts>>
     \/ Fault /\ disturbed' = TRUE /\ UNCHANGED listing
  /\ UNCHANGED <<store, chain, timer, finishing, moves, torn>>

\* Faulty variant of RecoverArm: the listed workflow is reported and not armed.
RecoverArmNothing ==
  /\ listing # NoTimer /\ listing' = NoTimer
  /\ disturbed' = FALSE
  /\ UNCHANGED <<store, chain, timer, finishing, recovering, counts, moves, torn>>

\* and arms what it has read, in place of the timer that may be there by now
RecoverArm ==
  /\ listing # NoTimer
  /\ listing' = NoTimer
  /\ timer' = listing
  /\ disturbed' = ~Current(listing)
  /\ UNCHANGED <<store, chain, finishing, recovering, counts, moves, torn>>

Work == Start \/ Signal \/ Cancel \/ OnTimeout \/ Finalize
Next ==
  \/ CallStart \/ CallSignal \/ CallCancel
  \/ Work \/ Fire \/ RecoverList \/ RecoverArm \/ Stop

Spec == Init /\ [][Next]_vars

\* Promises are run, the scheduler fires its jobs, and a host that restarts calls recover().
LiveSpec == Spec /\ WF_vars(Work) /\ WF_vars(Fire) /\ WF_vars(RecoverList) /\ WF_vars(RecoverArm)

(******************************* PROPERTIES ********************************)

\* The variables keep their shapes, and only the call in progress can be finishing.
TypeOK ==
  /\ store \in Instance /\ chain \in Seq(Call) /\ timer \in Timer /\ listing \in Timer
  /\ finishing \in BOOLEAN /\ recovering \in BOOLEAN /\ disturbed \in BOOLEAN /\ torn \in BOOLEAN
  /\ calls \in 0..MaxCalls /\ starts \in 0..MaxStarts /\ faults \in 0..MaxFaults /\ stops \in 0..MaxStops
  /\ moves \in Nat
  /\ finishing => chain # <<>> /\ store.state \in Final

\* A running workflow in a state with a timeout has its timer, armed or fired and waiting in the chain:
\* unless a failed write or a stale recover() has taken it, or recover() is yet to arm it.
StayHasTimer ==
  Timed(store) /\ ~recovering /\ listing = NoTimer /\ ~disturbed /\ ~finishing /\ ~torn =>
    \/ Current(timer)
    \/ \E n \in 1..Len(chain) : chain[n].kind = "timeout" /\ Current(chain[n].at)

\* No timer is armed for a state that has been left, or for a workflow that is over: only recover()
\* may do that, with what it had read before the move.
TimerIsOfThisStay ==
  timer # NoTimer => Current(timer) \/ disturbed

\* A timeout moves a workflow only out of the very stay it was armed for, however often the state has
\* been left and entered again.  A second start under the same id counts versions from 1 again and is
\* outside of this: a timeout of the first run may then expire the second.
TimeoutEndsItsStay ==
  [][ moves' # moves /\ Head(chain).kind = "timeout" => Head(chain).at.born = moves \/ starts > 1 ]_vars

\* A workflow that is over stays as it is, whatever signals and timeouts were waiting behind the call
\* that ended it; only a start under its id writes it again.
OverIsOver ==
  [][ store.status \in Finished /\ store' # store => chain # <<>> /\ Head(chain).kind = "start" ]_vars

\* A workflow stored in a final state is finalised by the call that brought it there, unless the second
\* write failed or the process stopped before it: then it stays running in a final state, for recover()
\* passes over it and no signal leads out.
FinalStateIsFinished ==
  store.state \in Final /\ Running(store) => finishing \/ torn

\* The invariants above together: at every step of signals, timeouts, cancels, restarts, failed writes and
\* recovery a running workflow has the timer of the stay it is in, and no other.
StaysAreSound == TypeOK /\ StayHasTimer /\ TimerIsOfThisStay /\ FinalStateIsFinished

\* A state with a timeout is left in the end, if no failure has taken its timer.
StayEnds == []<>(~Timed(store) \/ disturbed \/ torn)

=============================================================================
