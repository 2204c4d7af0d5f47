--------------------------- MODULE WorkflowProofs ---------------------------
(***************************************************************************)
(* Workflow for any definition and any number of calls, faults and stops:   *)
(* a running workflow has the timer of its stay and no other, a timeout     *)
(* ends the stay it was armed for, and a workflow that is over stays over.  *)
(***************************************************************************)
EXTENDS Workflow, SequenceTheorems, TLAPS

\* Timers are armed for states that have a timeout.
ArmedInv ==
  /\ timer # NoTimer => timer.state \in DOMAIN Timeout
  /\ listing # NoTimer => listing.state \in DOMAIN Timeout
  /\ \A n \in 1..Len(chain) : chain[n].kind = "timeout" => chain[n].at.state \in DOMAIN Timeout

\* Only a running workflow is being finished.
FinishingInv == finishing => Running(store)

\* Every running workflow has been stored once.
VersionInv == Running(store) => store.version > 0

\* A timer of the past or the present: it belongs to this stay if it has its version.
Past(t) ==
  /\ t.version <= store.version
  /\ t.version = store.version /\ Running(store) => t.born = moves

\* With one start at most, the versions tell the stays apart.
OneStart ==
  /\ starts = 0 => store.status = "absent" /\ \A n \in 1..Len(chain) : chain[n].kind # "start"
  /\ \A m, n \in 1..Len(chain) : chain[m].kind = "start" /\ chain[n].kind = "start" => m = n
  /\ \A n \in 1..Len(chain) : chain[n].kind = "start" => store.status = "absent" \/ (finishing /\ n = 1)
  /\ store.status = "absent" =>
       /\ timer = NoTimer /\ listing = NoTimer
       /\ \A n \in 1..Len(chain) : chain[n].kind # "timeout"
  /\ timer # NoTimer => Past(timer)
  /\ listing # NoTimer => Past(listing)
  /\ \A n \in 1..Len(chain) : chain[n].kind = "timeout" => Past(chain[n].at)
BirthInv == starts <= 1 => OneStart

IInv ==
  /\ TypeOK /\ StayHasTimer /\ TimerIsOfThisStay /\ FinalStateIsFinished
  /\ ArmedInv /\ FinishingInv /\ VersionInv /\ BirthInv

----------------------------------------------------------------------------
(******************************* TYPES ************************************)

LEMMA CallParts ==
  \A x \in Call : /\ x.kind = "timeout" => x.at \in Timer
                  /\ x.kind = "signal" => x.to \in States
                  /\ x.kind \in {"start", "cancel", "signal", "timeout"}
BY SMTT(30) DEF Call

LEMMA Calling ==
  /\ [kind |-> "start"] \in Call /\ [kind |-> "cancel"] \in Call
  /\ \A s \in States : [kind |-> "signal", to |-> s] \in Call
  /\ \A t \in Timer : [kind |-> "timeout", at |-> t] \in Call
BY SMTT(30) DEF Call

LEMMA NoTimerIsTimer == NoTimer \in Timer
BY DefinitionAssumption DEF NoTimer, Timer

\* The call whose turn it is.
LEMMA TurnIsFirst ==
  ASSUME TypeOK, chain # <<>>
  PROVE  /\ Len(chain) \in Nat /\ 1 \in 1..Len(chain) /\ chain[1] = Head(chain)
         /\ Head(chain) \in Call
<1>1. chain \in Seq(Call)
  BY DEF TypeOK
<1> QED
  BY <1>1, SMTT(30)

\* What is left when it is over.
LEMMA Popped ==
  ASSUME TypeOK, chain # <<>>, chain' = Tail(chain)
  PROVE  /\ chain' \in Seq(Call)
         /\ Len(chain) \in Nat /\ Len(chain') = Len(chain) - 1
         /\ \A n \in 1..Len(chain') : chain'[n] = chain[n + 1] /\ n + 1 \in 1..Len(chain)
         /\ \A n \in 1..Len(chain) : n # 1 => n - 1 \in 1..Len(chain') /\ chain'[n - 1] = chain[n]
<1>1. chain \in Seq(Call)
  BY DEF TypeOK
<1>2. /\ chain' \in Seq(Call) /\ Len(chain') = Len(chain) - 1
      /\ \A n \in 1..Len(chain') : chain'[n] = chain[n + 1]
  BY <1>1, HeadTailProperties
<1>3. Len(chain) \in Nat
  BY <1>1
<1> QED
  BY <1>2, <1>3, SMTT(30)

\* What is there when a call joins.
LEMMA Joined ==
  ASSUME TypeOK, NEW x \in Call, chain' = Append(chain, x)
  PROVE  /\ chain' \in Seq(Call) /\ chain' # <<>>
         /\ Len(chain) \in Nat /\ Len(chain') = Len(chain) + 1
         /\ \A n \in 1..Len(chain) : n \in 1..Len(chain') /\ chain'[n] = chain[n]
         /\ chain'[Len(chain) + 1] = x /\ Len(chain) + 1 \in 1..Len(chain')
         /\ \A n \in 1..Len(chain') : n \in 1..Len(chain) \/ n = Len(chain) + 1
<1>1. chain \in Seq(Call)
  BY DEF TypeOK
<1>2. /\ chain' \in Seq(Call) /\ chain' # <<>> /\ Len(chain') = Len(chain) + 1
      /\ \A n \in 1..Len(chain) : chain'[n] = chain[n]
      /\ chain'[Len(chain) + 1] = x
  BY <1>1, AppendProperties
<1>3. Len(chain) \in Nat
  BY <1>1
<1> QED
  BY <1>2, <1>3, SMTT(30)

\* A new state, or a new status, with the next version.
LEMMA MovedIsInstance ==
  ASSUME TypeOK, Running(store), NEW to \in States
  PROVE  /\ Moved(to) \in Instance /\ Running(Moved(to))
         /\ Moved(to).version = store.version + 1 /\ Moved(to).state = to
<1>1. store \in Instance /\ store.version + 1 \in Nat
  BY DEF TypeOK, Instance
<1> QED
  BY <1>1 DEF Moved, Instance, Running

LEMMA OverIsInstance ==
  ASSUME TypeOK, NEW end \in Finished
  PROVE  LET inst == [store EXCEPT !.status = end, !.version = @ + 1]
         IN  inst \in Instance /\ inst.status = end /\ inst.state = store.state
<1>1. store \in Instance /\ store.version + 1 \in Nat
  BY DEF TypeOK, Instance
<1> QED
  BY <1>1 DEF Instance

LEMMA TimerForIsTimer ==
  ASSUME NEW inst \in Instance, NEW n \in Nat
  PROVE  TimerFor(inst, n) \in Timer
BY DEF TimerFor, Instance, Timer

LEMMA StoredTypes ==
  ASSUME TypeOK, chain # <<>>, NEW inst \in Instance, Stored(inst), UNCHANGED recovery
  PROVE  TypeOK'
<1>1. timer' \in Timer
  <2>1. moves + 1 \in Nat
    BY DEF TypeOK
  <2> QED
    BY <2>1, TimerForIsTimer, NoTimerIsTimer DEF Stored
<1>2. chain' \in Seq(Call)
  BY Popped DEF Stored, TypeOK
<1>3. finishing' \in BOOLEAN /\ (finishing' => chain' # <<>> /\ store'.state \in Final)
  <2>1. CASE inst.state \in Final
    BY <2>1 DEF Stored
  <2>2. CASE inst.state \notin Final
    <3>0. (inst.state \in Final) = FALSE
      BY <2>2
    <3>1. finishing' = FALSE
      BY <3>0 DEF Stored
    <3> QED
      BY <3>1
  <2> QED
    BY <2>1, <2>2
<1>4. moves' \in Nat /\ store' \in Instance
  BY DEF Stored, TypeOK
<1> QED
  BY <1>1, <1>2, <1>3, <1>4 DEF Stored, TypeOK, recovery, counts

LEMMA FaultTypes ==
  ASSUME TypeOK, Fault
  PROVE  /\ faults' \in 0..MaxFaults /\ calls' \in 0..MaxCalls
         /\ starts' \in 0..MaxStarts /\ stops' \in 0..MaxStops
BY DefinitionAssumption, SMTT(30) DEF TypeOK, Fault

LEMMA TypesInit == Init => TypeOK
<1> SUFFICES ASSUME Init PROVE TypeOK
  OBVIOUS
<1>1. store \in Instance
  BY DefinitionAssumption DEF Init, Instance
<1>2. chain \in Seq(Call)
  BY DEF Init
<1>3. calls \in 0..MaxCalls /\ starts \in 0..MaxStarts /\ faults \in 0..MaxFaults /\ stops \in 0..MaxStops
  BY DefinitionAssumption, SMTT(30) DEF Init
<1> QED
  BY <1>1, <1>2, <1>3, NoTimerIsTimer DEF Init, TypeOK

\* How a call that stores nothing ends.
LEMMA EndsTypes ==
  ASSUME TypeOK, chain # <<>>, ~finishing, Ends, UNCHANGED counts \/ Fault,
         timer' \in Timer, disturbed' \in BOOLEAN, UNCHANGED recovery
  PROVE  TypeOK'
<1>1. /\ faults' \in 0..MaxFaults /\ calls' \in 0..MaxCalls
      /\ starts' \in 0..MaxStarts /\ stops' \in 0..MaxStops
  BY FaultTypes DEF TypeOK, counts
<1>2. chain' \in Seq(Call)
  BY Popped DEF Ends
<1> QED
  BY <1>1, <1>2 DEF Ends, TypeOK, recovery

LEMMA TypesNext ==
  ASSUME TypeOK, ArmedInv, [Next]_vars
  PROVE  TypeOK'
<1>1. ASSUME NEW x \in Call, Calls(x), starts' \in 0..MaxStarts PROVE TypeOK'
  <2>1. calls' \in 0..MaxCalls
    BY <1>1, DefinitionAssumption, SMTT(30) DEF Calls, TypeOK
  <2>2. chain' \in Seq(Call) /\ chain' # <<>>
    BY <1>1, Joined DEF Calls
  <2> QED
    BY <1>1, <2>1, <2>2 DEF Calls, TypeOK, recovery
<1>2. CASE CallStart
  <2>1. starts' \in 0..MaxStarts
    BY <1>2, DefinitionAssumption, SMTT(30) DEF CallStart, TypeOK
  <2> QED
    BY <1>1, <1>2, <2>1, Calling DEF CallStart
<1>3. CASE CallSignal
  BY <1>1, <1>3, Calling DEF CallSignal, TypeOK
<1>4. CASE CallCancel
  BY <1>1, <1>4, Calling DEF CallCancel, TypeOK
<1>5. CASE Start
  <2>1. [state |-> Initial, status |-> "running", version |-> 1] \in Instance
    BY DefinitionAssumption DEF Instance
  <2> QED
    BY <1>5, <2>1, StoredTypes, EndsTypes DEF Start, Turn, TypeOK
<1>6. CASE Signal
  <2>1. ASSUME Running(store), Head(chain).to \in Transition[store.state], Stored(Moved(Head(chain).to))
        PROVE  TypeOK'
    <3>1. Head(chain).to \in States
      BY <2>1, DefinitionAssumption DEF TypeOK, Instance
    <3> QED
      BY <1>6, <2>1, <3>1, MovedIsInstance, StoredTypes DEF Signal, Turn
  <2> QED
    BY <1>6, <2>1, EndsTypes DEF Signal, Turn, Refused, TypeOK
<1>7. CASE Cancel
  <2>1. CASE Running(store) /\ store' = [store EXCEPT !.status = "cancelled", !.version = @ + 1]
               /\ chain' = Tail(chain) /\ timer' = NoTimer
               /\ UNCHANGED <<finishing, moves, disturbed, torn, counts>>
    <3>1. store' \in Instance
      BY <2>1, OverIsInstance DEF Finished
    <3>2. chain' \in Seq(Call)
      BY <1>7, <2>1, Popped DEF Cancel, Turn
    <3> QED
      BY <1>7, <2>1, <3>1, <3>2, NoTimerIsTimer DEF Cancel, Turn, TypeOK, counts, recovery
  <2> QED
    BY <1>7, <2>1, EndsTypes, NoTimerIsTimer DEF Cancel, Turn, Refused, TypeOK
<1>8. CASE OnTimeout
  <2>1. Head(chain) \in Call /\ Head(chain).kind = "timeout" /\ chain # <<>> /\ ~finishing
    BY <1>8, TurnIsFirst DEF OnTimeout, Turn
  <2>2. ASSUME Current(Head(chain).at), Stored(Moved(Timeout[store.state])) PROVE TypeOK'
    <3>1. Head(chain).at.state \in DOMAIN Timeout
      BY <2>1, TurnIsFirst DEF ArmedInv
    <3>2. Running(store) /\ Timeout[store.state] \in States
      BY <2>2, <3>1, DefinitionAssumption DEF Current
    <3> QED
      BY <1>8, <2>1, <2>2, <3>2, MovedIsInstance, StoredTypes DEF OnTimeout
  <2> QED
    BY <1>8, <2>1, <2>2, EndsTypes DEF OnTimeout, Refused, TypeOK
<1>9. CASE Finalize
  <2>1. chain # <<>> /\ chain' = Tail(chain)
    BY <1>9 DEF Finalize, TypeOK
  <2>2. chain' \in Seq(Call)
    BY <2>1, Popped
  <2>3. store' \in Instance
    BY <1>9, OverIsInstance DEF Finalize, TypeOK, Finished
  <2>4. /\ faults' \in 0..MaxFaults /\ calls' \in 0..MaxCalls
        /\ starts' \in 0..MaxStarts /\ stops' \in 0..MaxStops
    BY <1>9, FaultTypes DEF Finalize, TypeOK, counts
  <2> QED
    BY <1>9, <2>2, <2>3, <2>4, NoTimerIsTimer DEF Finalize, TypeOK, recovery
<1>10. CASE Fire
  <2>1. chain' \in Seq(Call) /\ chain' # <<>>
    BY <1>10, Joined, Calling DEF Fire, TypeOK
  <2> QED
    BY <1>10, <2>1, NoTimerIsTimer DEF Fire, TypeOK, recovery, counts
<1>11. CASE RecoverList
  <2>1. listing' \in Timer
    BY <1>11, TimerForIsTimer, NoTimerIsTimer DEF RecoverList, TypeOK
  <2>2. /\ faults' \in 0..MaxFaults /\ calls' \in 0..MaxCalls
        /\ starts' \in 0..MaxStarts /\ stops' \in 0..MaxStops
    BY <1>11, FaultTypes DEF RecoverList, TypeOK, counts
  <2> QED
    BY <1>11, <2>1, <2>2 DEF RecoverList, TypeOK
<1>12. CASE RecoverArm
  BY <1>12, NoTimerIsTimer DEF RecoverArm, TypeOK, counts, Current, Running
<1>13. CASE Stop
  <2>1. stops' \in 0..MaxStops
    BY <1>13, DefinitionAssumption, SMTT(30) DEF Stop, TypeOK
  <2>2. <<>> \in Seq(Call)
    OBVIOUS
  <2> QED
    BY <1>13, <2>1, <2>2, NoTimerIsTimer DEF Stop, TypeOK
<1>14. CASE UNCHANGED vars
  BY <1>14 DEF vars, TypeOK, counts, recovery
<1> QED
  BY <1>2, <1>3, <1>4, <1>5, <1>6, <1>7, <1>8, <1>9, <1>10, <1>11, <1>12, <1>13, <1>14 DEF Next, Work

----------------------------------------------------------------------------
(******************************* TIMERS ***********************************)

\* A timer that is armed for a timed state is one.
LEMMA ArmedTimer ==
  ASSUME NEW inst \in Instance, Timed(inst), NEW n \in Nat
  PROVE  /\ TimerFor(inst, n).state \in DOMAIN Timeout
         /\ TimerFor(inst, n).state = inst.state /\ TimerFor(inst, n).version = inst.version
         /\ TimerFor(inst, n).born = n
BY DEF TimerFor, Timed

\* The chain keeps its timeouts, loses its head or gets one for the timer that fires.
LEMMA ArmedNext ==
  ASSUME TypeOK, ArmedInv, [Next]_vars
  PROVE  ArmedInv'
<1> DEFINE ChainArmed == \A n \in 1..Len(chain) : chain[n].kind = "timeout" => chain[n].at.state \in DOMAIN Timeout
<1>1. ASSUME NEW x \in Call, x.kind # "timeout", Calls(x) PROVE ArmedInv'
  BY <1>1, Joined DEF Calls, ArmedInv, recovery
<1>2. ASSUME chain # <<>>, chain' = Tail(chain) PROVE ChainArmed'
  BY <1>2, Popped DEF ArmedInv
<1>3. ASSUME chain # <<>>, NEW inst \in Instance, Stored(inst), UNCHANGED recovery PROVE ArmedInv'
  <2>1. timer' # NoTimer => timer'.state \in DOMAIN Timeout
    <3>1. moves + 1 \in Nat
      BY DEF TypeOK
    <3> QED
      BY <1>3, <3>1, ArmedTimer DEF Stored
  <2>2. ChainArmed'
    BY <1>2, <1>3 DEF Stored, ArmedInv
  <2> QED
    BY <1>3, <2>1, <2>2 DEF ArmedInv, recovery
<1>4. ASSUME chain # <<>>, chain' = Tail(chain), timer' \in {timer, NoTimer}, UNCHANGED recovery
      PROVE  ArmedInv'
  BY <1>2, <1>4 DEF ArmedInv, recovery
<1>5. CASE CallStart \/ CallSignal \/ CallCancel
  BY <1>1, <1>5, Calling DEF CallStart, CallSignal, CallCancel
<1>6. CASE Start
  <2>1. [state |-> Initial, status |-> "running", version |-> 1] \in Instance
    BY DefinitionAssumption DEF Instance
  <2> QED
    BY <1>3, <1>4, <1>6, <2>1 DEF Start, Turn, Ends
<1>7. CASE Signal
  <2>1. ASSUME Running(store), Head(chain).to \in Transition[store.state]
        PROVE  Moved(Head(chain).to) \in Instance
    BY <2>1, MovedIsInstance, DefinitionAssumption DEF TypeOK, Instance
  <2> QED
    BY <1>3, <1>4, <1>7, <2>1 DEF Signal, Turn, Ends, Refused
<1>8. CASE Cancel
  BY <1>4, <1>8 DEF Cancel, Turn, Ends, Refused
<1>9. CASE OnTimeout
  <2>1. chain # <<>> /\ Head(chain).kind = "timeout"
    BY <1>9 DEF OnTimeout, Turn
  <2>2. Head(chain).at.state \in DOMAIN Timeout
    BY <2>1, TurnIsFirst DEF ArmedInv
  <2>3. Current(Head(chain).at) => Moved(Timeout[store.state]) \in Instance
    BY <2>2, MovedIsInstance, DefinitionAssumption DEF Current
  <2> QED
    BY <1>3, <1>4, <1>9, <2>1, <2>3 DEF OnTimeout, Ends, Refused
<1>10. CASE Finalize
  BY <1>4, <1>10 DEF Finalize, TypeOK
<1>11. CASE Fire
  <2>1. [kind |-> "timeout", at |-> timer] \in Call /\ timer.state \in DOMAIN Timeout
    BY <1>11, Calling DEF Fire, TypeOK, ArmedInv
  <2> QED
    BY <1>11, <2>1, Joined DEF Fire, ArmedInv, recovery
<1>12. CASE RecoverList
  <2>1. Timed(store) => TimerFor(store, moves).state \in DOMAIN Timeout
    BY ArmedTimer DEF TypeOK
  <2> QED
    BY <1>12, <2>1 DEF RecoverList, ArmedInv
<1>13. CASE RecoverArm
  BY <1>13 DEF RecoverArm, ArmedInv
<1>14. CASE Stop
  <2>1. Len(chain') = 0
    BY <1>14 DEF Stop
  <2>2. ChainArmed'
    BY <2>1, SMTT(30)
  <2> QED
    BY <1>14, <2>2 DEF Stop, ArmedInv
<1>15. CASE UNCHANGED vars
  BY <1>15 DEF vars, ArmedInv, recovery
<1> QED
  BY <1>5, <1>6, <1>7, <1>8, <1>9, <1>10, <1>11, <1>12, <1>13, <1>14, <1>15 DEF Next, Work

\* The rest of the invariant, conjunct by conjunct.
Rest == FinishingInv /\ VersionInv /\ TimerIsOfThisStay /\ FinalStateIsFinished /\ StayHasTimer

LEMMA StoredRest ==
  ASSUME TypeOK, chain # <<>>, NEW inst \in Instance, Running(inst), inst.version > 0, Stored(inst)
  PROVE  Rest'
<1>1. store' = inst /\ disturbed' = FALSE /\ torn' = FALSE
  BY DEF Stored
<1>2. CASE inst.state \in Final
  <2>1. finishing' = TRUE
    BY <1>2 DEF Stored
  <2>2. timer' = NoTimer
    BY <1>2 DEF Stored
  <2> QED
    BY <1>1, <1>2, <2>1, <2>2
    DEF Rest, FinishingInv, VersionInv, TimerIsOfThisStay, FinalStateIsFinished, StayHasTimer
<1>3. CASE inst.state \notin Final
  <2>0. (inst.state \in Final) = FALSE
    BY <1>3
  <2>1. finishing' = FALSE
    BY <2>0 DEF Stored
  <2>2. timer' # NoTimer => Current(timer)'
    BY <1>1, <1>3, ArmedTimer DEF Stored, Timed, Current, TypeOK, TimerFor
  <2>3. Timed(store)' => Current(timer)'
    BY <1>1, <1>3, ArmedTimer DEF Stored, Timed, Current, TypeOK, TimerFor
  <2> QED
    BY <1>1, <1>3, <2>1, <2>2, <2>3
    DEF Rest, FinishingInv, VersionInv, TimerIsOfThisStay, FinalStateIsFinished, StayHasTimer
<1> QED
  BY <1>2, <1>3

\* A call that stores nothing, of which at most a stale timeout is lost.
LEMMA EndsRest ==
  ASSUME TypeOK, Rest, chain # <<>>, ~finishing, Ends, UNCHANGED recovery, UNCHANGED timer,
         disturbed => disturbed', Head(chain).kind = "timeout" /\ Current(Head(chain).at) => disturbed'
  PROVE  Rest'
<1>1. ASSUME NEW n \in 1..Len(chain), chain[n].kind = "timeout", Current(chain[n].at), ~disturbed'
      PROVE  \E m \in 1..Len(chain') : chain'[m].kind = "timeout" /\ Current(chain'[m].at)
  <2>1. n # 1
    BY <1>1, TurnIsFirst
  <2> QED
    BY <1>1, <2>1, Popped DEF Ends
<1>2. StayHasTimer'
  BY <1>1 DEF Ends, recovery, Rest, StayHasTimer, Timed, Running, Current
<1> QED
  BY <1>2 DEF Ends, recovery, Rest, FinishingInv, VersionInv, TimerIsOfThisStay, FinalStateIsFinished, Current, Running

LEMMA RestNext ==
  ASSUME TypeOK, ArmedInv, Rest, [Next]_vars
  PROVE  Rest'
<1> USE DEF recovery, counts
<1>1. ASSUME NEW x \in Call, Calls(x) PROVE Rest'
  <2>1. \A n \in 1..Len(chain) : n \in 1..Len(chain') /\ chain'[n] = chain[n]
    BY <1>1, Joined DEF Calls
  <2>2. StayHasTimer'
    BY <1>1, <2>1 DEF Calls, Rest, StayHasTimer, Timed, Running, Current
  <2> QED
    BY <1>1, <2>2 DEF Calls, Rest, FinishingInv, VersionInv, TimerIsOfThisStay, FinalStateIsFinished,
                      Running, Current
<1>2. CASE CallStart \/ CallSignal \/ CallCancel
  BY <1>1, <1>2, Calling DEF CallStart, CallSignal, CallCancel
<1>3. CASE Start
  <2>1. chain # <<>> /\ ~finishing /\ Head(chain).kind # "timeout"
    BY <1>3 DEF Start, Turn
  <2>2. [state |-> Initial, status |-> "running", version |-> 1] \in Instance
    BY DefinitionAssumption DEF Instance
  <2> QED
    BY <1>3, <2>1, <2>2, StoredRest, EndsRest DEF Start, Running
<1>4. CASE Signal
  <2>1. chain # <<>> /\ ~finishing /\ Head(chain).kind # "timeout"
    BY <1>4 DEF Signal, Turn
  <2>2. ASSUME Running(store), Head(chain).to \in Transition[store.state], Stored(Moved(Head(chain).to))
        PROVE  Rest'
    <3>1. Head(chain).to \in States
      BY <2>2, DefinitionAssumption DEF TypeOK, Instance
    <3>2. store.version + 1 > 0
      BY DEF TypeOK, Instance
    <3> QED
      BY <2>1, <2>2, <3>1, <3>2, MovedIsInstance, StoredRest
  <2> QED
    BY <1>4, <2>1, <2>2, EndsRest DEF Signal, Refused
<1>5. CASE Cancel
  <2>1. chain # <<>> /\ ~finishing /\ Head(chain).kind # "timeout"
    BY <1>5 DEF Cancel, Turn
  <2>2. CASE ~Running(store) /\ Refused
    BY <1>5, <2>1, <2>2, EndsRest DEF Cancel, Refused
  <2>3. CASE Running(store) /\ store' = [store EXCEPT !.status = "cancelled", !.version = @ + 1]
               /\ chain' = Tail(chain) /\ timer' = NoTimer
               /\ UNCHANGED <<finishing, moves, disturbed, torn, counts>>
    <3>1. ~Running(store)'
      BY <2>3, OverIsInstance DEF Running, Finished
    <3> QED
      BY <2>1, <2>3, <3>1 DEF Rest, FinishingInv, VersionInv, TimerIsOfThisStay, FinalStateIsFinished,
                              StayHasTimer, Timed
  <2>4. CASE Running(store) /\ Fault /\ Ends /\ timer' = NoTimer /\ disturbed' = TRUE
    BY <1>5, <2>1, <2>4 DEF Cancel, Ends, Rest, FinishingInv, VersionInv, TimerIsOfThisStay,
                            FinalStateIsFinished, StayHasTimer, Running
  <2> QED
    BY <1>5, <2>2, <2>3, <2>4 DEF Cancel
<1>6. CASE OnTimeout
  <2>1. Head(chain) \in Call /\ Head(chain).kind = "timeout" /\ chain # <<>> /\ ~finishing
    BY <1>6, TurnIsFirst DEF OnTimeout, Turn
  <2>2. ASSUME Current(Head(chain).at), Stored(Moved(Timeout[store.state])) PROVE Rest'
    <3>1. Head(chain).at.state \in DOMAIN Timeout
      BY <2>1, TurnIsFirst DEF ArmedInv
    <3>2. Running(store) /\ Timeout[store.state] \in States
      BY <2>2, <3>1, DefinitionAssumption DEF Current
    <3>3. store.version + 1 > 0
      BY DEF TypeOK, Instance
    <3> QED
      BY <2>1, <2>2, <3>2, <3>3, MovedIsInstance, StoredRest
  <2>3. ASSUME ~Current(Head(chain).at), Refused PROVE Rest'
    BY <1>6, <2>1, <2>3, EndsRest DEF OnTimeout, Refused
  <2>4. ASSUME Fault, Ends, UNCHANGED timer, disturbed' = (disturbed \/ Current(Head(chain).at))
        PROVE  Rest'
    <3>1. disturbed => disturbed'
      BY <2>4
    <3>2. Current(Head(chain).at) => disturbed'
      BY <2>4
    <3> QED
      BY <1>6, <2>1, <2>4, <3>1, <3>2, EndsRest DEF OnTimeout
  <2> QED
    BY <1>6, <2>2, <2>3, <2>4 DEF OnTimeout
<1>7. CASE Finalize
  <2>1. CASE /\ store' = [store EXCEPT !.status = IF store.state \in Failure THEN "failed" ELSE "completed",
                                       !.version = @ + 1]
             /\ disturbed' = (disturbed \/ timer # NoTimer)
    <3>1. ~Running(store)'
      BY <2>1, OverIsInstance DEF Running, Finished
    <3> QED
      BY <1>7, <2>1, <3>1 DEF Finalize, Rest, FinishingInv, VersionInv, TimerIsOfThisStay, FinalStateIsFinished,
                        StayHasTimer, Timed
  <2>2. CASE Fault /\ torn' = TRUE /\ UNCHANGED <<store, disturbed>>
    BY <1>7, <2>2 DEF Finalize, Rest, FinishingInv, VersionInv, TimerIsOfThisStay, FinalStateIsFinished,
                      StayHasTimer, Running, Current
  <2> QED
    BY <1>7, <2>1, <2>2 DEF Finalize
<1>8. CASE Fire
  <2>1. [kind |-> "timeout", at |-> timer] \in Call
    BY Calling DEF TypeOK
  <2>2. /\ \A n \in 1..Len(chain) : n \in 1..Len(chain') /\ chain'[n] = chain[n]
        /\ \E n \in 1..Len(chain') : chain'[n].kind = "timeout" /\ chain'[n].at = timer
    BY <1>8, <2>1, Joined DEF Fire
  <2>3. StayHasTimer'
    BY <1>8, <2>2 DEF Fire, Rest, StayHasTimer, Timed, Running, Current
  <2> QED
    BY <1>8, <2>3 DEF Fire, Rest, FinishingInv, VersionInv, TimerIsOfThisStay, FinalStateIsFinished, Running
<1>9. CASE RecoverList
  <2>1. CASE listing' = IF Timed(store) THEN TimerFor(store, moves) ELSE NoTimer
    <3>1. Timed(store) => listing' # NoTimer
      BY <2>1, ArmedTimer DEF NoTimer, Timed, Rest, VersionInv, TypeOK
    <3> QED
      BY <1>9, <3>1 DEF RecoverList, Rest, FinishingInv, VersionInv, TimerIsOfThisStay,
                        FinalStateIsFinished, StayHasTimer, Timed, Running, Current
  <2>2. CASE Fault /\ disturbed' = TRUE /\ UNCHANGED listing
    BY <1>9, <2>2 DEF RecoverList, Rest, FinishingInv, VersionInv, TimerIsOfThisStay,
                      FinalStateIsFinished, StayHasTimer, Running
  <2> QED
    BY <1>9, <2>1, <2>2 DEF RecoverList
<1>10. CASE RecoverArm
  <2>1. ~disturbed' => Current(timer)'
    BY <1>10 DEF RecoverArm, Current, Running
  <2> QED
    BY <1>10, <2>1 DEF RecoverArm, Rest, FinishingInv, VersionInv, TimerIsOfThisStay,
                       FinalStateIsFinished, StayHasTimer, Running
<1>11. CASE Stop
  <2>1. recovering' = TRUE /\ finishing' = FALSE /\ timer' = NoTimer /\ UNCHANGED store
        /\ (finishing \/ torn => torn')
    BY <1>11 DEF Stop
  <2> QED
    BY <2>1 DEF Rest, FinishingInv, VersionInv, TimerIsOfThisStay, FinalStateIsFinished, StayHasTimer, Running
<1>12. CASE UNCHANGED vars
  BY <1>12 DEF vars, Rest, FinishingInv, VersionInv, TimerIsOfThisStay, FinalStateIsFinished, StayHasTimer,
               Timed, Running, Current
<1> QED
  BY <1>2, <1>3, <1>4, <1>5, <1>6, <1>7, <1>8, <1>9, <1>10, <1>11, <1>12 DEF Next, Work

----------------------------------------------------------------------------
(******************************* BIRTHS ***********************************)

\* What the chain says of starts and stays holds of what is left of it.
LEMMA Trimmed ==
  ASSUME TypeOK, OneStart, chain # <<>>, chain' = Tail(chain) \/ (chain' = chain /\ ~finishing)
  PROVE  /\ starts = 0 => \A n \in 1..Len(chain') : chain'[n].kind # "start"
         /\ \A m, n \in 1..Len(chain') : chain'[m].kind = "start" /\ chain'[n].kind = "start" => m = n
         /\ \A n \in 1..Len(chain') : chain'[n].kind = "start" => store.status = "absent"
         /\ store.status = "absent" => \A n \in 1..Len(chain') : chain'[n].kind # "timeout"
         /\ \A n \in 1..Len(chain') : chain'[n].kind = "timeout" => Past(chain'[n].at)
<1>1. CASE chain' = chain /\ ~finishing
  BY <1>1 DEF OneStart
<1>2. CASE chain' = Tail(chain)
  <2>1. \A n \in 1..Len(chain') : chain'[n] = chain[n + 1] /\ n + 1 \in 1..Len(chain) /\ n + 1 # 1
    <3>1. \A n \in 1..Len(chain') : chain'[n] = chain[n + 1] /\ n + 1 \in 1..Len(chain)
      BY <1>2, Popped
    <3>2. \A n \in 1..Len(chain') : n + 1 # 1
      BY SMTT(30)
    <3> QED
      BY <3>1, <3>2
  <2>2. \A m, n \in 1..Len(chain') : chain'[m].kind = "start" /\ chain'[n].kind = "start" => m = n
    <3> SUFFICES ASSUME NEW m \in 1..Len(chain'), NEW n \in 1..Len(chain'),
                        chain'[m].kind = "start", chain'[n].kind = "start"
                 PROVE  m = n
      OBVIOUS
    <3>1. m + 1 = n + 1
      BY <2>1 DEF OneStart
    <3> QED
      BY <3>1
  <2> QED
    BY <2>1, <2>2 DEF OneStart
<1> QED
  BY <1>1, <1>2

\* A move, a cancellation or the second write of a final state: what was armed before is of the past.
LEMMA LaterBirth ==
  ASSUME TypeOK, OneStart, chain # <<>>, chain' = Tail(chain) \/ (chain' = chain /\ ~finishing),
         Running(store), store'.version = store.version + 1, store'.status # "absent",
         UNCHANGED <<listing, starts>>, timer' \in Timer,
         timer' # NoTimer => timer' = timer \/ (timer'.version = store'.version /\ timer'.born = moves')
  PROVE  OneStart'
<1>1. store.version \in Nat /\ store.status # "absent"
  BY DEF TypeOK, Instance, Running
<1>2. \A t \in Timer : Past(t) => Past(t)'
  BY <1>1 DEF Past, Timer
<1>3. chain \in Seq(Call) /\ chain' \in Seq(Call)
  BY Popped DEF TypeOK
<1>4. \A n \in 1..Len(chain') : chain'[n].kind = "timeout" => chain'[n].at \in Timer
  <2>1. \A n \in 1..Len(chain') : chain'[n] \in Call
    BY <1>3
  <2> QED
    BY <2>1, CallParts
<1>5. (\A n \in 1..Len(chain) : chain[n].kind = "timeout" => Past(chain[n].at))'
  BY <1>2, <1>4, Trimmed
<1>6. timer' # NoTimer => Past(timer)'
  <2>1. ASSUME timer' = timer, timer' # NoTimer PROVE Past(timer)'
    <3>1. Past(timer)
      BY <2>1 DEF OneStart
    <3>2. PICK t \in Timer : t = timer
      BY DEF TypeOK
    <3> QED
      BY <1>2, <2>1, <3>1, <3>2
  <2>2. ASSUME timer'.version = store'.version, timer'.born = moves' PROVE Past(timer)'
    BY <1>1, <2>2 DEF Past
  <2> QED
    BY <2>1, <2>2
<1>7. listing' # NoTimer => Past(listing)'
  BY <1>2 DEF OneStart, TypeOK
<1>8. \A n \in 1..Len(chain') : chain'[n].kind # "start"
  BY <1>1, Trimmed
<1> QED
  BY <1>1, <1>5, <1>6, <1>7, <1>8 DEF OneStart

\* A call that stores nothing.
LEMMA SameBirth ==
  ASSUME TypeOK, OneStart, chain # <<>>, chain' = Tail(chain), UNCHANGED <<store, moves, listing, starts>>,
         timer' \in {timer, NoTimer}
  PROVE  OneStart'
BY Trimmed DEF OneStart, Past, Running

LEMMA BirthNext ==
  ASSUME TypeOK, ArmedInv, Rest, BirthInv, [Next]_vars
  PROVE  BirthInv'
<1> USE DEF recovery, counts
<1>0. starts \in Nat
  BY DefinitionAssumption, SMTT(30) DEF TypeOK
<1>1. CASE CallStart
  <2> SUFFICES ASSUME starts' <= 1 PROVE OneStart'
    BY DEF BirthInv
  <2>1. starts = 0 /\ starts' = 1 /\ OneStart
    BY <1>0, <1>1 DEF CallStart, BirthInv
  <2>2. Len(chain) + 1 \in 1..Len(chain')
    BY <1>1, Joined, Calling DEF CallStart, Calls
  <2>3. \A n \in 1..Len(chain') : n \in 1..Len(chain) \/ n = Len(chain) + 1
    BY <1>1, Joined, Calling DEF CallStart, Calls
  <2>4. /\ \A n \in 1..Len(chain) : chain'[n] = chain[n]
        /\ chain'[Len(chain) + 1] = [kind |-> "start"]
    BY <1>1, Joined, Calling DEF CallStart, Calls
  <2>5. store.status = "absent" /\ store' = store /\ timer' = timer /\ listing' = listing /\ moves' = moves
    BY <1>1, <2>1 DEF CallStart, Calls, OneStart
  <2>6. \A n \in 1..Len(chain') : chain'[n].kind # "timeout"
    BY <2>1, <2>3, <2>4, <2>5 DEF OneStart
  <2>7. \A n \in 1..Len(chain') : chain'[n].kind = "start" => n = Len(chain) + 1
    BY <2>1, <2>3, <2>4 DEF OneStart
  <2>8. timer' = NoTimer /\ listing' = NoTimer
    BY <2>1, <2>5 DEF OneStart
  <2>9. \A m, n \in 1..Len(chain') : chain'[m].kind = "start" /\ chain'[n].kind = "start" => m = n
    BY <2>7
  <2>10. starts' # 0 /\ store'.status = "absent"
    BY <2>1, <2>5
  <2> QED
    BY <2>6, <2>8, <2>9, <2>10 DEF OneStart
<1> SUFFICES ASSUME ~CallStart, starts' <= 1 PROVE OneStart'
  BY <1>1 DEF BirthInv
<1>2. starts' = starts
  BY DEF Next, vars, CallSignal, CallCancel, Work, Start, Signal, Cancel, OnTimeout, Finalize, Fire,
         RecoverList, RecoverArm, Stop, Stored, Refused, Fault
<1>3. OneStart
  BY <1>2 DEF BirthInv
<1>4. ASSUME NEW x \in Call, x.kind # "start",
             x.kind = "timeout" => Past(x.at) /\ store.status # "absent",
             chain' = Append(chain, x), UNCHANGED <<store, moves, listing, finishing>>,
             timer' \in {timer, NoTimer}
      PROVE  OneStart'
  <2>1. /\ \A n \in 1..Len(chain') : n \in 1..Len(chain) \/ n = Len(chain) + 1
        /\ \A n \in 1..Len(chain) : chain'[n] = chain[n]
        /\ chain'[Len(chain) + 1] = x
    BY <1>4, Joined
  <2>2. \A t : Past(t) => Past(t)'
    BY <1>4 DEF Past, Running
  <2>3. \A n \in 1..Len(chain') : chain'[n].kind = "start" => n \in 1..Len(chain)
    BY <1>4, <2>1
  <2>4. (\A n \in 1..Len(chain) : chain[n].kind = "timeout" => Past(chain[n].at))'
    BY <1>3, <1>4, <2>1, <2>2 DEF OneStart
  <2>5. store.status = "absent" => \A n \in 1..Len(chain') : chain'[n].kind # "timeout"
    BY <1>3, <1>4, <2>1 DEF OneStart
  <2>6. (timer' # NoTimer => Past(timer)') /\ (listing' # NoTimer => Past(listing)')
    BY <1>3, <1>4, <2>2 DEF OneStart
  <2> QED
    BY <1>2, <1>3, <1>4, <2>1, <2>3, <2>4, <2>5, <2>6 DEF OneStart
<1>5. CASE CallSignal
  BY <1>4, <1>5, Calling DEF CallSignal, Calls
<1>6. CASE CallCancel
  BY <1>4, <1>6, Calling DEF CallCancel, Calls
<1>7. ASSUME NEW inst \in Instance, Running(store), inst.version = store.version + 1, inst.status # "absent",
             chain # <<>>, ~finishing, Stored(inst), UNCHANGED listing
      PROVE  OneStart'
  <2>1. timer' # NoTimer => timer'.version = store'.version /\ timer'.born = moves'
    <3>1. moves + 1 \in Nat
      BY DEF TypeOK
    <3> QED
      BY <1>7, <3>1, ArmedTimer DEF Stored
  <2>2. timer' \in Timer
    BY TypesNext DEF TypeOK
  <2> QED
    BY <1>2, <1>3, <1>7, <2>1, <2>2, LaterBirth DEF Stored
<1>8. CASE Start
  <2> DEFINE new == [state |-> Initial, status |-> "running", version |-> 1]
  <2>1. chain # <<>> /\ ~finishing /\ Head(chain).kind = "start"
    BY <1>8 DEF Start, Turn
  <2>2. 1 \in 1..Len(chain) /\ chain[1].kind = "start"
    BY <2>1, TurnIsFirst
  <2>3. store.status = "absent" /\ starts # 0
    BY <1>3, <2>1, <2>2 DEF OneStart
  <2>4. CASE Stored(new)
    <3>1. new \in Instance /\ moves + 1 \in Nat
      BY DefinitionAssumption DEF Instance, TypeOK
    <3>2. timer' # NoTimer => timer'.version = 1 /\ timer'.born = moves'
      BY <2>4, <3>1, ArmedTimer DEF Stored
    <3>3. listing' = NoTimer
      BY <1>3, <1>8, <2>3 DEF Start, OneStart
    <3>4. \A n \in 1..Len(chain') : chain'[n].kind # "timeout"
      BY <1>3, <2>1, <2>3, <2>4, Trimmed DEF Stored
    <3>5. \A m, n \in 1..Len(chain') : chain'[m].kind = "start" /\ chain'[n].kind = "start" => m = n
      BY <1>3, <2>1, <2>4, Trimmed DEF Stored
    <3>6. \A n \in 1..Len(chain') : chain'[n].kind = "start" => finishing' /\ n = 1
      <4>1. CASE Initial \in Final
        <5>1. chain' = chain /\ finishing' = TRUE
          BY <2>4, <4>1 DEF Stored
        <5> QED
          BY <1>3, <2>2, <5>1 DEF OneStart
      <4>2. CASE Initial \notin Final
        <5>1. chain' = Tail(chain)
          BY <2>4, <4>2 DEF Stored
        <5>2. \A n \in 1..Len(chain') : chain'[n] = chain[n + 1] /\ n + 1 \in 1..Len(chain) /\ n + 1 # 1
          <6>1. \A n \in 1..Len(chain') : chain'[n] = chain[n + 1] /\ n + 1 \in 1..Len(chain)
            BY <2>1, <5>1, Popped
          <6>2. \A n \in 1..Len(chain') : n + 1 # 1
            BY SMTT(30)
          <6> QED
            BY <6>1, <6>2
        <5> QED
          BY <1>3, <2>2, <5>2 DEF OneStart
      <4> QED
        BY <4>1, <4>2
    <3>7. store' = new
      BY <2>4 DEF Stored
    <3>8. timer' # NoTimer => Past(timer)'
      BY <3>2, <3>7 DEF Past
    <3> QED
      BY <1>2, <2>3, <3>3, <3>4, <3>5, <3>6, <3>7, <3>8 DEF OneStart
  <2>5. CASE Fault /\ Ends /\ UNCHANGED <<timer, disturbed>>
    BY <1>2, <1>3, <1>8, <2>1, <2>5, SameBirth DEF Start, Ends
  <2> QED
    BY <1>8, <2>4, <2>5 DEF Start
<1>9. CASE Signal
  <2>1. chain # <<>> /\ ~finishing
    BY <1>9 DEF Signal, Turn
  <2>2. ASSUME Running(store), Head(chain).to \in Transition[store.state], Stored(Moved(Head(chain).to))
        PROVE  OneStart'
    <3>1. Head(chain).to \in States
      BY <2>2, DefinitionAssumption DEF TypeOK, Instance
    <3>2. Moved(Head(chain).to).status # "absent"
      BY <2>2, <3>1, MovedIsInstance DEF Running
    <3> QED
      BY <1>7, <1>9, <2>1, <2>2, <3>1, <3>2, MovedIsInstance DEF Signal
  <2> QED
    BY <1>2, <1>3, <1>9, <2>1, <2>2, SameBirth DEF Signal, Ends, Refused
<1>10. CASE Cancel
  <2>1. chain # <<>> /\ ~finishing
    BY <1>10 DEF Cancel, Turn
  <2>2. CASE Running(store) /\ store' = [store EXCEPT !.status = "cancelled", !.version = @ + 1]
               /\ chain' = Tail(chain) /\ timer' = NoTimer
               /\ UNCHANGED <<finishing, moves, disturbed, torn, counts>>
    <3>1. store'.status = "cancelled" /\ store'.version = store.version + 1
      BY <2>2 DEF TypeOK, Instance
    <3> QED
      BY <1>2, <1>3, <1>10, <2>1, <2>2, <3>1, LaterBirth, NoTimerIsTimer DEF Cancel
  <2> QED
    BY <1>2, <1>3, <1>10, <2>1, <2>2, SameBirth DEF Cancel, Ends, Refused
<1>11. CASE OnTimeout
  <2>1. Head(chain) \in Call /\ Head(chain).kind = "timeout" /\ chain # <<>> /\ ~finishing
    BY <1>11, TurnIsFirst DEF OnTimeout, Turn
  <2>2. ASSUME Current(Head(chain).at), Stored(Moved(Timeout[store.state])) PROVE OneStart'
    <3>1. Head(chain).at.state \in DOMAIN Timeout
      BY <2>1, TurnIsFirst DEF ArmedInv
    <3>2. Running(store) /\ Timeout[store.state] \in States
      BY <2>2, <3>1, DefinitionAssumption DEF Current
    <3>3. Moved(Timeout[store.state]).status # "absent"
      BY <3>2, MovedIsInstance DEF Running
    <3> QED
      BY <1>7, <1>11, <2>1, <2>2, <3>2, <3>3, MovedIsInstance DEF OnTimeout
  <2> QED
    BY <1>2, <1>3, <1>11, <2>1, <2>2, SameBirth DEF OnTimeout, Ends, Refused
<1>12. CASE Finalize
  <2>1. chain # <<>> /\ chain' = Tail(chain) /\ timer' = timer /\ Running(store)
    BY <1>12 DEF Finalize, TypeOK, Rest, FinishingInv
  <2>2. CASE store' = [store EXCEPT !.status = IF store.state \in Failure THEN "failed" ELSE "completed",
                                    !.version = @ + 1]
    <3>1. store'.status # "absent" /\ store'.version = store.version + 1
      BY <2>2 DEF TypeOK, Instance
    <3> QED
      BY <1>2, <1>3, <1>12, <2>1, <3>1, LaterBirth DEF Finalize, TypeOK
  <2>3. CASE UNCHANGED store
    BY <1>2, <1>3, <1>12, <2>1, <2>3, SameBirth DEF Finalize
  <2> QED
    BY <1>12, <2>2, <2>3 DEF Finalize
<1>13. CASE Fire
  <2>1. [kind |-> "timeout", at |-> timer] \in Call
    BY Calling DEF TypeOK
  <2>2. store.status # "absent" /\ Past(timer)
    BY <1>3, <1>13 DEF Fire, OneStart
  <2> QED
    BY <1>4, <1>13, <2>1, <2>2 DEF Fire
<1>14. CASE RecoverList
  <2>1. listing' # NoTimer /\ listing' # listing => Past(listing)' /\ store.status # "absent"
    <3>1. ASSUME Timed(store) PROVE Past(TimerFor(store, moves)) /\ store.status # "absent"
      BY <3>1, ArmedTimer DEF Past, TypeOK, Instance, Timed, Running
    <3> QED
      BY <1>14, <3>1 DEF RecoverList, Past, Running
  <2>2. \A t : Past(t) => Past(t)'
    BY <1>14 DEF RecoverList, Past, Running
  <2> QED
    BY <1>2, <1>3, <1>14, <2>1, <2>2 DEF RecoverList, OneStart
<1>15. CASE RecoverArm
  <2>1. \A t : Past(t) => Past(t)'
    BY <1>15 DEF RecoverArm, Past, Running
  <2> QED
    BY <1>2, <1>3, <1>15, <2>1 DEF RecoverArm, OneStart
<1>16. CASE Stop
  <2>1. Len(chain') = 0
    BY <1>16 DEF Stop
  <2>2. \A n \in 1..Len(chain') : FALSE
    BY <2>1, SMTT(30)
  <2> QED
    BY <1>2, <1>3, <1>16, <2>2 DEF Stop, OneStart
<1>17. CASE UNCHANGED vars
  BY <1>3, <1>17 DEF vars, OneStart, Past, Running
<1> QED
  BY <1>5, <1>6, <1>8, <1>9, <1>10, <1>11, <1>12, <1>13, <1>14, <1>15, <1>16, <1>17 DEF Next, Work

----------------------------------------------------------------------------
(******************************* THEOREMS *********************************)

LEMMA InitInv == Init => IInv
<1> SUFFICES ASSUME Init PROVE IInv
  OBVIOUS
<1>1. TypeOK
  BY TypesInit
<1>2. \A n \in 1..Len(chain) : FALSE
  <2>1. Len(chain) = 0
    BY DEF Init
  <2> QED
    BY <2>1, SMTT(30)
<1>3. ~Running(store) /\ timer = NoTimer /\ listing = NoTimer /\ finishing = FALSE
  BY DEF Init, Running
<1>4. Rest
  BY <1>3 DEF Rest, FinishingInv, VersionInv, TimerIsOfThisStay, FinalStateIsFinished, StayHasTimer, Timed
<1>5. ArmedInv
  BY <1>2, <1>3 DEF ArmedInv
<1>6. BirthInv
  BY <1>2, <1>3 DEF BirthInv, OneStart, Init
<1> QED
  BY <1>1, <1>4, <1>5, <1>6 DEF IInv, Rest

\* The strengthening of the invariants that every step keeps: what is armed, listed or queued is for a timed
\* state, only a running workflow is being finished, and with one start the versions tell its stays apart.
THEOREM WorkflowInvariant == Spec => []IInv
<1>1. IInv /\ [Next]_vars => IInv'
  BY TypesNext, ArmedNext, RestNext, BirthNext DEF IInv, Rest
<1> QED
  BY InitInv, <1>1, PTL DEF Spec

\* Whatever signals, timeouts, cancels, restarts, failed writes and recoveries do, a running workflow has the
\* timer of the stay it is in and no other, and one that has reached a final state is being finished.
THEOREM StaysSound == Spec => []StaysAreSound
<1>1. IInv => StaysAreSound
  BY DEF IInv, StaysAreSound
<1> QED
  BY WorkflowInvariant, <1>1, PTL

\* Under one start, a timeout moves the workflow only out of the stay it was armed for, however often the
\* state has been left and entered again (_onTimeout compares state and version).
THEOREM TimeoutsEndTheirStay == Spec => TimeoutEndsItsStay
<1> DEFINE Born == moves' # moves /\ Head(chain).kind = "timeout" => Head(chain).at.born = moves \/ starts > 1
<1>1. ASSUME IInv, [Next]_vars PROVE [Born]_vars
  <2> SUFFICES ASSUME moves' # moves, Head(chain).kind = "timeout", ~(starts > 1)
               PROVE  Head(chain).at.born = moves
    OBVIOUS
  <2>1. OnTimeout /\ Current(Head(chain).at)
    BY <1>1 DEF Next, vars, Work, CallStart, CallSignal, CallCancel, Calls, Start, Signal, Cancel, OnTimeout,
                Finalize, Fire, RecoverList, RecoverArm, Stop, Turn, Refused, Ends
  <2>2. 1 \in 1..Len(chain) /\ chain[1] = Head(chain)
    BY <1>1, <2>1, TurnIsFirst DEF OnTimeout, Turn, IInv
  <2>3. starts <= 1
    <3>1. starts \in Nat
      BY <1>1, DefinitionAssumption, SMTT(30) DEF IInv, TypeOK
    <3> QED
      BY <3>1
  <2>4. Past(Head(chain).at)
    BY <1>1, <2>2, <2>3 DEF IInv, BirthInv, OneStart
  <2> QED
    BY <2>1, <2>4 DEF Past, Current
<1> QED
  BY WorkflowInvariant, <1>1, PTL DEF Spec, TimeoutEndsItsStay

\* A workflow that is over is written again only by a start under its id: the calls and timeouts that were
\* waiting behind the one that ended it change nothing.
THEOREM OverStaysOver == Spec => OverIsOver
<1> DEFINE Over == store.status \in Finished /\ store' # store => chain # <<>> /\ Head(chain).kind = "start"
<1>1. ASSUME IInv, [Next]_vars PROVE [Over]_vars
  <2> SUFFICES ASSUME store.status \in Finished, store' # store PROVE chain # <<>> /\ Head(chain).kind = "start"
    OBVIOUS
  <2>1. ~Running(store) /\ ~finishing
    BY <1>1 DEF Finished, Running, IInv, FinishingInv
  <2>2. Start
    BY <1>1, <2>1 DEF Next, vars, Work, CallStart, CallSignal, CallCancel, Calls, Start, Signal, Cancel, OnTimeout,
                Finalize, Fire, RecoverList, RecoverArm, Stop, Turn, Refused, Ends, Current
  <2> QED
    BY <2>2 DEF Start, Turn
<1> QED
  BY WorkflowInvariant, <1>1, PTL DEF Spec, OverIsOver
=============================================================================
