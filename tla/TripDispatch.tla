---------------------------- MODULE TripDispatch ----------------------------
(***************************************************************************)
(* The taxi dispatch core of the back end: a passenger's request, the      *)
(* search for a driver with its 30-second timers, acceptance, the ride's   *)
(* lifecycle, and what drivers and administrators do meanwhile.            *)
(*                                                                         *)
(* The server is one Node.js process: code runs without interruption up to *)
(* an await, and whatever else is pending may run there.  Each request or  *)
(* timer therefore owns a slot, and one action is one database call        *)
(* together with the synchronous code that follows it.  Between two        *)
(* actions of a slot the rows it has read may change.                      *)
(***************************************************************************)
EXTENDS Naturals, FiniteSets

CONSTANTS
  Trips,        \* trip ids
  Drivers,      \* driver ids; every driver owns one taxi row
  Slots,        \* requests in flight and timers armed, at most so many
  MaxCalls,     \* bound: requests, socket events and administrator commands
  MaxFaults,    \* bound: restarts of the process and failed database calls
  Nobody,       \* a NULL driver id, or no driver
  NoTrip,       \* a slot that is not about a trip
  NoSlot        \* a trip with no entry in tripTimers

ASSUME DispatchAssumption ==
  /\ MaxCalls \in Nat
  /\ MaxFaults \in Nat
  /\ Nobody \notin Drivers
  /\ NoTrip \notin Trips
  /\ NoSlot \notin Slots

VARIABLES
  \* the database
  status,       \* trips.status
  driver,       \* trips.driver_id
  assigned,     \* trips.assigned_driver_id: who was asked last
  rejected,     \* trips.rejected_drivers
  duty,         \* drivers.status
  taxi,         \* taxis.status of the driver's taxi
  approval,     \* drivers.approval_status
  \* the process
  timer,        \* tripTimers: trip -> the timer stored last, fired or not
  pc,           \* where each slot stands
  on,           \* the trip a slot is about
  by,           \* the driver a slot is about
  list,         \* the rejected_drivers array a slot carries
  \* history
  paid,         \* settlement transactions run for a trip
  requeued,     \* trips put back to waiting_driver by a status update
  unmatched,    \* trips whose first search found nobody
  broken,       \* trips whose search may have been cut by a fault
  stranded,     \* drivers whose busy taxi only the hourly repair will free
  calls,        \* calls made so far
  faults        \* faults so far

tripVars == <<status, driver, assigned, rejected>>
fleetVars == <<duty, taxi, approval, stranded>>
slotVars == <<pc, on, by, list>>
searchHist == <<requeued, unmatched, broken>>
vars == <<status, driver, assigned, rejected, duty, taxi, approval, timer,
          pc, on, by, list, paid, requeued, unmatched, broken, stranded, calls,
          faults>>

-----------------------------------------------------------------------------
(* Values *)

\* "none" is a trip not yet requested, "deleted" a row removed by an admin.
TripStatus == {"none", "waiting_driver", "accepted", "arrived", "in_progress",
               "completed", "cancelled", "no_driver", "deleted"}

CancellableStatuses == {"waiting_driver", "accepted", "arrived", "in_progress"}

ActiveStatuses == {"accepted", "arrived", "in_progress"}

DrivenStatuses == ActiveStatuses \cup {"completed"}

\* The steps of a search for a driver, "armed" being the 30-second wait.
SearchSteps == {"dispatch", "send", "arm", "armed", "fired", "rejecting",
                "reject", "find", "nodriver"}

RideSteps == {"accept", "busy", "start", "complete", "settle", "cancel",
              "arrived", "requeue"}

FleetSteps == {"online1", "online2", "offline2", "free", "resettaxis"}

Steps == {"idle"} \cup SearchSteps \cup RideSteps \cup FleetSteps

Exists(t) == status[t] \notin {"none", "deleted"}

Rides(d, t) == driver[t] = d /\ status[t] \in ActiveStatuses

OnTrip(d) == \E t \in Trips : Rides(d, t)

\* Whose taxi is busy for t, and stays so if only the status of t changes.
BusyFor(t) == {d \in Drivers : Rides(d, t) /\ taxi[d] = "busy"}

-----------------------------------------------------------------------------
(* Slots *)

\* A call of the API, counted against the bound, takes a free slot.
Begin(p, step, t, d, l) ==
  /\ pc[p] = "idle"
  /\ calls < MaxCalls
  /\ calls' = calls + 1
  /\ pc' = [pc EXCEPT ![p] = step]
  /\ on' = [on EXCEPT ![p] = t]
  /\ by' = [by EXCEPT ![p] = d]
  /\ list' = [list EXCEPT ![p] = l]

Goto(p, step) ==
  /\ pc' = [pc EXCEPT ![p] = step]
  /\ UNCHANGED <<on, by, list, calls>>

\* The handlers in ps return, or their timers are cleared.
Release(ps) ==
  /\ pc' = [q \in Slots |-> IF q \in ps THEN "idle" ELSE pc[q]]
  /\ on' = [q \in Slots |-> IF q \in ps THEN NoTrip ELSE on[q]]
  /\ by' = [q \in Slots |-> IF q \in ps THEN Nobody ELSE by[q]]
  /\ list' = [q \in Slots |-> IF q \in ps THEN {} ELSE list[q]]
  /\ UNCHANGED calls

Return(p) == Release({p})

\* clearTimer: the timer the map remembers, unless it has fired already, which
\* makes clearTimeout a no-op.
Remembered(t) == {q \in Slots : timer[t] = q /\ pc[q] = "armed" /\ on[q] = t}

-----------------------------------------------------------------------------
(* The search for a driver *)

\* findNearestDriver: distance only decides which of these is taken.
Available(excluded) ==
  {d \in Drivers \ excluded :
     duty[d] = "online" /\ taxi[d] = "online" /\ approval[d] = "approved"}

\* POST /taxi/request: the row is inserted; the search starts after the reply.
CreateTrip(p, t) ==
  /\ status[t] = "none"
  /\ Begin(p, "dispatch", t, Nobody, {})
  /\ status' = [status EXCEPT ![t] = "waiting_driver"]
  /\ UNCHANGED <<driver, assigned, rejected, fleetVars, timer, paid,
                 searchHist, faults>>

\* dispatchMatching: with nobody available the row stays waiting_driver.
DispatchMatching(p) ==
  /\ pc[p] = "dispatch"
  /\ \/ \E d \in Available({}) :
          /\ by' = [by EXCEPT ![p] = d]
          /\ pc' = [pc EXCEPT ![p] = "send"]
          /\ UNCHANGED <<on, list, calls, unmatched>>
     \/ /\ Available({}) = {}
        /\ Return(p)
        /\ unmatched' = unmatched \cup {on[p]}
  /\ UNCHANGED <<tripVars, fleetVars, timer, paid, requeued, broken, faults>>

\* sendRequestToDriver, first await: the row remembers who is asked.
AssignDriver(p) ==
  /\ pc[p] = "send"
  /\ assigned' = [assigned EXCEPT ![on[p]] = by[p]]
  /\ Goto(p, "arm")
  /\ UNCHANGED <<status, driver, rejected, fleetVars, timer, paid,
                 searchHist, faults>>

\* sendRequestToDriver, after the read: the offer is emitted and the timer set.
\* The map forgets an older timer of the trip, which keeps running.
ArmTimer(p) ==
  /\ pc[p] = "arm"
  /\ timer' = [timer EXCEPT ![on[p]] = p]
  /\ Goto(p, "armed")
  /\ UNCHANGED <<tripVars, fleetVars, paid, searchHist, faults>>

\* Thirty seconds pass.  The callback leaves its entry in the map.
TimerFires(p) ==
  /\ pc[p] = "armed"
  /\ Goto(p, "fired")
  /\ UNCHANGED <<tripVars, fleetVars, timer, paid, searchHist, faults>>

\* The callback reads the trip: an answered trip ends the search.
TimerReads(p) ==
  /\ pc[p] = "fired"
  /\ \/ /\ status[on[p]] = "waiting_driver"
        /\ list' = [list EXCEPT ![p] = rejected[on[p]] \cup {by[p]}]
        /\ pc' = [pc EXCEPT ![p] = "reject"]
        /\ UNCHANGED <<on, by, calls>>
     \/ /\ status[on[p]] # "waiting_driver"
        /\ Return(p)
  /\ UNCHANGED <<tripVars, fleetVars, timer, paid, searchHist, faults>>

\* POST /taxi/trips/:id/reject, up to the read of the driver.
RejectTrip(p, t, d) ==
  /\ status[t] = "waiting_driver"
  /\ Begin(p, "rejecting", t, d, rejected[t] \cup {d})
  /\ UNCHANGED <<tripVars, fleetVars, timer, paid, searchHist, faults>>

\* rejectTrip clears the trip's timer before it writes.
RejectClearsTimer(p) ==
  /\ pc[p] = "rejecting"
  /\ LET gone == Remembered(on[p]) IN
       /\ pc' = [q \in Slots |-> IF q = p THEN "reject"
                                 ELSE IF q \in gone THEN "idle" ELSE pc[q]]
       /\ on' = [q \in Slots |-> IF q \in gone THEN NoTrip ELSE on[q]]
       /\ by' = [q \in Slots |-> IF q \in gone THEN Nobody ELSE by[q]]
       /\ list' = [q \in Slots |-> IF q \in gone THEN {} ELSE list[q]]
  /\ timer' = [timer EXCEPT ![on[p]] = NoSlot]
  /\ UNCHANGED <<calls, tripVars, fleetVars, paid, searchHist, faults>>

\* Faulty variant of WriteRejected: the array is not saved.
WriteRejectedForgets(p) ==
  /\ pc[p] = "reject"
  /\ Goto(p, "find")
  /\ UNCHANGED <<tripVars, fleetVars, timer, paid, searchHist, faults>>

\* setRejectedDrivers: the whole array, as the slot read it, is written.
WriteRejected(p) ==
  /\ pc[p] = "reject"
  /\ rejected' = [rejected EXCEPT ![on[p]] = list[p]]
  /\ Goto(p, "find")
  /\ UNCHANGED <<status, driver, assigned, fleetVars, timer, paid,
                 searchHist, faults>>

\* Faulty variant of FindNext: nobody is left and the status is not written.
FindNextForgets(p) ==
  /\ pc[p] = "find"
  /\ \/ \E d \in Available(list[p]) :
          /\ by' = [by EXCEPT ![p] = d]
          /\ pc' = [pc EXCEPT ![p] = "send"]
          /\ list' = [list EXCEPT ![p] = {}]
          /\ UNCHANGED <<on, calls>>
     \/ /\ Available(list[p]) = {}
        /\ Return(p)
  /\ UNCHANGED <<tripVars, fleetVars, timer, paid, searchHist, faults>>

\* findNearestDriver with the slot's array excluded.
FindNext(p) ==
  /\ pc[p] = "find"
  /\ \/ \E d \in Available(list[p]) :
          /\ by' = [by EXCEPT ![p] = d]
          /\ pc' = [pc EXCEPT ![p] = "send"]
          /\ list' = [list EXCEPT ![p] = {}]
          /\ UNCHANGED <<on, calls>>
     \/ /\ Available(list[p]) = {}
        /\ Goto(p, "nodriver")
  /\ UNCHANGED <<tripVars, fleetVars, timer, paid, searchHist, faults>>

\* setStatus(no_driver): the row is written whatever its status has become.
MarkNoDriver(p) ==
  /\ pc[p] = "nodriver"
  /\ status' = [status EXCEPT ![on[p]] =
                  IF Exists(on[p]) THEN "no_driver" ELSE @]
  /\ stranded' = stranded \cup BusyFor(on[p])
  /\ Return(p)
  /\ UNCHANGED <<driver, assigned, rejected, duty, taxi, approval, timer, paid,
                 searchHist, faults>>

-----------------------------------------------------------------------------
(* The ride: PUT /taxi/trips/:id/status reads the row, then writes it *)

\* status = accepted, acceptancePolicy on the row just read.
AcceptTrip(p, t, d) ==
  /\ status[t] = "waiting_driver"
  /\ Begin(p, "accept", t, d, {})
  /\ UNCHANGED <<tripVars, fleetVars, timer, paid, searchHist, faults>>

\* Faulty variant of AcceptWrites: UPDATE ... WHERE id = ? only.
AcceptWritesUnguarded(p) ==
  /\ pc[p] = "accept"
  /\ status' = [status EXCEPT ![on[p]] = "accepted"]
  /\ driver' = [driver EXCEPT ![on[p]] = by[p]]
  /\ Goto(p, "busy")
  /\ UNCHANGED <<assigned, rejected, fleetVars, timer, paid, searchHist, faults>>

\* acceptByDriver: UPDATE ... WHERE status = 'waiting_driver'.
AcceptWrites(p) ==
  /\ pc[p] = "accept"
  /\ \/ /\ status[on[p]] = "waiting_driver"
        /\ status' = [status EXCEPT ![on[p]] = "accepted"]
        /\ driver' = [driver EXCEPT ![on[p]] = by[p]]
        /\ Goto(p, "busy")
     \/ /\ status[on[p]] # "waiting_driver"
        /\ Return(p)
        /\ UNCHANGED <<status, driver>>
  /\ UNCHANGED <<assigned, rejected, fleetVars, timer, paid, searchHist, faults>>

\* The winner's taxi becomes busy, and only then the trip's timer is cleared.
TakeTaxi(p) ==
  /\ pc[p] = "busy"
  /\ taxi' = [taxi EXCEPT ![by[p]] = "busy"]
  /\ Release({p} \cup Remembered(on[p]))
  /\ timer' = [timer EXCEPT ![on[p]] = NoSlot]
  /\ stranded' = IF Rides(by[p], on[p]) THEN stranded \ {by[p]}
                                        ELSE stranded \cup {by[p]}
  /\ UNCHANGED <<tripVars, duty, approval, paid, searchHist, faults>>

\* Faulty variant of DriverUpdates: assignedDriverPolicy is not asked.
DriverUpdatesUnchecked(p, t, d, step) ==
  /\ Exists(t)
  /\ Begin(p, step, t, d, {})
  /\ UNCHANGED <<tripVars, fleetVars, timer, paid, searchHist, faults>>

\* status = in_progress, completed, arrived or waiting_driver: the one check is
\* assignedDriverPolicy, made on the row as read.
DriverUpdates(p, t, d, step) ==
  /\ Exists(t)
  /\ driver[t] = d
  /\ Begin(p, step, t, d, {})
  /\ UNCHANGED <<tripVars, fleetVars, timer, paid, searchHist, faults>>

StartTrip(p, t, d) == DriverUpdates(p, t, d, "start")
CompleteTrip(p, t, d) == DriverUpdates(p, t, d, "complete")
ArriveTrip(p, t, d) == DriverUpdates(p, t, d, "arrived")
RequeueTrip(p, t, d) == DriverUpdates(p, t, d, "requeue")

\* An UPDATE by id, unconditional unless the row is gone.
SetStatus(t, s) == status' = [status EXCEPT ![t] = IF Exists(t) THEN s ELSE @]

StartWrites(p) ==
  /\ pc[p] = "start"
  /\ SetStatus(on[p], "in_progress")
  /\ Return(p)
  /\ UNCHANGED <<driver, assigned, rejected, fleetVars, timer, paid,
                 searchHist, faults>>

ArriveWrites(p) ==
  /\ pc[p] = "arrived"
  /\ SetStatus(on[p], "arrived")
  /\ Return(p)
  /\ UNCHANGED <<driver, assigned, rejected, fleetVars, timer, paid,
                 searchHist, faults>>

RequeueWrites(p) ==
  /\ pc[p] = "requeue"
  /\ SetStatus(on[p], "waiting_driver")
  /\ requeued' = requeued \cup {on[p]}
  /\ stranded' = stranded \cup BusyFor(on[p])
  /\ Return(p)
  /\ UNCHANGED <<driver, assigned, rejected, duty, taxi, approval, timer, paid,
                 unmatched, broken, faults>>

\* completeTrip, outside any transaction and whatever the status has become.
CompleteWrites(p) ==
  /\ pc[p] = "complete"
  /\ SetStatus(on[p], "completed")
  /\ stranded' = stranded \cup (BusyFor(on[p]) \ {by[p]})
  /\ Goto(p, "settle")
  /\ UNCHANGED <<driver, assigned, rejected, duty, taxi, approval, timer, paid,
                 searchHist, faults>>

\* completionGateway.settle: one transaction pays for the trip.
Settle(p) ==
  /\ pc[p] = "settle"
  /\ paid' = [paid EXCEPT ![on[p]] = @ + 1]
  /\ Goto(p, "free")
  /\ UNCHANGED <<tripVars, fleetVars, timer, searchHist, faults>>

\* status = cancelled, by the passenger or the trip's driver.
CancelTrip(p, t) ==
  /\ status[t] \in CancellableStatuses
  /\ Begin(p, "cancel", t, driver[t], {})
  /\ UNCHANGED <<tripVars, fleetVars, timer, paid, searchHist, faults>>

\* An administrator cancels, whatever the trip's status.
AdminCancelTrip(p, t) ==
  /\ Exists(t)
  /\ Begin(p, "cancel", t, driver[t], {})
  /\ UNCHANGED <<tripVars, fleetVars, timer, paid, searchHist, faults>>

\* setStatus or cancelByAdmin; the taxi is freed if the row read had a driver.
CancelWrites(p) ==
  /\ pc[p] = "cancel"
  /\ SetStatus(on[p], "cancelled")
  /\ stranded' = stranded \cup (BusyFor(on[p]) \ {by[p]})
  /\ IF by[p] # Nobody THEN Goto(p, "free") ELSE Return(p)
  /\ UNCHANGED <<driver, assigned, rejected, duty, taxi, approval, timer, paid,
                 searchHist, faults>>

\* resetTaxiOnline for the driver of the row as it was read.
FreeTaxi(p) ==
  /\ pc[p] = "free"
  /\ taxi' = [taxi EXCEPT ![by[p]] = "online"]
  /\ stranded' = stranded \ {by[p]}
  /\ Return(p)
  /\ UNCHANGED <<tripVars, duty, approval, timer, paid, searchHist, faults>>

\* DELETE /taxi/trips: every row goes, the timers keep running.
DeleteAllTrips(p) ==
  /\ Begin(p, "resettaxis", NoTrip, Nobody, {})
  /\ status' = [t \in Trips |-> IF Exists(t) THEN "deleted" ELSE status[t]]
  /\ UNCHANGED <<driver, assigned, rejected, fleetVars, timer, paid,
                 searchHist, faults>>

\* ... and then every taxi becomes online, those of offline drivers too.
ResetTaxis(p) ==
  /\ pc[p] = "resettaxis"
  /\ taxi' = [d \in Drivers |-> "online"]
  /\ stranded' = {}
  /\ Return(p)
  /\ UNCHANGED <<tripVars, duty, approval, timer, paid, searchHist, faults>>

\* A request that has ended a ride of d, or every ride, and has yet to write
\* the taxi.
Freeing(p, d) ==
  pc[p] = "resettaxis" \/ (pc[p] \in {"settle", "free"} /\ by[p] = d)

\* Whose busy taxi nobody frees if the requests in ps are lost.
LeftBusy(ps) == {d \in Drivers : taxi[d] = "busy" /\ \E p \in ps : Freeing(p, d)}

-----------------------------------------------------------------------------
(* Drivers and their taxis *)

\* Socket driver:register and PUT /driver/status: approval is read first.
GoOnline(p, d) ==
  /\ approval[d] = "approved"
  /\ Begin(p, "online1", NoTrip, d, {})
  /\ UNCHANGED <<tripVars, fleetVars, timer, paid, searchHist, faults>>

DutyOn(p) ==
  /\ pc[p] = "online1"
  /\ duty' = [duty EXCEPT ![by[p]] = "online"]
  /\ Goto(p, "online2")
  /\ UNCHANGED <<tripVars, taxi, approval, stranded, timer, paid, searchHist, faults>>

\* The taxi becomes online even when its driver is on a trip.
TaxiOn(p) ==
  /\ pc[p] = "online2"
  /\ taxi' = [taxi EXCEPT ![by[p]] = "online"]
  /\ stranded' = stranded \ {by[p]}
  /\ Return(p)
  /\ UNCHANGED <<tripVars, duty, approval, timer, paid, searchHist, faults>>

\* Socket driver:status and PUT /driver/status, going offline.
GoOffline(p, d) ==
  /\ Begin(p, "offline2", NoTrip, d, {})
  /\ duty' = [duty EXCEPT ![d] = "offline"]
  /\ UNCHANGED <<tripVars, taxi, approval, stranded, timer, paid, searchHist, faults>>

TaxiOff(p) ==
  /\ pc[p] = "offline2"
  /\ taxi' = [taxi EXCEPT ![by[p]] = "offline"]
  /\ stranded' = stranded \ {by[p]}
  /\ Return(p)
  /\ UNCHANGED <<tripVars, duty, approval, timer, paid, searchHist, faults>>

\* A driver's socket closes: the driver goes offline, the taxi does not.
Disconnect(d) ==
  /\ calls < MaxCalls
  /\ calls' = calls + 1
  /\ duty' = [duty EXCEPT ![d] = "offline"]
  /\ UNCHANGED <<tripVars, taxi, approval, stranded, timer, slotVars, paid, searchHist,
                 faults>>

\* An administrator's decision; a suspension also takes the driver off duty.
Rule(d, verdict) ==
  /\ calls < MaxCalls
  /\ approval[d] # verdict
  /\ calls' = calls + 1
  /\ approval' = [approval EXCEPT ![d] = verdict]
  /\ duty' = [duty EXCEPT ![d] = IF verdict = "suspended" THEN "offline" ELSE @]
  /\ UNCHANGED <<tripVars, taxi, stranded, timer, slotVars, paid, searchHist, faults>>

\* The hourly repair: busy taxis without an active trip become online.
AutoFixTaxis ==
  /\ \E d \in Drivers : taxi[d] = "busy" /\ ~OnTrip(d)
  /\ taxi' = [d \in Drivers |->
                IF taxi[d] = "busy" /\ ~OnTrip(d) THEN "online" ELSE taxi[d]]
  /\ stranded' = {d \in stranded : OnTrip(d)}
  /\ UNCHANGED <<tripVars, duty, approval, timer, slotVars, paid, searchHist,
                 calls, faults>>

-----------------------------------------------------------------------------
(* Faults *)

\* The process restarts: slots and timers are lost, and the startup cleanup
\* closes the waiting trips older than ten minutes, whichever those are.
Restart ==
  /\ faults < MaxFaults
  /\ faults' = faults + 1
  /\ Release(Slots)
  /\ timer' = [t \in Trips |-> NoSlot]
  /\ \E old \in SUBSET {t \in Trips : status[t] = "waiting_driver"} :
       status' = [t \in Trips |-> IF t \in old THEN "no_driver" ELSE status[t]]
  /\ broken' = Trips
  /\ stranded' = stranded \cup LeftBusy(Slots)
  /\ UNCHANGED <<driver, assigned, rejected, duty, taxi, approval, paid,
                 requeued, unmatched>>

\* Faulty variant of CallFails: settle does not catch the error.
CallFailsUncaught(p) ==
  /\ faults < MaxFaults
  /\ pc[p] \notin {"idle", "armed"}
  /\ faults' = faults + 1
  /\ Return(p)
  /\ stranded' = IF pc[p] = "settle" THEN stranded
                 ELSE stranded \cup LeftBusy({p})
  /\ broken' = broken \cup ({on[p]} \cap Trips)
  /\ UNCHANGED <<tripVars, duty, taxi, approval, timer, paid, requeued, unmatched>>

\* A database call rejects: the handler gives up where it stands, except that
\* a failed settlement is only logged.
CallFails(p) ==
  /\ faults < MaxFaults
  /\ pc[p] \notin {"idle", "armed"}
  /\ faults' = faults + 1
  /\ \/ /\ pc[p] = "settle"
        /\ Goto(p, "free")
        /\ UNCHANGED stranded
     \/ /\ pc[p] # "settle"
        /\ Return(p)
        /\ stranded' = stranded \cup LeftBusy({p})
  /\ broken' = broken \cup ({on[p]} \cap Trips)
  /\ UNCHANGED <<tripVars, duty, taxi, approval, timer, paid, requeued, unmatched>>

-----------------------------------------------------------------------------
(* The specification *)

Init ==
  /\ status = [t \in Trips |-> "none"]
  /\ driver = [t \in Trips |-> Nobody]
  /\ assigned = [t \in Trips |-> Nobody]
  /\ rejected = [t \in Trips |-> {}]
  /\ duty \in [Drivers -> {"online", "offline"}]
  /\ taxi = [d \in Drivers |-> "online"]
  /\ approval = [d \in Drivers |-> "approved"]
  /\ timer = [t \in Trips |-> NoSlot]
  /\ pc = [p \in Slots |-> "idle"]
  /\ on = [p \in Slots |-> NoTrip]
  /\ by = [p \in Slots |-> Nobody]
  /\ list = [p \in Slots |-> {}]
  /\ paid = [t \in Trips |-> 0]
  /\ requeued = {} /\ unmatched = {} /\ broken = {} /\ stranded = {}
  /\ calls = 0 /\ faults = 0

\* The step a slot takes next on its own.
Resume(p) ==
  \/ DispatchMatching(p) \/ AssignDriver(p) \/ ArmTimer(p)
  \/ TimerFires(p) \/ TimerReads(p) \/ RejectClearsTimer(p)
  \/ WriteRejected(p) \/ FindNext(p) \/ MarkNoDriver(p)
  \/ AcceptWrites(p) \/ TakeTaxi(p) \/ StartWrites(p) \/ ArriveWrites(p)
  \/ RequeueWrites(p) \/ CompleteWrites(p) \/ Settle(p)
  \/ CancelWrites(p) \/ FreeTaxi(p)
  \/ DutyOn(p) \/ TaxiOn(p) \/ TaxiOff(p) \/ ResetTaxis(p)

\* The calls of passengers, drivers and administrators.
Request(p) ==
  \/ \E t \in Trips : CreateTrip(p, t) \/ CancelTrip(p, t) \/ AdminCancelTrip(p, t)
  \/ \E t \in Trips, d \in Drivers :
       \/ RejectTrip(p, t, d) \/ AcceptTrip(p, t, d) \/ StartTrip(p, t, d)
       \/ ArriveTrip(p, t, d) \/ RequeueTrip(p, t, d) \/ CompleteTrip(p, t, d)
  \/ \E d \in Drivers : GoOnline(p, d) \/ GoOffline(p, d)
  \/ DeleteAllTrips(p)

Next ==
  \/ \E p \in Slots : Resume(p) \/ Request(p) \/ CallFails(p)
  \/ \E d \in Drivers : Disconnect(d)
  \/ \E d \in Drivers, v \in {"approved", "rejected", "suspended"} : Rule(d, v)
  \/ AutoFixTaxis
  \/ Restart

\* Node.js runs every callback that is ready and every timer that is due.
Fairness == \A p \in Slots : WF_vars(Resume(p))

Spec == Init /\ [][Next]_vars
FairSpec == Spec /\ Fairness

-----------------------------------------------------------------------------
(* Properties *)

\* Every column and every slot holds a value the code can put there.
TypeOK ==
  /\ status \in [Trips -> TripStatus]
  /\ driver \in [Trips -> Drivers \cup {Nobody}]
  /\ assigned \in [Trips -> Drivers \cup {Nobody}]
  /\ rejected \in [Trips -> SUBSET Drivers]
  /\ duty \in [Drivers -> {"online", "offline"}]
  /\ taxi \in [Drivers -> {"online", "busy", "offline"}]
  /\ approval \in [Drivers -> {"approved", "rejected", "suspended"}]
  /\ timer \in [Trips -> Slots \cup {NoSlot}]
  /\ pc \in [Slots -> Steps]
  /\ on \in [Slots -> Trips \cup {NoTrip}]
  /\ by \in [Slots -> Drivers \cup {Nobody}]
  /\ list \in [Slots -> SUBSET Drivers]
  /\ paid \in [Trips -> Nat]
  /\ requeued \subseteq Trips /\ unmatched \subseteq Trips /\ broken \subseteq Trips
  /\ stranded \subseteq Drivers
  /\ calls \in Nat /\ faults \in Nat
  /\ \A p \in Slots : pc[p] \in SearchSteps \cup RideSteps \cup {"free"} => on[p] \in Trips
  /\ \A p \in Slots :
       pc[p] \in {"send", "arm", "armed", "fired", "accept", "busy", "start",
                  "complete", "settle", "arrived", "requeue", "free",
                  "online1", "online2", "offline2", "rejecting"}
         => by[p] \in Drivers

\* A trip somebody drives or has driven has a driver, however the unguarded
\* status updates of its lifecycle interleave.
DrivenHasDriver ==
  \A t \in Trips : status[t] \in DrivenStatuses => driver[t] # Nobody

\* Where a request acts for the driver it has read, accepted for or checked.
ActsForDriver(p) ==
  pc[p] \in (RideSteps \ {"accept"}) \cup {"free"} /\ by[p] # Nobody

\* assignedDriverPolicy is asked, and a cancellation reads whose taxi it is to
\* free, on a row read some awaits before the writes; whatever has happened in
\* between, unless the trip was put back in the queue, the trip is still that
\* driver's when they are made, and so is the taxi that is taken or freed.
CheckedDriverStays ==
  \A p \in Slots :
    ActsForDriver(p) /\ on[p] \notin requeued => driver[on[p]] = by[p]

\* The atomic acceptance: unless its driver puts the trip back in the queue,
\* the first driver to win a trip stays its driver for ever, although several
\* drivers may be between reading "waiting_driver" and writing "accepted".
FirstWinnerStays ==
  [][\A t \in Trips : driver[t] # Nobody /\ t \notin requeued =>
       driver'[t] = driver[t]]_vars

\* No request is forgotten: while a trip waits for a driver, one of its timers
\* or search handlers is alive -- whichever timers overwrite each other in
\* tripTimers and whoever clears them -- unless its first search found nobody,
\* a fault struck, or its driver put it back in the queue.
SearchIsAlive ==
  \A t \in Trips :
    status[t] = "waiting_driver" /\ t \notin (requeued \cup unmatched \cup broken)
      => \E p \in Slots : on[p] = t /\ pc[p] \in SearchSteps

\* A busy taxi is busy for somebody: its driver has an active trip, or the
\* request that ended the trip has still to free the taxi, a failed settlement
\* notwithstanding.  Only the events that put a driver in "stranded" leave a
\* taxi to the hourly repair: an acceptance overtaken by the end of its trip
\* before the taxi is taken, a ride ended by no_driver, by its own driver
\* putting it back or by a request that read another driver, and a restart or
\* a failed write that loses the request about to free the taxi.
BusyTaxiHasTrip ==
  \A d \in Drivers : taxi[d] = "busy" =>
    OnTrip(d) \/ d \in stranded \/ \E p \in Slots : Freeing(p, d)

\* Refuted by the code.  What DATABASE_SCHEMA.md says of waiting_driver, "the
\* system is searching for a driver", with no exception.  The code leaves a trip whose first search
\* found nobody, or that a restart caught, waiting with no search.
WaitingIsSearched ==
  \A t \in Trips :
    status[t] = "waiting_driver" =>
      \E p \in Slots : on[p] = t /\ pc[p] \in SearchSteps

\* What ADR-001 says is implemented: completing and paying is one idempotent
\* unit, a double completion takes one payment.  completeTrip has no guard on
\* the status, so two completions that have both read the row both settle.
PaidOnce == \A t \in Trips : paid[t] <= 1

\* Refuted by the code.  What the comment on sendRequestToDriver says: the search moves on only if the
\* driver did not accept.  A timer that read waiting_driver before the
\* acceptance goes on and writes no_driver over it.
AcceptedIsKept ==
  [][\A t \in Trips : status[t] \in ActiveStatuses =>
       status'[t] # "no_driver"]_vars

\* Three searches of one trip at once, which overwrite each other's list.
Crowded(t) == Cardinality({p \in Slots : on[p] = t /\ pc[p] \in SearchSteps}) > 2

\* A waiting trip whose search has begun is eventually answered one way or the
\* other, timers, rejections and a second search beside the first
\* notwithstanding.  Three searches that overlap again and again can undo each
\* other's rejected_drivers for ever and ask the same drivers in turn.
SearchEnds ==
  \A t \in Trips :
    []<>(\/ status[t] # "waiting_driver"
         \/ t \in requeued \cup unmatched \cup broken
         \/ Crowded(t))
=============================================================================
