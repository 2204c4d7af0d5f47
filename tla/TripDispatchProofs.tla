------------------------- MODULE TripDispatchProofs -------------------------
(* What holds of TripDispatch for any number of trips, drivers and slots. *)
EXTENDS TripDispatch, TLAPS

USE DEF tripVars, fleetVars, slotVars, searchHist

(* Type correctness: every action keeps every column and slot well formed. *)
LEMMA TypeStep ==
  ASSUME TypeOK, [Next]_vars
  PROVE  TypeOK'
<1> USE DispatchAssumption
<1> USE DEF TypeOK, Begin, Goto, Release, Return, Remembered, SetStatus, Exists,
            BusyFor, LeftBusy, Steps, SearchSteps, RideSteps, FleetSteps, TripStatus
<1>1. ASSUME NEW p \in Slots, DispatchMatching(p)
      PROVE  TypeOK'
  BY <1>1, SMTT(30) DEF DispatchMatching, Available
<1>2. ASSUME NEW p \in Slots, AssignDriver(p)
      PROVE  TypeOK'
  BY <1>2, SMTT(30) DEF AssignDriver
<1>3. ASSUME NEW p \in Slots, ArmTimer(p)
      PROVE  TypeOK'
  BY <1>3, SMTT(30) DEF ArmTimer
<1>4. ASSUME NEW p \in Slots, TimerFires(p)
      PROVE  TypeOK'
  BY <1>4, SMTT(30) DEF TimerFires
<1>5. ASSUME NEW p \in Slots, TimerReads(p)
      PROVE  TypeOK'
  BY <1>5, SMTT(30) DEF TimerReads
<1>6. ASSUME NEW p \in Slots, RejectClearsTimer(p)
      PROVE  TypeOK'
  BY <1>6, SMTT(30) DEF RejectClearsTimer
<1>7. ASSUME NEW p \in Slots, WriteRejected(p)
      PROVE  TypeOK'
  BY <1>7, SMTT(30) DEF WriteRejected
<1>8. ASSUME NEW p \in Slots, FindNext(p)
      PROVE  TypeOK'
  BY <1>8, SMTT(30) DEF FindNext, Available
<1>9. ASSUME NEW p \in Slots, MarkNoDriver(p)
      PROVE  TypeOK'
  BY <1>9, SMTT(30) DEF MarkNoDriver
<1>10. ASSUME NEW p \in Slots, AcceptWrites(p)
      PROVE  TypeOK'
  BY <1>10, SMTT(30) DEF AcceptWrites
<1>11. ASSUME NEW p \in Slots, TakeTaxi(p)
      PROVE  TypeOK'
  BY <1>11, SMTT(30) DEF TakeTaxi
<1>12. ASSUME NEW p \in Slots, StartWrites(p)
      PROVE  TypeOK'
  BY <1>12, SMTT(30) DEF StartWrites
<1>13. ASSUME NEW p \in Slots, ArriveWrites(p)
      PROVE  TypeOK'
  BY <1>13, SMTT(30) DEF ArriveWrites
<1>14. ASSUME NEW p \in Slots, RequeueWrites(p)
      PROVE  TypeOK'
  BY <1>14, SMTT(30) DEF RequeueWrites
<1>15. ASSUME NEW p \in Slots, CompleteWrites(p)
      PROVE  TypeOK'
  BY <1>15, SMTT(30) DEF CompleteWrites
<1>16. ASSUME NEW p \in Slots, Settle(p)
      PROVE  TypeOK'
  BY <1>16, SMTT(30) DEF Settle
<1>17. ASSUME NEW p \in Slots, CancelWrites(p)
      PROVE  TypeOK'
  BY <1>17, SMTT(30) DEF CancelWrites
<1>18. ASSUME NEW p \in Slots, FreeTaxi(p)
      PROVE  TypeOK'
  BY <1>18, SMTT(30) DEF FreeTaxi
<1>19. ASSUME NEW p \in Slots, DutyOn(p)
      PROVE  TypeOK'
  BY <1>19, SMTT(30) DEF DutyOn
<1>20. ASSUME NEW p \in Slots, TaxiOn(p)
      PROVE  TypeOK'
  BY <1>20, SMTT(30) DEF TaxiOn
<1>21. ASSUME NEW p \in Slots, TaxiOff(p)
      PROVE  TypeOK'
  BY <1>21, SMTT(30) DEF TaxiOff
<1>22. ASSUME NEW p \in Slots, ResetTaxis(p)
      PROVE  TypeOK'
  BY <1>22, SMTT(30) DEF ResetTaxis
<1>23. ASSUME NEW p \in Slots, NEW t \in Trips, CreateTrip(p, t)
      PROVE  TypeOK'
  BY <1>23, SMTT(30) DEF CreateTrip
<1>24. ASSUME NEW p \in Slots, NEW t \in Trips, CancelTrip(p, t)
      PROVE  TypeOK'
  BY <1>24, SMTT(30) DEF CancelTrip, CancellableStatuses
<1>25. ASSUME NEW p \in Slots, NEW t \in Trips, AdminCancelTrip(p, t)
      PROVE  TypeOK'
  BY <1>25, SMTT(30) DEF AdminCancelTrip
<1>26. ASSUME NEW p \in Slots, NEW t \in Trips, NEW d \in Drivers,
             RejectTrip(p, t, d)
      PROVE  TypeOK'
  BY <1>26, SMTT(30) DEF RejectTrip
<1>27. ASSUME NEW p \in Slots, NEW t \in Trips, NEW d \in Drivers,
             AcceptTrip(p, t, d)
      PROVE  TypeOK'
  BY <1>27, SMTT(30) DEF AcceptTrip
<1>28. ASSUME NEW p \in Slots, NEW t \in Trips, NEW d \in Drivers,
             StartTrip(p, t, d)
      PROVE  TypeOK'
  BY <1>28, SMTT(30) DEF StartTrip, DriverUpdates
<1>29. ASSUME NEW p \in Slots, NEW t \in Trips, NEW d \in Drivers,
             ArriveTrip(p, t, d)
      PROVE  TypeOK'
  BY <1>29, SMTT(30) DEF ArriveTrip, DriverUpdates
<1>30. ASSUME NEW p \in Slots, NEW t \in Trips, NEW d \in Drivers,
             RequeueTrip(p, t, d)
      PROVE  TypeOK'
  BY <1>30, SMTT(30) DEF RequeueTrip, DriverUpdates
<1>31. ASSUME NEW p \in Slots, NEW t \in Trips, NEW d \in Drivers,
             CompleteTrip(p, t, d)
      PROVE  TypeOK'
  BY <1>31, SMTT(30) DEF CompleteTrip, DriverUpdates
<1>32. ASSUME NEW p \in Slots, NEW d \in Drivers, GoOnline(p, d)
      PROVE  TypeOK'
  BY <1>32, SMTT(30) DEF GoOnline
<1>33. ASSUME NEW p \in Slots, NEW d \in Drivers, GoOffline(p, d)
      PROVE  TypeOK'
  BY <1>33, SMTT(30) DEF GoOffline
<1>34. ASSUME NEW p \in Slots, CallFails(p)
      PROVE  TypeOK'
  BY <1>34, SMTT(30) DEF CallFails
<1>35. ASSUME NEW p \in Slots, DeleteAllTrips(p)
      PROVE  TypeOK'
  BY <1>35, SMTT(30) DEF DeleteAllTrips
<1>36. ASSUME NEW d \in Drivers, Disconnect(d)
      PROVE  TypeOK'
  BY <1>36, SMTT(30) DEF Disconnect
<1>37. ASSUME NEW d \in Drivers,
             NEW v \in {"approved", "rejected", "suspended"}, Rule(d, v)
      PROVE  TypeOK'
  BY <1>37, SMTT(30) DEF Rule
<1>38. ASSUME AutoFixTaxis
      PROVE  TypeOK'
  BY <1>38, SMTT(30) DEF AutoFixTaxis
<1>39. ASSUME Restart
      PROVE  TypeOK'
  BY <1>39, SMTT(30) DEF Restart
<1>40. CASE UNCHANGED vars
  BY <1>40 DEF vars
<1> HIDE DEF TypeOK
<1> QED
  BY <1>1, <1>2, <1>3, <1>4, <1>5, <1>6, <1>7, <1>8, <1>9, <1>10, <1>11,
     <1>12, <1>13, <1>14, <1>15, <1>16, <1>17, <1>18, <1>19, <1>20, <1>21,
     <1>22, <1>23, <1>24, <1>25, <1>26, <1>27, <1>28, <1>29, <1>30, <1>31,
     <1>32, <1>33, <1>34, <1>35, <1>36, <1>37, <1>38, <1>39, <1>40 DEF Next,
     Resume, Request

-----------------------------------------------------------------------------
(* The facts about a trip's driver that are inductive together: a trip not   *)
(* yet requested has none, a handler past assignedDriverPolicy or past a won *)
(* acceptance is about a trip that has one, and a trip with a driver waits   *)
(* only if that driver put it back.                                          *)

FreshHasNoDriver == \A t \in Trips : status[t] = "none" => driver[t] = Nobody

HolderHasDriver ==
  \A p \in Slots :
    pc[p] \in {"busy", "start", "complete", "settle", "arrived", "requeue"}
      => driver[on[p]] # Nobody

WonIsNotWaiting ==
  \A t \in Trips : driver[t] # Nobody /\ t \notin requeued
                      => status[t] # "waiting_driver"

DriverInv ==
  FreshHasNoDriver /\ HolderHasDriver /\ WonIsNotWaiting /\ DrivenHasDriver

LEMMA DriverStep ==
  ASSUME TypeOK, DriverInv, [Next]_vars
  PROVE  DriverInv'
<1> USE DispatchAssumption
<1> USE DEF TypeOK, DriverInv, FreshHasNoDriver, HolderHasDriver, WonIsNotWaiting,
            DrivenHasDriver, DrivenStatuses, ActiveStatuses, Begin, Goto, Release,
            Return, Remembered, SetStatus, Exists, Steps, SearchSteps, RideSteps,
            FleetSteps, TripStatus
<1>1. ASSUME NEW p \in Slots, DispatchMatching(p)
      PROVE  DriverInv'
  BY <1>1, SMTT(30) DEF DispatchMatching
<1>2. ASSUME NEW p \in Slots, AssignDriver(p)
      PROVE  DriverInv'
  BY <1>2, SMTT(30) DEF AssignDriver
<1>3. ASSUME NEW p \in Slots, ArmTimer(p)
      PROVE  DriverInv'
  BY <1>3, SMTT(30) DEF ArmTimer
<1>4. ASSUME NEW p \in Slots, TimerFires(p)
      PROVE  DriverInv'
  BY <1>4, SMTT(30) DEF TimerFires
<1>5. ASSUME NEW p \in Slots, TimerReads(p)
      PROVE  DriverInv'
  BY <1>5, SMTT(30) DEF TimerReads
<1>6. ASSUME NEW p \in Slots, RejectClearsTimer(p)
      PROVE  DriverInv'
  BY <1>6, SMTT(30) DEF RejectClearsTimer
<1>7. ASSUME NEW p \in Slots, WriteRejected(p)
      PROVE  DriverInv'
  BY <1>7, SMTT(30) DEF WriteRejected
<1>8. ASSUME NEW p \in Slots, FindNext(p)
      PROVE  DriverInv'
  BY <1>8, SMTT(30) DEF FindNext
<1>9. ASSUME NEW p \in Slots, MarkNoDriver(p)
      PROVE  DriverInv'
  BY <1>9, SMTT(30) DEF MarkNoDriver
<1>10. ASSUME NEW p \in Slots, AcceptWrites(p)
      PROVE  DriverInv'
  BY <1>10, SMTT(30) DEF AcceptWrites
<1>11. ASSUME NEW p \in Slots, TakeTaxi(p)
      PROVE  DriverInv'
  BY <1>11, SMTT(30) DEF TakeTaxi
<1>12. ASSUME NEW p \in Slots, StartWrites(p)
      PROVE  DriverInv'
  BY <1>12, SMTT(30) DEF StartWrites
<1>13. ASSUME NEW p \in Slots, ArriveWrites(p)
      PROVE  DriverInv'
  BY <1>13, SMTT(30) DEF ArriveWrites
<1>14. ASSUME NEW p \in Slots, RequeueWrites(p)
      PROVE  DriverInv'
  BY <1>14, SMTT(30) DEF RequeueWrites
<1>15. ASSUME NEW p \in Slots, CompleteWrites(p)
      PROVE  DriverInv'
  BY <1>15, SMTT(30) DEF CompleteWrites
<1>16. ASSUME NEW p \in Slots, Settle(p)
      PROVE  DriverInv'
  BY <1>16, SMTT(30) DEF Settle
<1>17. ASSUME NEW p \in Slots, CancelWrites(p)
      PROVE  DriverInv'
  BY <1>17, SMTT(30) DEF CancelWrites
<1>18. ASSUME NEW p \in Slots, FreeTaxi(p)
      PROVE  DriverInv'
  BY <1>18, SMTT(30) DEF FreeTaxi
<1>19. ASSUME NEW p \in Slots, DutyOn(p)
      PROVE  DriverInv'
  BY <1>19, SMTT(30) DEF DutyOn
<1>20. ASSUME NEW p \in Slots, TaxiOn(p)
      PROVE  DriverInv'
  BY <1>20, SMTT(30) DEF TaxiOn
<1>21. ASSUME NEW p \in Slots, TaxiOff(p)
      PROVE  DriverInv'
  BY <1>21, SMTT(30) DEF TaxiOff
<1>22. ASSUME NEW p \in Slots, ResetTaxis(p)
      PROVE  DriverInv'
  BY <1>22, SMTT(30) DEF ResetTaxis
<1>23. ASSUME NEW p \in Slots, NEW t \in Trips, CreateTrip(p, t)
      PROVE  DriverInv'
  BY <1>23, SMTT(30) DEF CreateTrip
<1>24. ASSUME NEW p \in Slots, NEW t \in Trips, CancelTrip(p, t)
      PROVE  DriverInv'
  BY <1>24, SMTT(30) DEF CancelTrip
<1>25. ASSUME NEW p \in Slots, NEW t \in Trips, AdminCancelTrip(p, t)
      PROVE  DriverInv'
  BY <1>25, SMTT(30) DEF AdminCancelTrip
<1>26. ASSUME NEW p \in Slots, NEW t \in Trips, NEW d \in Drivers,
             RejectTrip(p, t, d)
      PROVE  DriverInv'
  BY <1>26, SMTT(30) DEF RejectTrip
<1>27. ASSUME NEW p \in Slots, NEW t \in Trips, NEW d \in Drivers,
             AcceptTrip(p, t, d)
      PROVE  DriverInv'
  BY <1>27, SMTT(30) DEF AcceptTrip
<1>28. ASSUME NEW p \in Slots, NEW t \in Trips, NEW d \in Drivers,
             StartTrip(p, t, d)
      PROVE  DriverInv'
  BY <1>28, SMTT(30) DEF StartTrip, DriverUpdates
<1>29. ASSUME NEW p \in Slots, NEW t \in Trips, NEW d \in Drivers,
             ArriveTrip(p, t, d)
      PROVE  DriverInv'
  BY <1>29, SMTT(30) DEF ArriveTrip, DriverUpdates
<1>30. ASSUME NEW p \in Slots, NEW t \in Trips, NEW d \in Drivers,
             RequeueTrip(p, t, d)
      PROVE  DriverInv'
  BY <1>30, SMTT(30) DEF RequeueTrip, DriverUpdates
<1>31. ASSUME NEW p \in Slots, NEW t \in Trips, NEW d \in Drivers,
             CompleteTrip(p, t, d)
      PROVE  DriverInv'
  BY <1>31, SMTT(30) DEF CompleteTrip, DriverUpdates
<1>32. ASSUME NEW p \in Slots, NEW d \in Drivers, GoOnline(p, d)
      PROVE  DriverInv'
  BY <1>32, SMTT(30) DEF GoOnline
<1>33. ASSUME NEW p \in Slots, NEW d \in Drivers, GoOffline(p, d)
      PROVE  DriverInv'
  BY <1>33, SMTT(30) DEF GoOffline
<1>34. ASSUME NEW p \in Slots, CallFails(p)
      PROVE  DriverInv'
  BY <1>34, SMTT(30) DEF CallFails
<1>35. ASSUME NEW p \in Slots, DeleteAllTrips(p)
      PROVE  DriverInv'
  BY <1>35, SMTT(30) DEF DeleteAllTrips
<1>36. ASSUME NEW d \in Drivers, Disconnect(d)
      PROVE  DriverInv'
  BY <1>36, SMTT(30) DEF Disconnect
<1>37. ASSUME NEW d \in Drivers,
             NEW v \in {"approved", "rejected", "suspended"}, Rule(d, v)
      PROVE  DriverInv'
  BY <1>37, SMTT(30) DEF Rule
<1>38. ASSUME AutoFixTaxis
      PROVE  DriverInv'
  BY <1>38, SMTT(30) DEF AutoFixTaxis
<1>39. ASSUME Restart
      PROVE  DriverInv'
  BY <1>39, SMTT(30) DEF Restart
<1>40. CASE UNCHANGED vars
  BY <1>40 DEF vars
<1> HIDE DEF DriverInv
<1> QED
  BY <1>1, <1>2, <1>3, <1>4, <1>5, <1>6, <1>7, <1>8, <1>9, <1>10, <1>11,
     <1>12, <1>13, <1>14, <1>15, <1>16, <1>17, <1>18, <1>19, <1>20, <1>21,
     <1>22, <1>23, <1>24, <1>25, <1>26, <1>27, <1>28, <1>29, <1>30, <1>31,
     <1>32, <1>33, <1>34, <1>35, <1>36, <1>37, <1>38, <1>39, <1>40 DEF Next,
     Resume, Request

(* The search of a waiting trip survives every step. *)
LEMMA SearchStep ==
  ASSUME TypeOK, DriverInv, SearchIsAlive, [Next]_vars
  PROVE  SearchIsAlive'
<1> USE DispatchAssumption
<1> USE DEF TypeOK, DriverInv, HolderHasDriver, WonIsNotWaiting,
            SearchIsAlive, Begin, Goto, Release, Return, Remembered, SetStatus,
            Exists, Steps, SearchSteps, RideSteps, FleetSteps, TripStatus
<1>1. ASSUME NEW p \in Slots, DispatchMatching(p)
      PROVE  SearchIsAlive'
  BY <1>1, SMTT(30) DEF DispatchMatching
<1>2. ASSUME NEW p \in Slots, AssignDriver(p)
      PROVE  SearchIsAlive'
  BY <1>2, SMTT(30) DEF AssignDriver
<1>3. ASSUME NEW p \in Slots, ArmTimer(p)
      PROVE  SearchIsAlive'
  BY <1>3, SMTT(30) DEF ArmTimer
<1>4. ASSUME NEW p \in Slots, TimerFires(p)
      PROVE  SearchIsAlive'
  BY <1>4, SMTT(30) DEF TimerFires
<1>5. ASSUME NEW p \in Slots, TimerReads(p)
      PROVE  SearchIsAlive'
  BY <1>5, SMTT(30) DEF TimerReads
<1>6. ASSUME NEW p \in Slots, RejectClearsTimer(p)
      PROVE  SearchIsAlive'
  BY <1>6, SMTT(30) DEF RejectClearsTimer
<1>7. ASSUME NEW p \in Slots, WriteRejected(p)
      PROVE  SearchIsAlive'
  BY <1>7, SMTT(30) DEF WriteRejected
<1>8. ASSUME NEW p \in Slots, FindNext(p)
      PROVE  SearchIsAlive'
  BY <1>8, SMTT(30) DEF FindNext
<1>9. ASSUME NEW p \in Slots, MarkNoDriver(p)
      PROVE  SearchIsAlive'
  BY <1>9, SMTT(30) DEF MarkNoDriver
<1>10. ASSUME NEW p \in Slots, AcceptWrites(p)
      PROVE  SearchIsAlive'
  BY <1>10, SMTT(30) DEF AcceptWrites
<1>11. ASSUME NEW p \in Slots, TakeTaxi(p)
      PROVE  SearchIsAlive'
  BY <1>11, SMTT(30) DEF TakeTaxi
<1>12. ASSUME NEW p \in Slots, StartWrites(p)
      PROVE  SearchIsAlive'
  BY <1>12, SMTT(30) DEF StartWrites
<1>13. ASSUME NEW p \in Slots, ArriveWrites(p)
      PROVE  SearchIsAlive'
  BY <1>13, SMTT(30) DEF ArriveWrites
<1>14. ASSUME NEW p \in Slots, RequeueWrites(p)
      PROVE  SearchIsAlive'
  BY <1>14, SMTT(30) DEF RequeueWrites
<1>15. ASSUME NEW p \in Slots, CompleteWrites(p)
      PROVE  SearchIsAlive'
  BY <1>15, SMTT(30) DEF CompleteWrites
<1>16. ASSUME NEW p \in Slots, Settle(p)
      PROVE  SearchIsAlive'
  BY <1>16, SMTT(30) DEF Settle
<1>17. ASSUME NEW p \in Slots, CancelWrites(p)
      PROVE  SearchIsAlive'
  BY <1>17, SMTT(30) DEF CancelWrites
<1>18. ASSUME NEW p \in Slots, FreeTaxi(p)
      PROVE  SearchIsAlive'
  BY <1>18, SMTT(30) DEF FreeTaxi
<1>19. ASSUME NEW p \in Slots, DutyOn(p)
      PROVE  SearchIsAlive'
  BY <1>19, SMTT(30) DEF DutyOn
<1>20. ASSUME NEW p \in Slots, TaxiOn(p)
      PROVE  SearchIsAlive'
  BY <1>20, SMTT(30) DEF TaxiOn
<1>21. ASSUME NEW p \in Slots, TaxiOff(p)
      PROVE  SearchIsAlive'
  BY <1>21, SMTT(30) DEF TaxiOff
<1>22. ASSUME NEW p \in Slots, ResetTaxis(p)
      PROVE  SearchIsAlive'
  BY <1>22, SMTT(30) DEF ResetTaxis
<1>23. ASSUME NEW p \in Slots, NEW t \in Trips, CreateTrip(p, t)
      PROVE  SearchIsAlive'
  BY <1>23, SMTT(30) DEF CreateTrip
<1>24. ASSUME NEW p \in Slots, NEW t \in Trips, CancelTrip(p, t)
      PROVE  SearchIsAlive'
  BY <1>24, SMTT(30) DEF CancelTrip
<1>25. ASSUME NEW p \in Slots, NEW t \in Trips, AdminCancelTrip(p, t)
      PROVE  SearchIsAlive'
  BY <1>25, SMTT(30) DEF AdminCancelTrip
<1>26. ASSUME NEW p \in Slots, NEW t \in Trips, NEW d \in Drivers,
             RejectTrip(p, t, d)
      PROVE  SearchIsAlive'
  BY <1>26, SMTT(30) DEF RejectTrip
<1>27. ASSUME NEW p \in Slots, NEW t \in Trips, NEW d \in Drivers,
             AcceptTrip(p, t, d)
      PROVE  SearchIsAlive'
  BY <1>27, SMTT(30) DEF AcceptTrip
<1>28. ASSUME NEW p \in Slots, NEW t \in Trips, NEW d \in Drivers,
             StartTrip(p, t, d)
      PROVE  SearchIsAlive'
  BY <1>28, SMTT(30) DEF StartTrip, DriverUpdates
<1>29. ASSUME NEW p \in Slots, NEW t \in Trips, NEW d \in Drivers,
             ArriveTrip(p, t, d)
      PROVE  SearchIsAlive'
  BY <1>29, SMTT(30) DEF ArriveTrip, DriverUpdates
<1>30. ASSUME NEW p \in Slots, NEW t \in Trips, NEW d \in Drivers,
             RequeueTrip(p, t, d)
      PROVE  SearchIsAlive'
  BY <1>30, SMTT(30) DEF RequeueTrip, DriverUpdates
<1>31. ASSUME NEW p \in Slots, NEW t \in Trips, NEW d \in Drivers,
             CompleteTrip(p, t, d)
      PROVE  SearchIsAlive'
  BY <1>31, SMTT(30) DEF CompleteTrip, DriverUpdates
<1>32. ASSUME NEW p \in Slots, NEW d \in Drivers, GoOnline(p, d)
      PROVE  SearchIsAlive'
  BY <1>32, SMTT(30) DEF GoOnline
<1>33. ASSUME NEW p \in Slots, NEW d \in Drivers, GoOffline(p, d)
      PROVE  SearchIsAlive'
  BY <1>33, SMTT(30) DEF GoOffline
<1>34. ASSUME NEW p \in Slots, CallFails(p)
      PROVE  SearchIsAlive'
  BY <1>34, SMTT(30) DEF CallFails
<1>35. ASSUME NEW p \in Slots, DeleteAllTrips(p)
      PROVE  SearchIsAlive'
  BY <1>35, SMTT(30) DEF DeleteAllTrips
<1>36. ASSUME NEW d \in Drivers, Disconnect(d)
      PROVE  SearchIsAlive'
  BY <1>36, SMTT(30) DEF Disconnect
<1>37. ASSUME NEW d \in Drivers,
             NEW v \in {"approved", "rejected", "suspended"}, Rule(d, v)
      PROVE  SearchIsAlive'
  BY <1>37, SMTT(30) DEF Rule
<1>38. ASSUME AutoFixTaxis
      PROVE  SearchIsAlive'
  BY <1>38, SMTT(30) DEF AutoFixTaxis
<1>39. ASSUME Restart
      PROVE  SearchIsAlive'
  BY <1>39, SMTT(30) DEF Restart
<1>40. CASE UNCHANGED vars
  BY <1>40 DEF vars
<1> HIDE DEF SearchIsAlive
<1> QED
  BY <1>1, <1>2, <1>3, <1>4, <1>5, <1>6, <1>7, <1>8, <1>9, <1>10, <1>11,
     <1>12, <1>13, <1>14, <1>15, <1>16, <1>17, <1>18, <1>19, <1>20, <1>21,
     <1>22, <1>23, <1>24, <1>25, <1>26, <1>27, <1>28, <1>29, <1>30, <1>31,
     <1>32, <1>33, <1>34, <1>35, <1>36, <1>37, <1>38, <1>39, <1>40 DEF Next,
     Resume, Request

(* Whoever ends a ride of a busy taxi frees the taxi, or leaves it to the     *)
(* repair for one of the reasons that put its driver in stranded.             *)
LEMMA BusyStep ==
  ASSUME TypeOK, BusyTaxiHasTrip, [Next]_vars
  PROVE  BusyTaxiHasTrip'
<1> USE DispatchAssumption
<1> USE DEF TypeOK, BusyTaxiHasTrip, OnTrip, Rides, ActiveStatuses, BusyFor, Freeing,
            LeftBusy, Begin, Goto, Release, Return, Remembered, SetStatus, Exists, Steps,
            SearchSteps, RideSteps, FleetSteps
<1>1. ASSUME NEW p \in Slots, DispatchMatching(p)
      PROVE  BusyTaxiHasTrip'
  BY <1>1, SMTT(30) DEF DispatchMatching
<1>2. ASSUME NEW p \in Slots, AssignDriver(p)
      PROVE  BusyTaxiHasTrip'
  BY <1>2, SMTT(30) DEF AssignDriver
<1>3. ASSUME NEW p \in Slots, ArmTimer(p)
      PROVE  BusyTaxiHasTrip'
  BY <1>3, SMTT(30) DEF ArmTimer
<1>4. ASSUME NEW p \in Slots, TimerFires(p)
      PROVE  BusyTaxiHasTrip'
  BY <1>4, SMTT(30) DEF TimerFires
<1>5. ASSUME NEW p \in Slots, TimerReads(p)
      PROVE  BusyTaxiHasTrip'
  BY <1>5, SMTT(30) DEF TimerReads
<1>6. ASSUME NEW p \in Slots, RejectClearsTimer(p)
      PROVE  BusyTaxiHasTrip'
  BY <1>6, SMTT(30) DEF RejectClearsTimer
<1>7. ASSUME NEW p \in Slots, WriteRejected(p)
      PROVE  BusyTaxiHasTrip'
  BY <1>7, SMTT(30) DEF WriteRejected
<1>8. ASSUME NEW p \in Slots, FindNext(p)
      PROVE  BusyTaxiHasTrip'
  BY <1>8, SMTT(30) DEF FindNext
<1>9. ASSUME NEW p \in Slots, MarkNoDriver(p)
      PROVE  BusyTaxiHasTrip'
  BY <1>9, SMTT(30) DEF MarkNoDriver
<1>10. ASSUME NEW p \in Slots, AcceptWrites(p)
      PROVE  BusyTaxiHasTrip'
  BY <1>10, SMTT(30) DEF AcceptWrites
<1>11. ASSUME NEW p \in Slots, TakeTaxi(p)
      PROVE  BusyTaxiHasTrip'
  BY <1>11, SMTT(30) DEF TakeTaxi
<1>12. ASSUME NEW p \in Slots, StartWrites(p)
      PROVE  BusyTaxiHasTrip'
  BY <1>12, SMTT(30) DEF StartWrites
<1>13. ASSUME NEW p \in Slots, ArriveWrites(p)
      PROVE  BusyTaxiHasTrip'
  BY <1>13, SMTT(30) DEF ArriveWrites
<1>14. ASSUME NEW p \in Slots, RequeueWrites(p)
      PROVE  BusyTaxiHasTrip'
  BY <1>14, SMTT(30) DEF RequeueWrites
<1>15. ASSUME NEW p \in Slots, CompleteWrites(p)
      PROVE  BusyTaxiHasTrip'
  BY <1>15, SMTT(30) DEF CompleteWrites
<1>16. ASSUME NEW p \in Slots, Settle(p)
      PROVE  BusyTaxiHasTrip'
  BY <1>16, SMTT(30) DEF Settle
<1>17. ASSUME NEW p \in Slots, CancelWrites(p)
      PROVE  BusyTaxiHasTrip'
  BY <1>17, SMTT(30) DEF CancelWrites
<1>18. ASSUME NEW p \in Slots, FreeTaxi(p)
      PROVE  BusyTaxiHasTrip'
  BY <1>18, SMTT(30) DEF FreeTaxi
<1>19. ASSUME NEW p \in Slots, DutyOn(p)
      PROVE  BusyTaxiHasTrip'
  BY <1>19, SMTT(30) DEF DutyOn
<1>20. ASSUME NEW p \in Slots, TaxiOn(p)
      PROVE  BusyTaxiHasTrip'
  BY <1>20, SMTT(30) DEF TaxiOn
<1>21. ASSUME NEW p \in Slots, TaxiOff(p)
      PROVE  BusyTaxiHasTrip'
  BY <1>21, SMTT(30) DEF TaxiOff
<1>22. ASSUME NEW p \in Slots, ResetTaxis(p)
      PROVE  BusyTaxiHasTrip'
  BY <1>22, SMTT(30) DEF ResetTaxis
<1>23. ASSUME NEW p \in Slots, NEW t \in Trips, CreateTrip(p, t)
      PROVE  BusyTaxiHasTrip'
  BY <1>23, SMTT(30) DEF CreateTrip
<1>24. ASSUME NEW p \in Slots, NEW t \in Trips, CancelTrip(p, t)
      PROVE  BusyTaxiHasTrip'
  BY <1>24, SMTT(30) DEF CancelTrip
<1>25. ASSUME NEW p \in Slots, NEW t \in Trips, AdminCancelTrip(p, t)
      PROVE  BusyTaxiHasTrip'
  BY <1>25, SMTT(30) DEF AdminCancelTrip
<1>26. ASSUME NEW p \in Slots, NEW t \in Trips, NEW d \in Drivers,
             RejectTrip(p, t, d)
      PROVE  BusyTaxiHasTrip'
  BY <1>26, SMTT(30) DEF RejectTrip
<1>27. ASSUME NEW p \in Slots, NEW t \in Trips, NEW d \in Drivers,
             AcceptTrip(p, t, d)
      PROVE  BusyTaxiHasTrip'
  BY <1>27, SMTT(30) DEF AcceptTrip
<1>28. ASSUME NEW p \in Slots, NEW t \in Trips, NEW d \in Drivers,
             StartTrip(p, t, d)
      PROVE  BusyTaxiHasTrip'
  BY <1>28, SMTT(30) DEF StartTrip, DriverUpdates
<1>29. ASSUME NEW p \in Slots, NEW t \in Trips, NEW d \in Drivers,
             ArriveTrip(p, t, d)
      PROVE  BusyTaxiHasTrip'
  BY <1>29, SMTT(30) DEF ArriveTrip, DriverUpdates
<1>30. ASSUME NEW p \in Slots, NEW t \in Trips, NEW d \in Drivers,
             RequeueTrip(p, t, d)
      PROVE  BusyTaxiHasTrip'
  BY <1>30, SMTT(30) DEF RequeueTrip, DriverUpdates
<1>31. ASSUME NEW p \in Slots, NEW t \in Trips, NEW d \in Drivers,
             CompleteTrip(p, t, d)
      PROVE  BusyTaxiHasTrip'
  BY <1>31, SMTT(30) DEF CompleteTrip, DriverUpdates
<1>32. ASSUME NEW p \in Slots, NEW d \in Drivers, GoOnline(p, d)
      PROVE  BusyTaxiHasTrip'
  BY <1>32, SMTT(30) DEF GoOnline
<1>33. ASSUME NEW p \in Slots, NEW d \in Drivers, GoOffline(p, d)
      PROVE  BusyTaxiHasTrip'
  BY <1>33, SMTT(30) DEF GoOffline
<1>34. ASSUME NEW p \in Slots, CallFails(p)
      PROVE  BusyTaxiHasTrip'
  BY <1>34, SMTT(30) DEF CallFails
<1>35. ASSUME NEW p \in Slots, DeleteAllTrips(p)
      PROVE  BusyTaxiHasTrip'
  BY <1>35, SMTT(30) DEF DeleteAllTrips, Exists
<1>36. ASSUME NEW d \in Drivers, Disconnect(d)
      PROVE  BusyTaxiHasTrip'
  BY <1>36, SMTT(30) DEF Disconnect
<1>37. ASSUME NEW d \in Drivers,
             NEW v \in {"approved", "rejected", "suspended"}, Rule(d, v)
      PROVE  BusyTaxiHasTrip'
  BY <1>37, SMTT(30) DEF Rule
<1>38. ASSUME AutoFixTaxis
      PROVE  BusyTaxiHasTrip'
  BY <1>38, SMTT(30) DEF AutoFixTaxis
<1>39. ASSUME Restart
      PROVE  BusyTaxiHasTrip'
  BY <1>39, SMTT(30) DEF Restart
<1>40. CASE UNCHANGED vars
  BY <1>40 DEF vars
<1> HIDE DEF BusyTaxiHasTrip
<1> QED
  BY <1>1, <1>2, <1>3, <1>4, <1>5, <1>6, <1>7, <1>8, <1>9, <1>10, <1>11,
     <1>12, <1>13, <1>14, <1>15, <1>16, <1>17, <1>18, <1>19, <1>20, <1>21,
     <1>22, <1>23, <1>24, <1>25, <1>26, <1>27, <1>28, <1>29, <1>30, <1>31,
     <1>32, <1>33, <1>34, <1>35, <1>36, <1>37, <1>38, <1>39, <1>40 DEF Next,
     Resume, Request

(* Acceptance is the only write of driver_id, and it needs waiting_driver. *)
LEMMA WinnerStep ==
  ASSUME TypeOK, DriverInv, [Next]_vars
  PROVE  \A t \in Trips : driver[t] # Nobody /\ t \notin requeued =>
                             driver'[t] = driver[t]
<1>1. ASSUME NEW p \in Slots, AcceptWrites(p),
             NEW t \in Trips, driver[t] # Nobody, t \notin requeued
      PROVE  driver'[t] = driver[t]
  <2>1. status[t] # "waiting_driver"
    BY <1>1 DEF DriverInv, WonIsNotWaiting
  <2>2. CASE on[p] = t
    BY <2>1, <2>2, <1>1 DEF AcceptWrites
  <2>3. CASE on[p] # t
    BY <2>3, <1>1 DEF AcceptWrites, TypeOK
  <2> QED
    BY <2>2, <2>3
<1>2. ASSUME NEW p \in Slots, Resume(p), ~AcceptWrites(p)
      PROVE  UNCHANGED driver
  BY <1>2 DEF Resume, DispatchMatching, AssignDriver, ArmTimer, TimerFires,
     TimerReads, RejectClearsTimer, WriteRejected, FindNext, MarkNoDriver,
     TakeTaxi, StartWrites, ArriveWrites, RequeueWrites, CompleteWrites,
     Settle, CancelWrites, FreeTaxi, DutyOn, TaxiOn, TaxiOff, ResetTaxis
<1>3. ASSUME NEW p \in Slots, Request(p)
      PROVE  UNCHANGED driver
  BY <1>3 DEF Request, CreateTrip, CancelTrip, AdminCancelTrip, RejectTrip,
     AcceptTrip, StartTrip, ArriveTrip, RequeueTrip, CompleteTrip,
     DriverUpdates, GoOnline, GoOffline, DeleteAllTrips
<1>4. ASSUME NEW p \in Slots, CallFails(p)
      PROVE  UNCHANGED driver
  BY <1>4 DEF CallFails
<1>5. ASSUME AutoFixTaxis \/ Restart
      PROVE  UNCHANGED driver
  BY <1>5 DEF AutoFixTaxis, Restart
<1>6. ASSUME NEW d \in Drivers, Disconnect(d) \/ \E v \in {"approved", "rejected", "suspended"} : Rule(d, v)
      PROVE  UNCHANGED driver
  BY <1>6 DEF Disconnect, Rule
<1>7. CASE UNCHANGED vars
  BY <1>7 DEF vars
<1> QED
  BY <1>1, <1>2, <1>3, <1>4, <1>5, <1>6, <1>7 DEF Next

(* A slot that acts for a driver did so before, or has just read or written  *)
(* that the trip is that driver's.                                          *)
LEMMA ActorStep ==
  ASSUME TypeOK, [Next]_vars, NEW q \in Slots, ActsForDriver(q)'
  PROVE  \/ ActsForDriver(q) /\ UNCHANGED <<on[q], by[q]>>
         \/ on'[q] \in Trips /\ driver'[on'[q]] = by'[q]
<1> DEFINE Goal == \/ ActsForDriver(q) /\ UNCHANGED <<on[q], by[q]>>
                   \/ on'[q] \in Trips /\ driver'[on'[q]] = by'[q]
<1> USE DispatchAssumption
<1> USE DEF ActsForDriver, TypeOK, RideSteps, SearchSteps, Begin, Goto, Release, Return
<1>1. ASSUME NEW p \in Slots, \/ DispatchMatching(p) \/ AssignDriver(p) \/ ArmTimer(p)
                             \/ TimerFires(p) \/ TimerReads(p) \/ RejectClearsTimer(p)
                             \/ WriteRejected(p) \/ FindNext(p) \/ MarkNoDriver(p)
      PROVE  Goal
  BY <1>1, SMTT(30) DEF DispatchMatching, AssignDriver, ArmTimer, TimerFires, TimerReads,
     RejectClearsTimer, WriteRejected, FindNext, MarkNoDriver
<1>2. ASSUME NEW p \in Slots, AcceptWrites(p)
      PROVE  Goal
  BY <1>2, SMTT(30) DEF AcceptWrites
<1>3. ASSUME NEW p \in Slots, \/ TakeTaxi(p) \/ StartWrites(p) \/ ArriveWrites(p)
                             \/ RequeueWrites(p) \/ CompleteWrites(p) \/ Settle(p)
                             \/ CancelWrites(p) \/ FreeTaxi(p)
      PROVE  Goal
  BY <1>3, SMTT(30) DEF TakeTaxi, StartWrites, ArriveWrites, RequeueWrites, CompleteWrites,
     Settle, CancelWrites, FreeTaxi
<1>4. ASSUME NEW p \in Slots, DutyOn(p) \/ TaxiOn(p) \/ TaxiOff(p) \/ ResetTaxis(p)
      PROVE  Goal
  BY <1>4, SMTT(30) DEF DutyOn, TaxiOn, TaxiOff, ResetTaxis
<1>5. ASSUME NEW p \in Slots, NEW t \in Trips,
             CreateTrip(p, t) \/ CancelTrip(p, t) \/ AdminCancelTrip(p, t)
      PROVE  Goal
  BY <1>5, SMTT(30) DEF CreateTrip, CancelTrip, AdminCancelTrip
<1>6. ASSUME NEW p \in Slots, NEW t \in Trips, NEW d \in Drivers,
             \/ RejectTrip(p, t, d) \/ AcceptTrip(p, t, d) \/ StartTrip(p, t, d)
             \/ ArriveTrip(p, t, d) \/ RequeueTrip(p, t, d) \/ CompleteTrip(p, t, d)
      PROVE  Goal
  BY <1>6, SMTT(30) DEF RejectTrip, AcceptTrip, StartTrip, ArriveTrip, RequeueTrip,
     CompleteTrip, DriverUpdates
<1>7. ASSUME NEW p \in Slots, \/ \E d \in Drivers : GoOnline(p, d) \/ GoOffline(p, d)
                             \/ DeleteAllTrips(p)
      PROVE  Goal
  BY <1>7, SMTT(30) DEF GoOnline, GoOffline, DeleteAllTrips
<1>8. ASSUME NEW p \in Slots, CallFails(p)
      PROVE  Goal
  BY <1>8, SMTT(30) DEF CallFails
<1>9. ASSUME AutoFixTaxis \/ Restart
      PROVE  Goal
  BY <1>9, SMTT(30) DEF AutoFixTaxis, Restart
<1>10. ASSUME NEW d \in Drivers, Disconnect(d)
       PROVE  Goal
  BY <1>10, SMTT(30) DEF Disconnect
<1>11. ASSUME NEW d \in Drivers, NEW v \in {"approved", "rejected", "suspended"}, Rule(d, v)
       PROVE  Goal
  BY <1>11, SMTT(30) DEF Rule
<1>12. ASSUME UNCHANGED vars
       PROVE  Goal
  BY <1>12 DEF vars
<1> HIDE DEF Goal, ActsForDriver, TypeOK, Begin, Goto, Release, Return
<1>13. Goal
  BY <1>1, <1>2, <1>3, <1>4, <1>5, <1>6, <1>7, <1>8, <1>9, <1>10, <1>11, <1>12 DEF Next, Resume, Request
<1> QED
  BY <1>13 DEF Goal

(* A trip that has been put back stays in the history of those.             *)
LEMMA RequeuedStep ==
  ASSUME [Next]_vars
  PROVE  requeued \subseteq requeued'
<1>1. ASSUME NEW p \in Slots, Resume(p)
      PROVE  requeued \subseteq requeued'
  BY <1>1 DEF Resume, DispatchMatching, AssignDriver, ArmTimer, TimerFires,
     TimerReads, RejectClearsTimer, WriteRejected, FindNext, MarkNoDriver,
     AcceptWrites, TakeTaxi, StartWrites, ArriveWrites, RequeueWrites, CompleteWrites,
     Settle, CancelWrites, FreeTaxi, DutyOn, TaxiOn, TaxiOff, ResetTaxis
<1>2. ASSUME NEW p \in Slots, Request(p)
      PROVE  requeued \subseteq requeued'
  BY <1>2 DEF Request, CreateTrip, CancelTrip, AdminCancelTrip, RejectTrip,
     AcceptTrip, StartTrip, ArriveTrip, RequeueTrip, CompleteTrip,
     DriverUpdates, GoOnline, GoOffline, DeleteAllTrips
<1>3. ASSUME \/ \E p \in Slots : CallFails(p)
             \/ \E d \in Drivers : Disconnect(d)
             \/ \E d \in Drivers, v \in {"approved", "rejected", "suspended"} : Rule(d, v)
             \/ AutoFixTaxis
             \/ Restart
             \/ UNCHANGED vars
      PROVE  requeued \subseteq requeued'
  BY <1>3 DEF CallFails, Disconnect, Rule, AutoFixTaxis, Restart, vars
<1> QED
  BY <1>1, <1>2, <1>3 DEF Next

(* What a request has read about the driver of its trip stays true.         *)
LEMMA CheckedStep ==
  ASSUME TypeOK, DriverInv, CheckedDriverStays, [Next]_vars
  PROVE  CheckedDriverStays'
<1> SUFFICES ASSUME NEW q \in Slots, ActsForDriver(q)', on'[q] \notin requeued'
             PROVE  driver'[on'[q]] = by'[q]
  BY DEF CheckedDriverStays, ActsForDriver
<1>1. CASE ActsForDriver(q) /\ UNCHANGED <<on[q], by[q]>>
  <2>1. on[q] \notin requeued
    BY <1>1, RequeuedStep
  <2>2. driver[on[q]] = by[q] /\ by[q] # Nobody
    BY <1>1, <2>1 DEF CheckedDriverStays, ActsForDriver
  <2>3. on[q] \in Trips
    BY <2>2, <1>1, SMT DEF ActsForDriver, TypeOK, RideSteps
  <2>4. driver'[on[q]] = driver[on[q]]
    BY <2>1, <2>2, <2>3, WinnerStep
  <2> QED
    BY <1>1, <2>2, <2>4
<1>2. CASE on'[q] \in Trips /\ driver'[on'[q]] = by'[q]
  BY <1>2
<1> QED
  BY <1>1, <1>2, ActorStep

-----------------------------------------------------------------------------
(* The inductive invariant, and what it gives. *)

IInv == TypeOK /\ DriverInv /\ CheckedDriverStays /\ SearchIsAlive
        /\ BusyTaxiHasTrip

LEMMA InitIInv == Init => IInv
<1> SUFFICES ASSUME Init PROVE IInv
  OBVIOUS
<1> USE DispatchAssumption DEF Init
<1>1. TypeOK
  BY DEF TypeOK, Steps, SearchSteps, RideSteps, TripStatus
<1>2. BusyTaxiHasTrip
  BY DEF BusyTaxiHasTrip
<1>3. DriverInv
  BY DEF DriverInv, FreshHasNoDriver, HolderHasDriver, WonIsNotWaiting,
     DrivenHasDriver, DrivenStatuses, ActiveStatuses
<1>4. SearchIsAlive
  BY DEF SearchIsAlive
<1>5. CheckedDriverStays
  BY DEF CheckedDriverStays, ActsForDriver, RideSteps
<1> QED
  BY <1>1, <1>2, <1>3, <1>4, <1>5 DEF IInv

LEMMA StepIInv == IInv /\ [Next]_vars => IInv'
  BY TypeStep, DriverStep, CheckedStep, SearchStep, BusyStep DEF IInv

THEOREM DispatchInvariant == Spec => []IInv
  BY InitIInv, StepIInv, PTL DEF Spec

(* Columns, slots and timers keep their types for any number of trips,       *)
(* drivers and requests in flight.                                           *)
THEOREM TypeCorrect == Spec => []TypeOK
  BY DispatchInvariant, PTL DEF IInv

(* A trip that is accepted, arrived, in progress or completed has a driver.  *)
THEOREM DrivenTripsHaveDriver == Spec => []DrivenHasDriver
  BY DispatchInvariant, PTL DEF IInv, DriverInv

(* A check of the driver made on a row read earlier still holds at the writes. *)
THEOREM ChecksOutliveTheRead == Spec => []CheckedDriverStays
  BY DispatchInvariant, PTL DEF IInv

(* A waiting trip that was matched, not put back and not hit by a fault has  *)
(* a running timer or search handler.                                        *)
THEOREM NoRequestForgotten == Spec => []SearchIsAlive
  BY DispatchInvariant, PTL DEF IInv

(* A busy taxi has an active trip or a request about to free it, or is one   *)
(* of those named that wait for the hourly repair.                           *)
THEOREM BusyTaxisAreOwed == Spec => []BusyTaxiHasTrip
  BY DispatchInvariant, PTL DEF IInv

(* The first driver whose acceptance is written keeps the trip.              *)
THEOREM FirstAcceptanceWins == Spec => FirstWinnerStays
<1>1. IInv /\ [Next]_vars =>
        [\A t \in Trips : driver[t] # Nobody /\ t \notin requeued =>
                            driver'[t] = driver[t]]_vars
  BY WinnerStep DEF IInv
<1> QED
  BY <1>1, DispatchInvariant, PTL DEF Spec, FirstWinnerStays
=============================================================================
