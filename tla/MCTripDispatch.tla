--------------------------- MODULE MCTripDispatch ---------------------------
(* Small instances of TripDispatch for TLC. *)
EXTENDS TripDispatch, TLC

\* Drivers, slots and trips are interchangeable.
Symmetry == Permutations(Drivers) \cup Permutations(Slots) \cup Permutations(Trips)

\* What the actions and the properties of dispatch_safety depend on: of the map
\* only the timers that clearTimer could still stop, and neither assigned nor
\* paid, which no guard and none of these properties reads.
View == <<status, driver, rejected, fleetVars, slotVars, searchHist, calls, faults,
          [t \in Trips |-> Remembered(t)]>>
=============================================================================
