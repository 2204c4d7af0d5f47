--------------------------- MODULE ScooterWallet ---------------------------
(***************************************************************************)
(* The scooter rental and the wallet it is paid from: unlocking, the       *)
(* end-of-ride transaction, top-ups, the settlement of a taxi fare from    *)
(* the same wallet, and the administrator's operations on scooters.        *)
(*                                                                         *)
(* A slot is one request; an action is one statement on the shared SQLite  *)
(* connection together with the code that follows it.  dbTransaction is    *)
(* what TxQueue shows it to be: one transaction at a time, undone as a     *)
(* whole, while statements of other requests run in between.  Money is     *)
(* counted in units of the smallest fare; battery, GPS and durations are   *)
(* left out, so a ride may cost any fare of Fares.                         *)
(***************************************************************************)
EXTENDS Naturals, Integers, FiniteSets

CONSTANTS
  Scooters,     \* scooter ids
  Users,        \* phones of the wallet holders
  Slots,        \* requests in flight, at most so many
  Fares,        \* what a ride may cost
  MinBalance,   \* MIN_UNLOCK_BALANCE
  Opening,      \* the balance of a new user
  TopUp,        \* the amount of a wallet charge
  MaxCalls,     \* bound: requests and administrator commands
  MaxFaults,    \* bound: failed statements and restarts
  Nobody        \* NULL

ASSUME WalletAssumption ==
  /\ Fares \subseteq Nat \ {0}
  /\ MinBalance \in Nat /\ Opening \in Nat
  /\ TopUp \in Nat \ {0}
  /\ MaxCalls \in Nat /\ MaxFaults \in Nat
  /\ Nobody \notin Users /\ Nobody \notin Slots /\ Nobody \notin Scooters

VARIABLES
  \* the database, as the connection sees it
  status,       \* scooters.status, or that there is no such row
  rider,        \* scooters.current_user_phone
  active,       \* scooter_rides: the active rides of a user on a scooter
  balance,      \* users.balance
  ledger,       \* transactions: the sum of a user's rows
  \* the connection
  holder,       \* the slot whose transaction is open
  image,        \* the database at its BEGIN
  \* the process
  pc,           \* where each slot stands
  on,           \* the scooter a slot is about
  by,           \* the user a slot acts for
  amt,          \* the money a slot carries
  \* history
  torn,         \* users whose money a fault may have left half written
  disturbed,    \* scooters whose ride changed under an end-ride in flight
  calls,        \* calls made so far
  faults        \* faults so far

db == <<status, rider, active, balance, ledger>>
slotVars == <<pc, on, by, amt>>
vars == <<status, rider, active, balance, ledger, holder, image, pc, on, by,
          amt, torn, disturbed, calls, faults>>

\* Statements of the two transactions, in order.
EndBody == {"endFree", "endRecord", "endDeduct", "endLog"}
FareBody == {"fareDeduct", "fareLog", "fareStatus"}
InTx == EndBody \cup FareBody \cup {"commit", "rollback"}
PCs == {"idle", "gate", "claim", "record", "endWait", "fareWait",
        "topAdd", "topLog"} \cup InTx

\* Users with a top-up between its credit and its ledger row.
Midway == {by[p] : p \in {q \in Slots : pc[q] = "topLog"}}

\* The end-rides that have read a scooter and not yet freed it.
Ending(s) == {p \in Slots : pc[p] \in {"endWait", "endFree"} /\ on[p] = s}

Snapshot ==
  [status |-> status, rider |-> rider, active |-> active, balance |-> balance,
   ledger |-> ledger, midway |-> Midway]

Init ==
  /\ status \in [Scooters -> {"none", "available"}]
  /\ rider = [s \in Scooters |-> Nobody]
  /\ active = [s \in Scooters |-> [u \in Users |-> 0]]
  /\ balance = [u \in Users |-> Opening]
  /\ ledger = [u \in Users |-> 0]
  /\ holder = Nobody
  /\ pc = [p \in Slots |-> "idle"]
  /\ on = [p \in Slots |-> Nobody]
  /\ by = [p \in Slots |-> Nobody]
  /\ image = Snapshot
  /\ amt = [p \in Slots |-> 0]
  /\ torn = {} /\ disturbed = {}
  /\ calls = 0 /\ faults = 0

\* A request of user u about scooter s and amount a begins at where.
Request(p, u, s, a, where) ==
  /\ pc[p] = "idle" /\ calls < MaxCalls
  /\ calls' = calls + 1
  /\ pc' = [pc EXCEPT ![p] = where]
  /\ on' = [on EXCEPT ![p] = s]
  /\ by' = [by EXCEPT ![p] = u]
  /\ amt' = [amt EXCEPT ![p] = a]

Goto(p, where) ==
  /\ pc' = [pc EXCEPT ![p] = where]
  /\ UNCHANGED <<on, by, amt>>

\* The request is answered.
Done(p) ==
  /\ pc' = [pc EXCEPT ![p] = "idle"]
  /\ on' = [on EXCEPT ![p] = Nobody]
  /\ by' = [by EXCEPT ![p] = Nobody]
  /\ amt' = [amt EXCEPT ![p] = 0]

Fault == faults < MaxFaults /\ faults' = faults + 1

----------------------------------------------------------------------------
(* Unlocking a scooter.                                                    *)

\* unlockScooter reads the scooter; a missing or taken one is refused.
Unlock(p, u, s) ==
  /\ status[s] = "available"
  /\ Request(p, u, s, 0, "gate")
  /\ UNCHANGED <<db, holder, image, torn, disturbed, faults>>

\* It reads the user and asks unlockPolicy; the battery may refuse too.
UnlockGate(p) ==
  /\ pc[p] = "gate"
  /\ \/ balance[by[p]] >= MinBalance /\ Goto(p, "claim")
     \/ Done(p)
  /\ UNCHANGED <<db, holder, image, torn, disturbed, calls, faults>>

\* Faulty variant of UnlockClaim: UPDATE without AND status='available'.
UnlockClaimUnguarded(p) ==
  /\ pc[p] = "claim"
  /\ LET s == on[p] IN
       /\ status' = [status EXCEPT ![s] = "riding"]
       /\ rider' = [rider EXCEPT ![s] = by[p]]
  /\ Goto(p, "record")
  /\ UNCHANGED <<active, balance, ledger, holder, image, torn, disturbed, calls,
                 faults>>

\* setRiding claims the scooter if it is still available.
UnlockClaim(p) ==
  /\ pc[p] = "claim"
  /\ IF status[on[p]] = "available"
     THEN /\ status' = [status EXCEPT ![on[p]] = "riding"]
          /\ rider' = [rider EXCEPT ![on[p]] = by[p]]
          /\ Goto(p, "record")
     ELSE Done(p) /\ UNCHANGED <<status, rider>>
  /\ UNCHANGED <<active, balance, ledger, holder, image, torn, disturbed, calls,
                 faults>>

\* createRide inserts the active ride.
UnlockRecord(p) ==
  /\ pc[p] = "record"
  /\ active' = [active EXCEPT ![on[p]][by[p]] = @ + 1]
  /\ Done(p)
  /\ UNCHANGED <<status, rider, balance, ledger, holder, image, torn, disturbed,
                 calls, faults>>

----------------------------------------------------------------------------
(* Ending a ride.                                                          *)

\* endRide reads the scooter, lets only the rider it names go on, and
\* computes the fare; it then waits for its transaction.
EndRide(p, u, s, fare) ==
  /\ status[s] \in {"available", "riding"}
  /\ rider[s] = u
  /\ Request(p, u, s, fare, "endWait")
  /\ disturbed' = disturbed \cup {r \in {s} : Ending(s) # {}}
  /\ UNCHANGED <<db, holder, image, torn, faults>>

\* BEGIN IMMEDIATE, when no other transaction is open.
BeginTx(p) ==
  /\ pc[p] \in {"endWait", "fareWait"}
  /\ holder = Nobody
  /\ holder' = p
  /\ image' = Snapshot
  /\ Goto(p, IF pc[p] = "endWait" THEN "endFree" ELSE "fareDeduct")
  /\ UNCHANGED <<db, torn, disturbed, calls, faults>>

\* setAvailable updates the row by its id, whoever rides now.
EndFree(p) ==
  /\ pc[p] = "endFree"
  /\ IF status[on[p]] \in {"available", "riding"}
     THEN /\ status' = [status EXCEPT ![on[p]] = "available"]
          /\ rider' = [rider EXCEPT ![on[p]] = Nobody]
     ELSE UNCHANGED <<status, rider>>
  /\ Goto(p, "endRecord")
  /\ UNCHANGED <<active, balance, ledger, holder, image, torn, disturbed, calls,
                 faults>>

\* endRideRecord completes every active ride of the user on the scooter.
EndRecord(p) ==
  /\ pc[p] = "endRecord"
  /\ active' = [active EXCEPT ![on[p]][by[p]] = 0]
  /\ Goto(p, "endDeduct")
  /\ UNCHANGED <<status, rider, balance, ledger, holder, image, torn, disturbed,
                 calls, faults>>

\* Faulty variant of Deduct: the deprecated deductBalance, with no guard.
DeductUnguarded(p) ==
  /\ pc[p] \in {"endDeduct", "fareDeduct"}
  /\ balance' = [balance EXCEPT ![by[p]] = @ - amt[p]]
  /\ Goto(p, IF pc[p] = "endDeduct" THEN "endLog" ELSE "fareLog")
  /\ UNCHANGED <<status, rider, active, ledger, holder, image, torn, disturbed,
                 calls, faults>>

\* deductBalanceSafe takes the money if it is there: one statement.  If it
\* is not, the ride goes unpaid and the fare is marked as failed.
Deduct(p) ==
  /\ pc[p] \in {"endDeduct", "fareDeduct"}
  /\ IF balance[by[p]] >= amt[p]
     THEN /\ balance' = [balance EXCEPT ![by[p]] = @ - amt[p]]
          /\ Goto(p, IF pc[p] = "endDeduct" THEN "endLog" ELSE "fareLog")
     ELSE /\ UNCHANGED balance
          /\ Goto(p, IF pc[p] = "endDeduct" THEN "commit" ELSE "fareStatus")
  /\ UNCHANGED <<status, rider, active, ledger, holder, image, torn, disturbed,
                 calls, faults>>

\* logTransaction appends the payment to the ledger.
LogPayment(p) ==
  /\ pc[p] \in {"endLog", "fareLog"}
  /\ ledger' = [ledger EXCEPT ![by[p]] = @ - amt[p]]
  /\ Goto(p, IF pc[p] = "endLog" THEN "commit" ELSE "fareStatus")
  /\ UNCHANGED <<status, rider, active, balance, holder, image, torn, disturbed,
                 calls, faults>>

Commit(p) ==
  /\ pc[p] = "commit"
  /\ holder' = Nobody
  /\ Done(p)
  /\ UNCHANGED <<db, image, torn, disturbed, calls, faults>>

\* A statement of the transaction, or its COMMIT, fails.  processPayment
\* catches the failure of its own statements and goes on.
TxFails(p) ==
  /\ pc[p] \in InTx \ {"rollback", "fareDeduct", "fareLog"}
  /\ Fault
  /\ Goto(p, "rollback")
  /\ UNCHANGED <<db, holder, image, torn, disturbed, calls>>

\* The database of BEGIN is back.
Restored ==
  /\ status' = image.status /\ rider' = image.rider
  /\ active' = image.active /\ balance' = image.balance
  /\ ledger' = image.ledger

\* The scooters it changes while another request is about to end their ride.
Revived ==
  {s \in Scooters :
     Ending(s) # {} /\ (status[s] # image.status[s] \/ rider[s] # image.rider[s])}

\* Faulty variant of Rollback: the wallet is left as the body left it.
RollbackForgetsWallet(p) ==
  /\ pc[p] = "rollback"
  /\ status' = image.status /\ rider' = image.rider
  /\ active' = image.active /\ ledger' = image.ledger
  /\ holder' = Nobody
  /\ torn' = torn \cup Midway \cup image.midway
  /\ disturbed' = disturbed \cup Revived
  /\ Done(p)
  /\ UNCHANGED <<balance, image, calls, faults>>

\* ROLLBACK brings back the database of BEGIN, the writes of others too.
Rollback(p) ==
  /\ pc[p] = "rollback"
  /\ Restored
  /\ holder' = Nobody
  /\ torn' = torn \cup Midway \cup image.midway
  /\ disturbed' = disturbed \cup Revived
  /\ Done(p)
  /\ UNCHANGED <<image, calls, faults>>

----------------------------------------------------------------------------
(* A taxi fare paid from the wallet, and topping the wallet up.            *)

\* settle queues its transaction for a completed trip of the user.
SettleFare(p, u, fare) ==
  /\ Request(p, u, Nobody, fare, "fareWait")
  /\ UNCHANGED <<db, holder, image, torn, disturbed, faults>>

\* The INSERT of the ledger row fails: processPayment answers success:false
\* and the transaction goes on to its COMMIT with the money taken.
FareLogFails(p) ==
  /\ pc[p] = "fareLog"
  /\ Fault
  /\ torn' = torn \cup {by[p]}
  /\ Goto(p, "fareStatus")
  /\ UNCHANGED <<db, holder, image, disturbed, calls>>

\* The payment status and the passenger's notification.
FareStatus(p) ==
  /\ pc[p] = "fareStatus"
  /\ Goto(p, "commit")
  /\ UNCHANGED <<db, holder, image, torn, disturbed, calls, faults>>

\* chargeWallet reads the user.
TopUpWallet(p, u) ==
  /\ Request(p, u, Nobody, TopUp, "topAdd")
  /\ UNCHANGED <<db, holder, image, torn, disturbed, faults>>

\* addBalance credits the wallet.
TopUpAdd(p) ==
  /\ pc[p] = "topAdd"
  /\ balance' = [balance EXCEPT ![by[p]] = @ + amt[p]]
  /\ Goto(p, "topLog")
  /\ UNCHANGED <<status, rider, active, ledger, holder, image, torn, disturbed,
                 calls, faults>>

\* logTransaction records the deposit.
TopUpLog(p) ==
  /\ pc[p] = "topLog"
  /\ ledger' = [ledger EXCEPT ![by[p]] = @ + amt[p]]
  /\ Done(p)
  /\ UNCHANGED <<status, rider, active, balance, holder, image, torn, disturbed,
                 calls, faults>>

\* A statement of a request without a transaction fails: it answers 500.
RequestFails(p) ==
  /\ pc[p] \in {"gate", "claim", "record", "topAdd", "topLog"}
  /\ Fault
  /\ torn' = IF pc[p] = "topLog" THEN torn \cup {by[p]} ELSE torn
  /\ Done(p)
  /\ UNCHANGED <<db, holder, image, disturbed, calls>>

----------------------------------------------------------------------------
(* The administrator, and restarts.                                        *)

Command == calls < MaxCalls /\ calls' = calls + 1

\* resetAll makes every scooter available and keeps its rider's phone.
ResetScooters ==
  /\ Command
  /\ status' = [s \in Scooters |->
                  IF status[s] = "riding" THEN "available" ELSE status[s]]
  /\ disturbed' = disturbed \cup {s \in Scooters : status[s] = "riding"}
  /\ UNCHANGED <<rider, active, balance, ledger, holder, image, slotVars,
                 torn, faults>>

AddScooter(s) ==
  /\ Command
  /\ status[s] = "none"
  /\ status' = [status EXCEPT ![s] = "available"]
  /\ UNCHANGED <<rider, active, balance, ledger, holder, image, slotVars,
                 torn, disturbed, faults>>

\* The foreign key of scooter_rides refuses the delete while there are rides.
\* Of those only the active ones are counted here.
DeleteScooter(s) ==
  /\ Command
  /\ status[s] \in {"available", "riding"}
  /\ \A u \in Users : active[s][u] = 0
  /\ status' = [status EXCEPT ![s] = "deleted"]
  /\ rider' = [rider EXCEPT ![s] = Nobody]
  /\ UNCHANGED <<active, balance, ledger, holder, image, slotVars, torn,
                 disturbed, faults>>

\* The process restarts: requests are lost, an open transaction is undone.
Restart ==
  /\ Fault
  /\ IF holder = Nobody THEN UNCHANGED db ELSE Restored
  /\ holder' = Nobody
  /\ torn' = torn \cup Midway
              \cup IF holder = Nobody THEN {} ELSE image.midway
  /\ pc' = [p \in Slots |-> "idle"]
  /\ on' = [p \in Slots |-> Nobody]
  /\ by' = [p \in Slots |-> Nobody]
  /\ amt' = [p \in Slots |-> 0]
  /\ UNCHANGED <<image, disturbed, calls>>

----------------------------------------------------------------------------
Call(p) ==
  \E u \in Users :
    \/ \E s \in Scooters : Unlock(p, u, s)
    \/ \E s \in Scooters, f \in Fares : EndRide(p, u, s, f)
    \/ \E f \in Fares : SettleFare(p, u, f)
    \/ TopUpWallet(p, u)

Step(p) ==
  \/ UnlockGate(p) \/ UnlockClaim(p) \/ UnlockRecord(p)
  \/ BeginTx(p) \/ EndFree(p) \/ EndRecord(p) \/ Deduct(p) \/ LogPayment(p)
  \/ FareStatus(p) \/ Commit(p) \/ Rollback(p)
  \/ TopUpAdd(p) \/ TopUpLog(p)

Next ==
  \/ \E p \in Slots :
       Call(p) \/ Step(p) \/ TxFails(p) \/ FareLogFails(p) \/ RequestFails(p)
  \/ ResetScooters
  \/ \E s \in Scooters : AddScooter(s) \/ DeleteScooter(s)
  \/ Restart

Spec == Init /\ [][Next]_vars

----------------------------------------------------------------------------
(* Properties.                                                             *)

Statuses == {"none", "available", "riding", "deleted"}

\* What a transaction finds at its BEGIN.
Rows ==
  [status: [Scooters -> Statuses], rider: [Scooters -> Users \cup {Nobody}],
   active: [Scooters -> [Users -> Nat]], balance: [Users -> Int],
   ledger: [Users -> Int], midway: SUBSET Users]

\* Every variable keeps its type.
TypeOK ==
  /\ status \in [Scooters -> Statuses]
  /\ rider \in [Scooters -> Users \cup {Nobody}]
  /\ active \in [Scooters -> [Users -> Nat]]
  /\ balance \in [Users -> Int] /\ ledger \in [Users -> Int]
  /\ image \in Rows
  /\ holder \in Slots \cup {Nobody}
  /\ pc \in [Slots -> PCs]
  /\ on \in [Slots -> Scooters \cup {Nobody}]
  /\ by \in [Slots -> Users \cup {Nobody}]
  /\ amt \in [Slots -> Nat]
  /\ torn \subseteq Users /\ disturbed \subseteq Scooters
  /\ calls \in 0..MaxCalls /\ faults \in 0..MaxFaults

\* No wallet is ever overdrawn, however rides, fares and top-ups interleave
\* and whatever is rolled back (deductBalanceSafe, the C3 fix).
NeverOverdrawn ==
  \A u \in Users : balance[u] >= 0 /\ (holder # Nobody => image.balance[u] >= 0)

\* Money on its way between a wallet and its ledger.
InFlight(u) ==
  TopUp * Cardinality({p \in Slots : pc[p] = "topLog" /\ by[p] = u})
    - IF \E p \in Slots :
          p = holder /\ by[p] = u /\ pc[p] \in {"endLog", "fareLog"}
      THEN amt[holder] ELSE 0

\* The ledger explains every balance to the unit, counting the requests
\* between the two statements, unless a fault has struck just there: a
\* scooter charge is in the ledger or undone as a whole, even when a
\* statement of its transaction fails.
LedgerExplainsBalance ==
  \A u \in Users \ torn :
    \/ holder # Nobody /\ pc[holder] = "rollback"
    \/ balance[u] = Opening + ledger[u] + InFlight(u)

\* A scooter that is being ridden passes to another rider only when a
\* transaction is undone: of two unlocks one wins (setRiding, audit C-004).
RiddenIsNotReclaimed ==
  [][\A s \in Scooters :
       status[s] = "riding" /\ rider'[s] # rider[s] /\ rider'[s] # Nobody
         => holder # Nobody /\ Restored]_vars

\* What lockPolicy has checked on a row read before the request waits for its
\* transaction holds when the row is written: an end-ride in flight ends the
\* ride of its own user.  It may fail only when a second end-ride of the same
\* ride, an administrator's reset or a rollback came in between.
OwnRideIsEnded ==
  \A s \in Scooters \ disturbed : \A p \in Ending(s) :
    status[s] = "riding" => rider[s] = by[p]

\* Refuted by the code.  Stated by scooterPolicies.js:54 and the unit test of lockPolicy: only the
\* current rider may end the ride.
OnlyRiderEndsRide ==
  [][\A p \in Slots, s \in Scooters :
       pc[p] = "endFree" /\ pc'[p] = "endRecord" /\ on[p] = s
         /\ status[s] = "riding" => rider[s] = by[p]]_vars

\* Refuted by the code.  Stated by services/payment.js:9: every operation leaves a row in the
\* transactions table, so that no money is taken that no row tells of.
MoneyTakenIsLedgered ==
  (\A p \in Slots : pc[p] = "idle")
    => \A u \in Users : balance[u] >= Opening + ledger[u]
============================================================================
