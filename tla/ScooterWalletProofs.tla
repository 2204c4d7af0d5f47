------------------------ MODULE ScooterWalletProofs ------------------------
(***************************************************************************)
(* ScooterWallet for any number of users, scooters, requests and faults:   *)
(* no wallet is overdrawn, a claim never takes a ridden scooter, and the   *)
(* ledger explains every balance.                                          *)
(***************************************************************************)
EXTENDS ScooterWallet, FiniteSetTheorems, TLAPS

\* A request acts for a user, and the scooter requests are about a scooter.
SlotInv ==
  \A p \in Slots :
    /\ pc[p] # "idle" => by[p] \in Users
    /\ pc[p] \in {"gate", "claim", "record", "endWait", "endFree", "endRecord"}
         => on[p] \in Scooters

\* The open transaction is that of the one slot inside.
HolderInv == \A p \in Slots : pc[p] \in InTx <=> holder = p

\* The balances, now and at the last BEGIN, are not negative.
FundsInv ==
  \A u \in Users : balance[u] >= 0 /\ image.balance[u] >= 0

\* Where no ride is on, no rider is named.
FreeHasNobody(st, rd) ==
  \A s \in Scooters \ disturbed : st[s] # "riding" => rd[s] = Nobody

\* One request at a time is about to end a ride, and the ride is its user's.
EndingInv ==
  \A s \in Scooters \ disturbed : \A p \in Ending(s) :
    /\ Ending(s) = {p}
    /\ status[s] = "deleted" \/ (status[s] = "riding" /\ rider[s] = by[p])

RideInv ==
  /\ EndingInv
  /\ FreeHasNobody(status, rider)
  /\ FreeHasNobody(image.status, image.rider)

IInv == TypeOK /\ SlotInv /\ HolderInv /\ FundsInv /\ RideInv

\* Where the slots stand.
SlotTypes ==
  /\ pc \in [Slots -> PCs]
  /\ on \in [Slots -> Scooters \cup {Nobody}]
  /\ by \in [Slots -> Users \cup {Nobody}]
  /\ amt \in [Slots -> Nat]

\* Moving a slot on keeps its types.
LEMMA GotoTypes ==
  ASSUME SlotTypes, NEW p \in Slots, NEW w \in PCs, Goto(p, w)
  PROVE  SlotTypes'
BY DEF SlotTypes, Goto

\* Answering a request keeps the types of its slot.
LEMMA DoneTypes ==
  ASSUME SlotTypes, NEW p \in Slots, Done(p)
  PROVE  SlotTypes'
BY DEF SlotTypes, Done, PCs

\* A new request has a user, a scooter or none, and an amount.
LEMMA RequestTypes ==
  ASSUME SlotTypes, WalletAssumption, calls \in 0..MaxCalls,
         NEW p \in Slots, NEW u \in Users, NEW s \in Scooters \cup {Nobody},
         NEW a \in Nat, NEW w \in PCs, Request(p, u, s, a, w)
  PROVE  SlotTypes' /\ calls' \in 0..MaxCalls
BY SMTT(30) DEF SlotTypes, Request, WalletAssumption

\* Every step keeps the types.
LEMMA TypeStep ==
  ASSUME WalletAssumption, TypeOK, SlotInv, [Next]_vars
  PROVE  TypeOK'
<1> USE DEF TypeOK, Snapshot, Statuses, Rows, Midway, PCs, InTx, EndBody,
   FareBody, WalletAssumption, db, slotVars, SlotInv
<1>1. ASSUME NEW p \in Slots, Call(p) PROVE TypeOK'
  <2>0. SlotTypes /\ Fares \subseteq Nat /\ TopUp \in Nat
    BY DEF SlotTypes
  <2>1. ASSUME NEW u \in Users, NEW s \in Scooters, Unlock(p, u, s)
        PROVE  TypeOK'
    <3>1. SlotTypes' /\ calls' \in 0..MaxCalls
      BY <2>0, <2>1, RequestTypes DEF Unlock
    <3> QED
      BY <2>1, <3>1 DEF Unlock, SlotTypes
  <2>2. ASSUME NEW u \in Users, NEW s \in Scooters, NEW f \in Fares,
               EndRide(p, u, s, f)
        PROVE  TypeOK'
    <3>1. SlotTypes' /\ calls' \in 0..MaxCalls
      BY <2>0, <2>2, RequestTypes DEF EndRide
    <3> QED
      BY <2>2, <3>1 DEF EndRide, SlotTypes
  <2>3. ASSUME NEW u \in Users, NEW f \in Fares, SettleFare(p, u, f)
        PROVE  TypeOK'
    <3>1. SlotTypes' /\ calls' \in 0..MaxCalls
      BY <2>0, <2>3, RequestTypes DEF SettleFare
    <3> QED
      BY <2>3, <3>1 DEF SettleFare, SlotTypes
  <2>4. ASSUME NEW u \in Users, TopUpWallet(p, u) PROVE TypeOK'
    <3>1. SlotTypes' /\ calls' \in 0..MaxCalls
      BY <2>0, <2>4, RequestTypes DEF TopUpWallet
    <3> QED
      BY <2>4, <3>1 DEF TopUpWallet, SlotTypes
  <2> QED
    BY <1>1, <2>1, <2>2, <2>3, <2>4 DEF Call
<1>2. ASSUME NEW p \in Slots, UnlockGate(p) PROVE TypeOK'
  <2>1. SlotTypes'
    BY <1>2, GotoTypes, DoneTypes DEF UnlockGate, SlotTypes
  <2> QED
    BY <1>2, <2>1 DEF UnlockGate, SlotTypes
<1>3. ASSUME NEW p \in Slots, UnlockClaim(p) PROVE TypeOK'
  <2>1. SlotTypes'
    BY <1>3, GotoTypes, DoneTypes DEF UnlockClaim, SlotTypes
  <2>2. /\ status' \in [Scooters -> Statuses]
        /\ rider' \in [Scooters -> Users \cup {Nobody}]
    <3>1. CASE status[on[p]] = "available"
      <4>1. by[p] \in Users
        BY <1>3 DEF UnlockClaim
      <4>2. /\ status' = [status EXCEPT ![on[p]] = "riding"]
            /\ rider' = [rider EXCEPT ![on[p]] = by[p]]
        BY <1>3, <3>1 DEF UnlockClaim
      <4>3. status' \in [Scooters -> Statuses]
        BY <4>2
      <4>4. rider' \in [Scooters -> Users \cup {Nobody}]
        BY <4>1, <4>2
      <4> QED
        BY <4>3, <4>4
    <3>2. CASE status[on[p]] # "available"
      BY <1>3, <3>2 DEF UnlockClaim
    <3> QED
      BY <3>1, <3>2
  <2> QED
    BY <1>3, <2>1, <2>2 DEF UnlockClaim, SlotTypes
<1>4. ASSUME NEW p \in Slots, UnlockRecord(p) PROVE TypeOK'
  BY <1>4, SMTT(30) DEF UnlockRecord, Goto, Done
<1>5. ASSUME NEW p \in Slots, BeginTx(p) PROVE TypeOK'
  BY <1>5, SMTT(30) DEF BeginTx, Goto, Done, Snapshot, Midway
<1>6. ASSUME NEW p \in Slots, EndFree(p) PROVE TypeOK'
  <2>1. SlotTypes'
    BY <1>6, GotoTypes DEF EndFree, SlotTypes
  <2>2. /\ status' \in [Scooters -> Statuses]
        /\ rider' \in [Scooters -> Users \cup {Nobody}]
    <3>1. CASE status[on[p]] \in {"available", "riding"}
      <4>1. /\ status' = [status EXCEPT ![on[p]] = "available"]
            /\ rider' = [rider EXCEPT ![on[p]] = Nobody]
        BY <1>6, <3>1 DEF EndFree
      <4>2. status' \in [Scooters -> Statuses]
        BY <4>1
      <4>3. rider' \in [Scooters -> Users \cup {Nobody}]
        BY <4>1
      <4> QED
        BY <4>2, <4>3
    <3>2. CASE status[on[p]] \notin {"available", "riding"}
      BY <1>6, <3>2 DEF EndFree
    <3> QED
      BY <3>1, <3>2
  <2> QED
    BY <1>6, <2>1, <2>2 DEF EndFree, SlotTypes
<1>7. ASSUME NEW p \in Slots, EndRecord(p) PROVE TypeOK'
  BY <1>7, SMTT(30) DEF EndRecord, Goto, Done
<1>8. ASSUME NEW p \in Slots, Deduct(p) PROVE TypeOK'
  <2>1. SlotTypes'
    BY <1>8, GotoTypes DEF Deduct, SlotTypes
  <2>2. balance' \in [Users -> Int]
    <3>1. balance' = balance \/ balance' = [balance EXCEPT ![by[p]] = @ - amt[p]]
      BY <1>8 DEF Deduct
    <3>2. amt[p] \in Int /\ balance \in [Users -> Int]
      OBVIOUS
    <3> QED
      BY <3>1, <3>2
  <2> QED
    BY <1>8, <2>1, <2>2 DEF Deduct, SlotTypes
<1>9. ASSUME NEW p \in Slots, LogPayment(p) PROVE TypeOK'
  <2>1. SlotTypes'
    BY <1>9, GotoTypes DEF LogPayment, SlotTypes
  <2>2. ledger' \in [Users -> Int]
    BY <1>9, SMTT(30) DEF LogPayment
  <2> QED
    BY <1>9, <2>1, <2>2 DEF LogPayment, SlotTypes
<1>10. ASSUME NEW p \in Slots, FareStatus(p) PROVE TypeOK'
  BY <1>10, SMTT(30) DEF FareStatus, Goto, Done
<1>11. ASSUME NEW p \in Slots, Commit(p) PROVE TypeOK'
  BY <1>11, SMTT(30) DEF Commit, Goto, Done
<1>12. ASSUME NEW p \in Slots, Rollback(p) PROVE TypeOK'
  <2>1. SlotTypes'
    BY <1>12, DoneTypes DEF Rollback, SlotTypes
  <2>2. /\ status' \in [Scooters -> Statuses] /\ rider' \in [Scooters -> Users \cup {Nobody}]
        /\ active' \in [Scooters -> [Users -> Nat]]
        /\ balance' \in [Users -> Int] /\ ledger' \in [Users -> Int]
    BY <1>12 DEF Rollback, Restored
  <2>3. torn' \subseteq Users /\ disturbed' \subseteq Scooters
    BY <1>12 DEF Rollback, Revived
  <2> QED
    BY <1>12, <2>1, <2>2, <2>3 DEF Rollback, SlotTypes
<1>13. ASSUME NEW p \in Slots, TopUpAdd(p) PROVE TypeOK'
  BY <1>13, SMTT(30) DEF TopUpAdd, Goto, Done
<1>14. ASSUME NEW p \in Slots, TopUpLog(p) PROVE TypeOK'
  BY <1>14, SMTT(30) DEF TopUpLog, Goto, Done
<1>15. ASSUME NEW p \in Slots, TxFails(p) PROVE TypeOK'
  BY <1>15, SMTT(30) DEF TxFails, Goto, Done, Fault
<1>16. ASSUME NEW p \in Slots, FareLogFails(p) PROVE TypeOK'
  BY <1>16, SMTT(30) DEF FareLogFails, Goto, Done, Fault
<1>17. ASSUME NEW p \in Slots, RequestFails(p) PROVE TypeOK'
  BY <1>17, SMTT(30) DEF RequestFails, Goto, Done, Fault
<1>18. ASSUME ResetScooters PROVE TypeOK'
  BY <1>18, SMTT(30) DEF ResetScooters, Command
<1>19. ASSUME NEW s \in Scooters, AddScooter(s) PROVE TypeOK'
  BY <1>19, SMTT(30) DEF AddScooter, Command
<1>20. ASSUME NEW s \in Scooters, DeleteScooter(s) PROVE TypeOK'
  BY <1>20, SMTT(30) DEF DeleteScooter, Command
<1>21. ASSUME Restart PROVE TypeOK'
  BY <1>21, SMTT(30) DEF Restart, Fault, Restored, Midway
<1>22. CASE UNCHANGED vars
  BY <1>22, SMTT(30) DEF vars
<1> HIDE DEF TypeOK, Snapshot, Statuses, Rows, Midway, PCs, InTx, EndBody,
   FareBody, WalletAssumption, db, slotVars, SlotInv
<1> QED
  BY <1>1, <1>2, <1>3, <1>4, <1>5, <1>6, <1>7, <1>8, <1>9, <1>10, <1>11,
     <1>12, <1>13, <1>14, <1>15, <1>16, <1>17, <1>18, <1>19, <1>20, <1>21,
     <1>22 DEF Next, Step

\* Every step keeps the requests about users and scooters.
LEMMA SlotStep ==
  ASSUME TypeOK, SlotInv, [Next]_vars
  PROVE  SlotInv'
<1> USE DEF TypeOK, SlotInv, PCs, InTx, EndBody, FareBody, db, slotVars
<1>1. ASSUME NEW p \in Slots, Call(p) PROVE SlotInv'
  BY <1>1, SMTT(30) DEF Call, Goto, Done, Unlock, EndRide, SettleFare,
     TopUpWallet, Request
<1>2. ASSUME NEW p \in Slots, UnlockGate(p) PROVE SlotInv'
  BY <1>2, SMTT(30) DEF UnlockGate, Goto, Done
<1>3. ASSUME NEW p \in Slots, UnlockClaim(p) PROVE SlotInv'
  BY <1>3, SMTT(30) DEF UnlockClaim, Goto, Done
<1>4. ASSUME NEW p \in Slots, UnlockRecord(p) PROVE SlotInv'
  BY <1>4, SMTT(30) DEF UnlockRecord, Goto, Done
<1>5. ASSUME NEW p \in Slots, BeginTx(p) PROVE SlotInv'
  BY <1>5, SMTT(30) DEF BeginTx, Goto, Done, Snapshot, Midway
<1>6. ASSUME NEW p \in Slots, EndFree(p) PROVE SlotInv'
  BY <1>6, SMTT(30) DEF EndFree, Goto, Done
<1>7. ASSUME NEW p \in Slots, EndRecord(p) PROVE SlotInv'
  BY <1>7, SMTT(30) DEF EndRecord, Goto, Done
<1>8. ASSUME NEW p \in Slots, Deduct(p) PROVE SlotInv'
  BY <1>8, SMTT(30) DEF Deduct, Goto, Done
<1>9. ASSUME NEW p \in Slots, LogPayment(p) PROVE SlotInv'
  BY <1>9, SMTT(30) DEF LogPayment, Goto, Done
<1>10. ASSUME NEW p \in Slots, FareStatus(p) PROVE SlotInv'
  BY <1>10, SMTT(30) DEF FareStatus, Goto, Done
<1>11. ASSUME NEW p \in Slots, Commit(p) PROVE SlotInv'
  BY <1>11, SMTT(30) DEF Commit, Goto, Done
<1>12. ASSUME NEW p \in Slots, Rollback(p) PROVE SlotInv'
  BY <1>12, SMTT(30) DEF Rollback, Goto, Done, Restored, Midway
<1>13. ASSUME NEW p \in Slots, TopUpAdd(p) PROVE SlotInv'
  BY <1>13, SMTT(30) DEF TopUpAdd, Goto, Done
<1>14. ASSUME NEW p \in Slots, TopUpLog(p) PROVE SlotInv'
  BY <1>14, SMTT(30) DEF TopUpLog, Goto, Done
<1>15. ASSUME NEW p \in Slots, TxFails(p) PROVE SlotInv'
  BY <1>15, SMTT(30) DEF TxFails, Goto, Done, Fault
<1>16. ASSUME NEW p \in Slots, FareLogFails(p) PROVE SlotInv'
  BY <1>16, SMTT(30) DEF FareLogFails, Goto, Done, Fault
<1>17. ASSUME NEW p \in Slots, RequestFails(p) PROVE SlotInv'
  BY <1>17, SMTT(30) DEF RequestFails, Goto, Done, Fault
<1>18. ASSUME ResetScooters PROVE SlotInv'
  BY <1>18, SMTT(30) DEF ResetScooters, Command
<1>19. ASSUME NEW s \in Scooters, AddScooter(s) PROVE SlotInv'
  BY <1>19, SMTT(30) DEF AddScooter, Command
<1>20. ASSUME NEW s \in Scooters, DeleteScooter(s) PROVE SlotInv'
  BY <1>20, SMTT(30) DEF DeleteScooter, Command
<1>21. ASSUME Restart PROVE SlotInv'
  BY <1>21, SMTT(30) DEF Restart, Fault, Restored, Midway
<1>22. CASE UNCHANGED vars
  BY <1>22, SMTT(30) DEF vars
<1> HIDE DEF TypeOK, SlotInv, PCs, InTx, EndBody, FareBody, db, slotVars
<1> QED
  BY <1>1, <1>2, <1>3, <1>4, <1>5, <1>6, <1>7, <1>8, <1>9, <1>10, <1>11,
     <1>12, <1>13, <1>14, <1>15, <1>16, <1>17, <1>18, <1>19, <1>20, <1>21,
     <1>22 DEF Next, Step

\* Every step keeps one slot inside the open transaction.
LEMMA HolderStep ==
  ASSUME WalletAssumption, TypeOK, HolderInv, [Next]_vars
  PROVE  HolderInv'
<1> USE DEF TypeOK, HolderInv, PCs, InTx, EndBody, FareBody, WalletAssumption,
   db, slotVars
<1>1. ASSUME NEW p \in Slots, Call(p) PROVE HolderInv'
  BY <1>1, SMTT(30) DEF Call, Goto, Done, Unlock, EndRide, SettleFare,
     TopUpWallet, Request
<1>2. ASSUME NEW p \in Slots, UnlockGate(p) PROVE HolderInv'
  BY <1>2, SMTT(30) DEF UnlockGate, Goto, Done
<1>3. ASSUME NEW p \in Slots, UnlockClaim(p) PROVE HolderInv'
  BY <1>3, SMTT(30) DEF UnlockClaim, Goto, Done
<1>4. ASSUME NEW p \in Slots, UnlockRecord(p) PROVE HolderInv'
  BY <1>4, SMTT(30) DEF UnlockRecord, Goto, Done
<1>5. ASSUME NEW p \in Slots, BeginTx(p) PROVE HolderInv'
  BY <1>5, SMTT(30) DEF BeginTx, Goto, Done, Snapshot, Midway
<1>6. ASSUME NEW p \in Slots, EndFree(p) PROVE HolderInv'
  BY <1>6, SMTT(30) DEF EndFree, Goto, Done
<1>7. ASSUME NEW p \in Slots, EndRecord(p) PROVE HolderInv'
  BY <1>7, SMTT(30) DEF EndRecord, Goto, Done
<1>8. ASSUME NEW p \in Slots, Deduct(p) PROVE HolderInv'
  BY <1>8, SMTT(30) DEF Deduct, Goto, Done
<1>9. ASSUME NEW p \in Slots, LogPayment(p) PROVE HolderInv'
  BY <1>9, SMTT(30) DEF LogPayment, Goto, Done
<1>10. ASSUME NEW p \in Slots, FareStatus(p) PROVE HolderInv'
  BY <1>10, SMTT(30) DEF FareStatus, Goto, Done
<1>11. ASSUME NEW p \in Slots, Commit(p) PROVE HolderInv'
  BY <1>11, SMTT(30) DEF Commit, Goto, Done
<1>12. ASSUME NEW p \in Slots, Rollback(p) PROVE HolderInv'
  BY <1>12, SMTT(30) DEF Rollback, Goto, Done, Restored, Midway
<1>13. ASSUME NEW p \in Slots, TopUpAdd(p) PROVE HolderInv'
  BY <1>13, SMTT(30) DEF TopUpAdd, Goto, Done
<1>14. ASSUME NEW p \in Slots, TopUpLog(p) PROVE HolderInv'
  BY <1>14, SMTT(30) DEF TopUpLog, Goto, Done
<1>15. ASSUME NEW p \in Slots, TxFails(p) PROVE HolderInv'
  BY <1>15, SMTT(30) DEF TxFails, Goto, Done, Fault
<1>16. ASSUME NEW p \in Slots, FareLogFails(p) PROVE HolderInv'
  BY <1>16, SMTT(30) DEF FareLogFails, Goto, Done, Fault
<1>17. ASSUME NEW p \in Slots, RequestFails(p) PROVE HolderInv'
  BY <1>17, SMTT(30) DEF RequestFails, Goto, Done, Fault
<1>18. ASSUME ResetScooters PROVE HolderInv'
  BY <1>18, SMTT(30) DEF ResetScooters, Command
<1>19. ASSUME NEW s \in Scooters, AddScooter(s) PROVE HolderInv'
  BY <1>19, SMTT(30) DEF AddScooter, Command
<1>20. ASSUME NEW s \in Scooters, DeleteScooter(s) PROVE HolderInv'
  BY <1>20, SMTT(30) DEF DeleteScooter, Command
<1>21. ASSUME Restart PROVE HolderInv'
  BY <1>21, SMTT(30) DEF Restart, Fault, Restored, Midway
<1>22. CASE UNCHANGED vars
  BY <1>22, SMTT(30) DEF vars
<1> HIDE DEF TypeOK, HolderInv, PCs, InTx, EndBody, FareBody,
   WalletAssumption, db, slotVars
<1> QED
  BY <1>1, <1>2, <1>3, <1>4, <1>5, <1>6, <1>7, <1>8, <1>9, <1>10, <1>11,
     <1>12, <1>13, <1>14, <1>15, <1>16, <1>17, <1>18, <1>19, <1>20, <1>21,
     <1>22 DEF Next, Step

\* Every step keeps the balances from becoming negative.
LEMMA FundsStep ==
  ASSUME TypeOK, SlotInv, FundsInv, [Next]_vars
  PROVE  FundsInv'
<1> USE DEF TypeOK, Snapshot, Statuses, Rows, SlotInv, FundsInv, PCs, InTx,
   EndBody, FareBody, db, slotVars
<1>1. ASSUME NEW p \in Slots, Call(p) PROVE FundsInv'
  BY <1>1, SMTT(30) DEF Call, Goto, Done, Unlock, EndRide, SettleFare,
     TopUpWallet, Request
<1>2. ASSUME NEW p \in Slots, UnlockGate(p) PROVE FundsInv'
  BY <1>2, SMTT(30) DEF UnlockGate, Goto, Done
<1>3. ASSUME NEW p \in Slots, UnlockClaim(p) PROVE FundsInv'
  BY <1>3, SMTT(30) DEF UnlockClaim, Goto, Done
<1>4. ASSUME NEW p \in Slots, UnlockRecord(p) PROVE FundsInv'
  BY <1>4, SMTT(30) DEF UnlockRecord, Goto, Done
<1>5. ASSUME NEW p \in Slots, BeginTx(p) PROVE FundsInv'
  BY <1>5, SMTT(30) DEF BeginTx, Goto, Done, Snapshot, Midway
<1>6. ASSUME NEW p \in Slots, EndFree(p) PROVE FundsInv'
  BY <1>6, SMTT(30) DEF EndFree, Goto, Done
<1>7. ASSUME NEW p \in Slots, EndRecord(p) PROVE FundsInv'
  BY <1>7, SMTT(30) DEF EndRecord, Goto, Done
<1>8. ASSUME NEW p \in Slots, Deduct(p) PROVE FundsInv'
  BY <1>8, SMTT(30) DEF Deduct, Goto, Done
<1>9. ASSUME NEW p \in Slots, LogPayment(p) PROVE FundsInv'
  BY <1>9, SMTT(30) DEF LogPayment, Goto, Done
<1>10. ASSUME NEW p \in Slots, FareStatus(p) PROVE FundsInv'
  BY <1>10, SMTT(30) DEF FareStatus, Goto, Done
<1>11. ASSUME NEW p \in Slots, Commit(p) PROVE FundsInv'
  BY <1>11, SMTT(30) DEF Commit, Goto, Done
<1>12. ASSUME NEW p \in Slots, Rollback(p) PROVE FundsInv'
  BY <1>12, SMTT(30) DEF Rollback, Goto, Done, Restored, Midway
<1>13. ASSUME NEW p \in Slots, TopUpAdd(p) PROVE FundsInv'
  BY <1>13, SMTT(30) DEF TopUpAdd, Goto, Done
<1>14. ASSUME NEW p \in Slots, TopUpLog(p) PROVE FundsInv'
  BY <1>14, SMTT(30) DEF TopUpLog, Goto, Done
<1>15. ASSUME NEW p \in Slots, TxFails(p) PROVE FundsInv'
  BY <1>15, SMTT(30) DEF TxFails, Goto, Done, Fault
<1>16. ASSUME NEW p \in Slots, FareLogFails(p) PROVE FundsInv'
  BY <1>16, SMTT(30) DEF FareLogFails, Goto, Done, Fault
<1>17. ASSUME NEW p \in Slots, RequestFails(p) PROVE FundsInv'
  BY <1>17, SMTT(30) DEF RequestFails, Goto, Done, Fault
<1>18. ASSUME ResetScooters PROVE FundsInv'
  BY <1>18, SMTT(30) DEF ResetScooters, Command
<1>19. ASSUME NEW s \in Scooters, AddScooter(s) PROVE FundsInv'
  BY <1>19, SMTT(30) DEF AddScooter, Command
<1>20. ASSUME NEW s \in Scooters, DeleteScooter(s) PROVE FundsInv'
  BY <1>20, SMTT(30) DEF DeleteScooter, Command
<1>21. ASSUME Restart PROVE FundsInv'
  BY <1>21, SMTT(30) DEF Restart, Fault, Restored, Midway
<1>22. CASE UNCHANGED vars
  BY <1>22, SMTT(30) DEF vars
<1> HIDE DEF TypeOK, Snapshot, Statuses, Rows, SlotInv, FundsInv, PCs, InTx,
   EndBody, FareBody, db, slotVars
<1> QED
  BY <1>1, <1>2, <1>3, <1>4, <1>5, <1>6, <1>7, <1>8, <1>9, <1>10, <1>11,
     <1>12, <1>13, <1>14, <1>15, <1>16, <1>17, <1>18, <1>19, <1>20, <1>21,
     <1>22 DEF Next, Step
----------------------------------------------------------------------------
(* Rides and the requests that end them.                                   *)

\* A request that is answered or goes on past the freeing no longer ends a ride.
LEMMA EndingAfter ==
  ASSUME TypeOK, NEW p \in Slots, NEW s
  PROVE  /\ Done(p) => Ending(s)' \subseteq Ending(s) \ {p}
         /\ \A w \in PCs \ {"endWait", "endFree"} :
              Goto(p, w) => Ending(s)' \subseteq Ending(s) \ {p}
         /\ BeginTx(p) => Ending(s)' = Ending(s)
         /\ Done(p) \/ (\E w : Goto(p, w)) =>
              \A q \in Ending(s)' : by'[q] = by[q]
<1> USE DEF TypeOK, Ending
<1>1. Done(p) => Ending(s)' \subseteq Ending(s) \ {p}
  BY DEF Done
<1>2. \A w \in PCs \ {"endWait", "endFree"} :
        Goto(p, w) => Ending(s)' \subseteq Ending(s) \ {p}
  BY DEF Goto
<1>3. BeginTx(p) => Ending(s)' = Ending(s)
  BY DEF BeginTx, Goto
<1>4. Done(p) => \A q \in Ending(s)' : by'[q] = by[q]
  BY DEF Done
<1>5. (\E w : Goto(p, w)) => \A q \in Ending(s)' : by'[q] = by[q]
  BY DEF Goto
<1> QED
  BY <1>1, <1>2, <1>3, <1>4, <1>5

\* A step that leaves the scooters alone and begins no end-ride keeps the rides apart.
LEMMA RidesAlone ==
  ASSUME RideInv, UNCHANGED <<status, rider, disturbed>>,
         image' = image \/ image' = Snapshot,
         \A s \in Scooters : /\ Ending(s)' \subseteq Ending(s)
                             /\ \A q \in Ending(s)' : by'[q] = by[q]
  PROVE  RideInv'
<1>1. EndingInv'
  BY DEF RideInv, EndingInv
<1>2. FreeHasNobody(status, rider)'
  BY DEF RideInv, FreeHasNobody
<1>3. FreeHasNobody(image.status, image.rider)'
  BY DEF RideInv, FreeHasNobody, Snapshot
<1> QED
  BY <1>1, <1>2, <1>3 DEF RideInv

\* The database of BEGIN comes back: a ride that was changed is disturbed if it is about to be ended.
LEMMA RidesRestored ==
  ASSUME RideInv, Restored, image' = image, disturbed' = disturbed \cup Revived,
         \A s \in Scooters : /\ Ending(s)' \subseteq Ending(s)
                             /\ \A q \in Ending(s)' : by'[q] = by[q]
  PROVE  RideInv'
<1>1. EndingInv'
  <2> SUFFICES ASSUME NEW s \in Scooters, s \notin disturbed', NEW p \in Ending(s)'
               PROVE  /\ Ending(s)' = {p}
                      /\ status'[s] = "deleted" \/ (status'[s] = "riding" /\ rider'[s] = by'[p])
    BY DEF EndingInv
  <2>1. p \in Ending(s) /\ by'[p] = by[p] /\ s \notin disturbed /\ s \notin Revived
    OBVIOUS
  <2>2. status'[s] = status[s] /\ rider'[s] = rider[s]
    BY <2>1 DEF Revived, Restored
  <2>3. Ending(s) = {p}
    BY <2>1 DEF RideInv, EndingInv
  <2>4. status[s] = "deleted" \/ (status[s] = "riding" /\ rider[s] = by[p])
    BY <2>1 DEF RideInv, EndingInv
  <2> QED
    BY <2>1, <2>2, <2>3, <2>4
<1>2. FreeHasNobody(status, rider)' /\ FreeHasNobody(image.status, image.rider)'
  BY DEF RideInv, FreeHasNobody, Restored
<1> QED
  BY <1>1, <1>2 DEF RideInv

\* Scooter s is written, and no request is about to end its ride unless it was deleted.
LEMMA OneScooter ==
  ASSUME RideInv, NEW s \in Scooters, UNCHANGED <<image, disturbed>>,
         \A r \in Scooters \ {s} : status'[r] = status[r] /\ rider'[r] = rider[r],
         \A r \in Scooters : /\ Ending(r)' \subseteq Ending(r)
                             /\ \A q \in Ending(r)' : by'[q] = by[q],
         s \notin disturbed => Ending(s)' = {} \/ status'[s] = "deleted",
         s \notin disturbed /\ status'[s] # "riding" => rider'[s] = Nobody
  PROVE  RideInv'
<1>1. EndingInv'
  BY DEF RideInv, EndingInv
<1>2. FreeHasNobody(status, rider)' /\ FreeHasNobody(image.status, image.rider)'
  BY DEF RideInv, FreeHasNobody
<1> QED
  BY <1>1, <1>2 DEF RideInv

\* Every step keeps the rides apart.
LEMMA RideStep ==
  ASSUME WalletAssumption, TypeOK, SlotInv, RideInv, [Next]_vars
  PROVE  RideInv'
<1> DEFINE Kept(s) == /\ Ending(s)' \subseteq Ending(s)
                      /\ \A q \in Ending(s)' : by'[q] = by[q]
<1>0. ASSUME NEW p \in Slots
      PROVE  /\ Done(p) => \A s \in Scooters : Kept(s)
             /\ \A w \in PCs \ {"endWait", "endFree"} :
                  Goto(p, w) => \A s \in Scooters : Kept(s)
  BY EndingAfter
<1>1. ASSUME NEW p \in Slots, NEW u \in Users, NEW t \in Scooters, NEW f \in Fares,
             EndRide(p, u, t, f)
      PROVE  RideInv'
  <2>1. /\ UNCHANGED <<status, rider, image>> /\ rider[t] = u /\ status[t] \in {"available", "riding"}
        /\ disturbed' = disturbed \cup {r \in {t} : Ending(t) # {}}
    BY <1>1 DEF EndRide, db
  <2>2. \A s \in Scooters \ {t} : Ending(s)' \subseteq Ending(s) /\ \A q \in Ending(s) : by'[q] = by[q]
    BY <1>1 DEF EndRide, Request, Ending, TypeOK
  <2>3. Ending(t)' \subseteq Ending(t) \cup {p} /\ by'[p] = u
    BY <1>1 DEF EndRide, Request, Ending, TypeOK
  <2>4. EndingInv'
    <3> SUFFICES ASSUME NEW s \in Scooters, s \notin disturbed', NEW q \in Ending(s)'
                 PROVE  /\ Ending(s)' = {q}
                        /\ status[s] = "deleted" \/ (status[s] = "riding" /\ rider[s] = by'[q])
      BY <2>1 DEF EndingInv
    <3>1. CASE s # t
      BY <2>1, <2>2, <3>1 DEF RideInv, EndingInv
    <3>2. CASE s = t
      <4>1. Ending(t) = {} /\ t \notin disturbed
        BY <2>1, <3>2
      <4>2. Ending(t)' = {p} /\ q = p
        BY <2>3, <3>2, <4>1
      <4>3. status[t] = "riding"
        BY <2>1, <4>1 DEF RideInv, FreeHasNobody, WalletAssumption
      <4> QED
        BY <2>1, <2>3, <3>2, <4>2, <4>3
    <3> QED
      BY <3>1, <3>2
  <2>5. FreeHasNobody(status, rider)' /\ FreeHasNobody(image.status, image.rider)'
    BY <2>1 DEF RideInv, FreeHasNobody
  <2> QED
    BY <2>4, <2>5 DEF RideInv
<1>2. ASSUME NEW p \in Slots, NEW u \in Users,
             \/ \E s \in Scooters : Unlock(p, u, s)
             \/ \E f \in Fares : SettleFare(p, u, f)
             \/ TopUpWallet(p, u)
      PROVE  RideInv'
  <2>1. ASSUME NEW s, NEW a, NEW w \in {"gate", "fareWait", "topAdd"}, Request(p, u, s, a, w)
        PROVE  \A r \in Scooters : Kept(r)
    BY <2>1 DEF Request, Ending, TypeOK
  <2>2. \A r \in Scooters : Kept(r)
    BY <1>2, <2>1 DEF Unlock, SettleFare, TopUpWallet
  <2>3. UNCHANGED <<status, rider, disturbed, image>>
    BY <1>2 DEF Unlock, SettleFare, TopUpWallet, db
  <2> QED
    BY <2>2, <2>3, RidesAlone
<1>3. ASSUME NEW p \in Slots,
             \/ UnlockGate(p) \/ UnlockRecord(p) \/ EndRecord(p) \/ Deduct(p) \/ LogPayment(p)
             \/ FareStatus(p) \/ Commit(p) \/ TopUpAdd(p) \/ TopUpLog(p)
             \/ TxFails(p) \/ FareLogFails(p) \/ RequestFails(p)
      PROVE  RideInv'
  <2>1. Done(p) \/ \E w \in PCs \ {"endWait", "endFree"} : Goto(p, w)
    BY <1>3 DEF UnlockGate, UnlockRecord, EndRecord, Deduct, LogPayment, FareStatus, Commit,
       TopUpAdd, TopUpLog, TxFails, FareLogFails, RequestFails, PCs, InTx, EndBody, FareBody
  <2>2. \A r \in Scooters : Kept(r)
    BY <1>0, <2>1
  <2>3. UNCHANGED <<status, rider, disturbed, image>>
    BY <1>3 DEF UnlockGate, UnlockRecord, EndRecord, Deduct, LogPayment, FareStatus, Commit,
       TopUpAdd, TopUpLog, TxFails, FareLogFails, RequestFails, db
  <2> QED
    BY <2>2, <2>3, RidesAlone
<1>4. ASSUME NEW p \in Slots, BeginTx(p) PROVE RideInv'
  <2>1. \A r \in Scooters : Kept(r)
    BY <1>4, EndingAfter DEF BeginTx
  <2>2. UNCHANGED <<status, rider, disturbed>> /\ image' = Snapshot
    BY <1>4 DEF BeginTx, db
  <2> QED
    BY <2>1, <2>2, RidesAlone
<1>5. ASSUME NEW p \in Slots, UnlockClaim(p) PROVE RideInv'
  <2>0. PICK t \in Scooters : t = on[p]
    BY <1>5 DEF SlotInv, UnlockClaim
  <2>1. \A r \in Scooters : Kept(r)
    BY <1>0, <1>5 DEF UnlockClaim, PCs
  <2>2. UNCHANGED <<image, disturbed>>
    BY <1>5 DEF UnlockClaim
  <2>3. CASE status[on[p]] # "available"
    BY <1>5, <2>1, <2>2, <2>3, RidesAlone DEF UnlockClaim
  <2>4. CASE status[on[p]] = "available"
    <3>1. status[t] = "available"
      BY <2>0, <2>4
    <3>2. /\ \A r \in Scooters \ {t} : status'[r] = status[r] /\ rider'[r] = rider[r]
          /\ status'[t] = "riding"
      BY <1>5, <2>0, <2>4 DEF UnlockClaim, TypeOK
    <3>3. t \notin disturbed => Ending(t)' = {}
      BY <2>1, <3>1 DEF RideInv, EndingInv
    <3> QED
      BY <2>1, <2>2, <3>2, <3>3, OneScooter
  <2> QED
    BY <2>3, <2>4
<1>6. ASSUME NEW p \in Slots, EndFree(p) PROVE RideInv'
  <2>0. PICK t \in Scooters : t = on[p]
    BY <1>6 DEF SlotInv, EndFree
  <2>1. \A r \in Scooters : Kept(r)
    BY <1>0, <1>6 DEF EndFree, PCs, InTx, EndBody
  <2>2. UNCHANGED <<image, disturbed>>
    BY <1>6 DEF EndFree
  <2>3. CASE status[on[p]] \notin {"available", "riding"}
    BY <1>6, <2>1, <2>2, <2>3, RidesAlone DEF EndFree
  <2>4. CASE status[on[p]] \in {"available", "riding"}
    <3>1. p \in Ending(t)
      BY <1>6, <2>0 DEF EndFree, Ending
    <3>2. /\ \A r \in Scooters \ {t} : status'[r] = status[r] /\ rider'[r] = rider[r]
          /\ rider'[t] = Nobody
      BY <1>6, <2>0, <2>4 DEF EndFree, TypeOK
    <3>3. Ending(t)' \subseteq Ending(t) \ {p}
      BY <1>6, EndingAfter DEF EndFree, PCs, InTx, EndBody
    <3>4. t \notin disturbed => Ending(t)' = {}
      BY <3>1, <3>3 DEF RideInv, EndingInv
    <3> QED
      BY <2>1, <2>2, <3>2, <3>4, OneScooter
  <2> QED
    BY <2>3, <2>4
<1>7. ASSUME NEW p \in Slots, Rollback(p) PROVE RideInv'
  <2>1. \A r \in Scooters : Kept(r)
    BY <1>0, <1>7 DEF Rollback
  <2> QED
    BY <1>7, <2>1, RidesRestored DEF Rollback
<1>8. ASSUME ResetScooters PROVE RideInv'
  <2>1. /\ UNCHANGED <<rider, image, pc, on, by>>
        /\ disturbed' = disturbed \cup {s \in Scooters : status[s] = "riding"}
        /\ \A s \in Scooters \ disturbed' : status'[s] = status[s]
    BY <1>8 DEF ResetScooters, slotVars
  <2>2. \A s \in Scooters : Ending(s)' = Ending(s)
    BY <2>1 DEF Ending
  <2>3. EndingInv'
    BY <2>1, <2>2 DEF RideInv, EndingInv
  <2>4. FreeHasNobody(status, rider)' /\ FreeHasNobody(image.status, image.rider)'
    BY <2>1 DEF RideInv, FreeHasNobody
  <2> QED
    BY <2>3, <2>4 DEF RideInv
<1>9. ASSUME NEW s \in Scooters, AddScooter(s) \/ DeleteScooter(s) PROVE RideInv'
  <2>1. UNCHANGED <<image, disturbed, pc, on, by>>
    BY <1>9 DEF AddScooter, DeleteScooter, slotVars
  <2>2. \A r \in Scooters : Kept(r)
    BY <2>1 DEF Ending
  <2>3. CASE AddScooter(s)
    <3>1. /\ \A r \in Scooters \ {s} : status'[r] = status[r] /\ rider'[r] = rider[r]
          /\ status[s] = "none" /\ rider'[s] = rider[s]
      BY <2>3 DEF AddScooter, TypeOK
    <3>2. s \notin disturbed => Ending(s)' = {} /\ rider'[s] = Nobody
      BY <2>2, <3>1 DEF RideInv, EndingInv, FreeHasNobody
    <3> QED
      BY <2>1, <2>2, <3>1, <3>2, OneScooter
  <2>4. CASE DeleteScooter(s)
    <3>1. /\ \A r \in Scooters \ {s} : status'[r] = status[r] /\ rider'[r] = rider[r]
          /\ status'[s] = "deleted" /\ rider'[s] = Nobody
      BY <2>4 DEF DeleteScooter, TypeOK
    <3> QED
      BY <2>1, <2>2, <3>1, OneScooter
  <2> QED
    BY <1>9, <2>3, <2>4
<1>10. ASSUME Restart PROVE RideInv'
  <2>1. \A s \in Scooters : Ending(s)' = {}
    BY <1>10 DEF Restart, Ending
  <2>2. /\ image' = image /\ disturbed' = disturbed
        /\ UNCHANGED <<status, rider>> \/ Restored
    BY <1>10 DEF Restart, db
  <2>3. EndingInv'
    BY <2>1 DEF EndingInv
  <2>4. FreeHasNobody(status, rider)' /\ FreeHasNobody(image.status, image.rider)'
    BY <2>2 DEF RideInv, FreeHasNobody, Restored
  <2> QED
    BY <2>3, <2>4 DEF RideInv
<1>11. CASE UNCHANGED vars
  <2>1. UNCHANGED <<status, rider, disturbed, image, pc, on, by>>
    BY <1>11 DEF vars
  <2>2. \A s \in Scooters : Kept(s)
    BY <2>1 DEF Ending
  <2> QED
    BY <2>1, <2>2, RidesAlone
<1> QED
  BY <1>1, <1>2, <1>3, <1>4, <1>5, <1>6, <1>7, <1>8, <1>9, <1>10, <1>11 DEF Next, Step, Call

----------------------------------------------------------------------------
\* The initial states satisfy the invariant.
LEMMA InitIInv ==
  ASSUME WalletAssumption, Init
  PROVE  IInv
<1>1. \A p \in Slots : pc[p] = "idle"
  BY DEF Init
<1>2. Midway \subseteq Users
  BY <1>1 DEF Midway
<1>3. TypeOK
  <2>1. /\ status \in [Scooters -> Statuses]
        /\ rider \in [Scooters -> Users \cup {Nobody}]
        /\ active \in [Scooters -> [Users -> Nat]]
        /\ balance \in [Users -> Int] /\ ledger \in [Users -> Int]
    BY DEF Init, Statuses, WalletAssumption
  <2>2. image \in Rows
    BY <1>2, <2>1 DEF Init, Snapshot, Rows
  <2>3. calls \in 0..MaxCalls /\ faults \in 0..MaxFaults
    BY SMTT(30) DEF Init, WalletAssumption
  <2> QED
    BY <2>1, <2>2, <2>3 DEF Init, TypeOK, PCs
<1>4. SlotInv
  BY <1>1 DEF SlotInv
<1>5. HolderInv
  BY <1>1 DEF Init, HolderInv, InTx, EndBody, FareBody, WalletAssumption
<1>6. FundsInv
  BY SMTT(30) DEF Init, FundsInv, Snapshot, WalletAssumption
<1>7. RideInv
  <2>1. \A s \in Scooters : Ending(s) = {} /\ rider[s] = Nobody /\ image.rider[s] = Nobody
    BY <1>1 DEF Init, Ending, Snapshot
  <2> QED
    BY <2>1 DEF RideInv, EndingInv, FreeHasNobody
<1> QED
  BY <1>3, <1>4, <1>5, <1>6, <1>7 DEF IInv

\* Every step preserves it.
LEMMA StepIInv ==
  ASSUME WalletAssumption, IInv, [Next]_vars
  PROVE  IInv'
<1>1. TypeOK' /\ SlotInv' /\ HolderInv' /\ FundsInv' /\ RideInv'
  BY TypeStep, SlotStep, HolderStep, FundsStep, RideStep DEF IInv
<1> QED
  BY <1>1 DEF IInv

\* The invariant holds in every reachable state.
THEOREM WalletInvariant == Spec => []IInv
<1>1. Init => IInv
  BY InitIInv, WalletAssumption
<1>2. IInv /\ [Next]_vars => IInv'
  BY StepIInv, WalletAssumption
<1> QED
  BY <1>1, <1>2, PTL DEF Spec

\* The types hold in every reachable state.
THEOREM TypeCorrect == Spec => []TypeOK
<1>1. IInv => TypeOK
  BY DEF IInv
<1> QED
  BY <1>1, WalletInvariant, PTL

\* No interleaving of rides, fares and top-ups overdraws a wallet, and no
\* rollback brings back an overdrawn one.
THEOREM WalletsNeverOverdrawn == Spec => []NeverOverdrawn
<1>1. IInv => NeverOverdrawn
  BY DEF IInv, FundsInv, NeverOverdrawn
<1> QED
  BY <1>1, WalletInvariant, PTL

\* Whatever happens while an end-ride waits for its transaction, it ends the ride
\* of its own user, but for the three disturbances that OwnRideIsEnded names.
THEOREM RideEndsAreOwn == Spec => []OwnRideIsEnded
<1>1. IInv => OwnRideIsEnded
  BY DEF IInv, RideInv, EndingInv, OwnRideIsEnded
<1> QED
  BY <1>1, WalletInvariant, PTL

\* A scooter being ridden passes to another rider only when the database of
\* an open transaction's BEGIN is brought back.
THEOREM ClaimsAreExclusive == Spec => RiddenIsNotReclaimed
<1> DEFINE Safe ==
      \A s \in Scooters :
        status[s] = "riding" /\ rider'[s] # rider[s] /\ rider'[s] # Nobody
          => holder # Nobody /\ Restored
<1>1. IInv /\ [Next]_vars => [Safe]_vars
  <2> SUFFICES ASSUME IInv, [Next]_vars, NEW s \in Scooters,
                      status[s] = "riding", rider'[s] # rider[s],
                      rider'[s] # Nobody
               PROVE  holder # Nobody /\ Restored
    OBVIOUS
  <2>1. rider' # rider
    OBVIOUS
  <2>2. rider \in [Scooters -> Users \cup {Nobody}]
    BY DEF IInv, TypeOK
  <2>3. CASE UNCHANGED vars
    BY <2>1, <2>3 DEF vars
  <2>4. ASSUME NEW p \in Slots, UnlockClaim(p) PROVE FALSE
    <3>1. on[p] \in Scooters
      BY <2>4 DEF IInv, SlotInv, UnlockClaim
    <3> QED
      BY <2>1, <2>2, <2>4, <3>1 DEF UnlockClaim
  <2>5. ASSUME NEW p \in Slots, EndFree(p) PROVE FALSE
    BY <2>1, <2>2, <2>5 DEF EndFree
  <2>6. ASSUME NEW p \in Slots, Rollback(p) PROVE holder # Nobody /\ Restored
    <3>1. holder = p
      BY <2>6 DEF IInv, HolderInv, Rollback, InTx
    <3> QED
      BY <2>6, <3>1, WalletAssumption DEF Rollback, WalletAssumption
  <2>7. ASSUME NEW t \in Scooters, DeleteScooter(t) PROVE FALSE
    BY <2>1, <2>2, <2>7 DEF DeleteScooter
  <2>8. CASE Restart
    BY <2>1, <2>8 DEF Restart, db
  <2>9. ASSUME NEW p \in Slots, Call(p) PROVE FALSE
    BY <2>1, <2>9 DEF Call, Unlock, EndRide, SettleFare, TopUpWallet, db
  <2>10. ASSUME NEW p \in Slots,
                \/ UnlockGate(p) \/ UnlockRecord(p) \/ BeginTx(p)
                \/ EndRecord(p) \/ Deduct(p) \/ LogPayment(p)
                \/ FareStatus(p) \/ Commit(p) \/ TopUpAdd(p) \/ TopUpLog(p)
                \/ TxFails(p) \/ FareLogFails(p) \/ RequestFails(p)
         PROVE  FALSE
    BY <2>1, <2>10 DEF UnlockGate, UnlockRecord, BeginTx, EndRecord, Deduct,
       LogPayment, FareStatus, Commit, TopUpAdd, TopUpLog, TxFails,
       FareLogFails, RequestFails, db
  <2>11. CASE ResetScooters \/ \E t \in Scooters : AddScooter(t)
    BY <2>1, <2>11 DEF ResetScooters, AddScooter
  <2> QED
    BY <2>3, <2>4, <2>5, <2>6, <2>7, <2>8, <2>9, <2>10, <2>11 DEF Next, Step
<1> QED
  BY <1>1, WalletInvariant, PTL DEF Spec, RiddenIsNotReclaimed

----------------------------------------------------------------------------
(* The ledger.                                                             *)

\* The top-ups of a user between the credit and its row.
Tops(u) == {p \in Slots : pc[p] = "topLog" /\ by[p] = u}

\* What the open transaction has taken from a user and not logged yet.
Taken(u) ==
  IF \E p \in Slots : p = holder /\ by[p] = u /\ pc[p] \in {"endLog", "fareLog"}
  THEN amt[holder] ELSE 0

\* Top-ups carry the amount of a charge, and the database of BEGIN was in order except for the users
\* with a top-up under way then: what makes a rollback harmless to everybody else.
LedgerInv ==
  /\ IsFiniteSet({p \in Slots : pc[p] = "topLog"})
  /\ \A p \in Slots : pc[p] \in {"topAdd", "topLog"} => amt[p] = TopUp
  /\ \A u \in Users \ torn : holder # Nobody /\ u \notin image.midway
       => image.balance[u] = Opening + image.ledger[u]
  /\ LedgerExplainsBalance

\* The step is about slot p.
Only(p) ==
  /\ pc' \in [Slots -> PCs] /\ by' \in [Slots -> Users \cup {Nobody}] /\ amt' \in [Slots -> Nat]
  /\ \A q \in Slots \ {p} : pc'[q] = pc[q] /\ by'[q] = by[q] /\ amt'[q] = amt[q]

\* Moving on, being answered and beginning are about one slot.
LEMMA OneSlot ==
  ASSUME WalletAssumption, TypeOK, NEW p \in Slots
  PROVE  /\ \A w \in PCs : Goto(p, w) => Only(p) /\ pc'[p] = w /\ by'[p] = by[p] /\ amt'[p] = amt[p]
         /\ Done(p) => Only(p) /\ pc'[p] = "idle"
         /\ \A u \in Users, s \in Scooters \cup {Nobody}, a \in Nat, w \in PCs :
              Request(p, u, s, a, w) => Only(p) /\ pc[p] = "idle" /\ pc'[p] = w /\ amt'[p] = a
<1> USE DEF TypeOK, Only
<1>1. \A w \in PCs : Goto(p, w) => Only(p) /\ pc'[p] = w /\ by'[p] = by[p] /\ amt'[p] = amt[p]
  BY DEF Goto
<1>2. Done(p) => Only(p) /\ pc'[p] = "idle"
  BY DEF Done, PCs
<1>3. \A u \in Users, s \in Scooters \cup {Nobody}, a \in Nat, w \in PCs :
        Request(p, u, s, a, w) => Only(p) /\ pc[p] = "idle" /\ pc'[p] = w /\ amt'[p] = a
  BY DEF Request
<1> QED
  BY <1>1, <1>2, <1>3

\* The money of a user is where it was when neither his top-ups nor what is taken from him change.
LEMMA SameMoney ==
  ASSUME NEW u \in Users, Tops(u)' = Tops(u), Taken(u)' = Taken(u),
         balance' = balance, ledger' = ledger,
         balance[u] = Opening + ledger[u] + InFlight(u)
  PROVE  balance'[u] = Opening + ledger'[u] + InFlight(u)'
<1>1. InFlight(u) = TopUp * Cardinality(Tops(u)) - Taken(u)
  BY DEF InFlight, Tops, Taken
<1>2. InFlight(u)' = TopUp * Cardinality(Tops(u)') - Taken(u)'
  BY DEF InFlight, Tops, Taken
<1> QED
  BY <1>1, <1>2

\* The same for a step about a slot that is not, and does not become, one with money on its way.
LEMMA SameTops ==
  ASSUME TypeOK, NEW p \in Slots, Only(p), pc[p] # "topLog", pc'[p] # "topLog"
  PROVE  /\ \A u \in Users : Tops(u)' = Tops(u)
         /\ {q \in Slots : pc[q] = "topLog"}' = {q \in Slots : pc[q] = "topLog"}
BY DEF TypeOK, Only, Tops

LEMMA SameTaken ==
  ASSUME TypeOK, NEW p \in Slots, Only(p), holder' = holder, NEW u \in Users,
         p # holder \/ (pc[p] \notin {"endLog", "fareLog"} /\ pc'[p] \notin {"endLog", "fareLog"})
  PROVE  Taken(u)' = Taken(u)
<1>1. CASE p = holder
  BY <1>1 DEF Taken
<1>2. CASE p # holder
  BY <1>2 DEF TypeOK, Only, Taken
<1> QED
  BY <1>1, <1>2

\* A step that moves no money keeps the books.
LEMMA Quiet ==
  ASSUME TypeOK, LedgerInv, NEW p \in Slots, Only(p),
         holder' = holder, image' = image, balance' = balance, ledger' = ledger, torn \subseteq torn',
         pc[p] \notin {"topLog", "endLog", "fareLog", "rollback"},
         pc'[p] \notin {"topLog", "endLog", "fareLog"},
         pc'[p] = "topAdd" => amt'[p] = TopUp
  PROVE  LedgerInv'
<1>1. IsFiniteSet({q \in Slots : pc[q] = "topLog"})'
  BY SameTops DEF LedgerInv
<1>2. (\A q \in Slots : pc[q] \in {"topAdd", "topLog"} => amt[q] = TopUp)'
  BY DEF LedgerInv, Only
<1>3. (\A u \in Users \ torn : holder # Nobody /\ u \notin image.midway
         => image.balance[u] = Opening + image.ledger[u])'
  BY DEF LedgerInv
<1>4. LedgerExplainsBalance'
  <2> SUFFICES ASSUME NEW u \in Users, u \notin torn', ~(holder # Nobody /\ pc[holder] = "rollback")'
               PROVE  balance'[u] = Opening + ledger'[u] + InFlight(u)'
    BY DEF LedgerExplainsBalance
  <2>1. ~(holder # Nobody /\ pc[holder] = "rollback")
    BY DEF TypeOK, Only
  <2>2. balance[u] = Opening + ledger[u] + InFlight(u)
    BY <2>1 DEF LedgerInv, LedgerExplainsBalance
  <2>3. Tops(u)' = Tops(u) /\ Taken(u)' = Taken(u)
    BY SameTops, SameTaken
  <2> QED
    BY <2>2, <2>3, SameMoney
<1> QED
  BY <1>1, <1>2, <1>3, <1>4 DEF LedgerInv

\* What a rollback brings back is in order for everybody who is not torn by it.
LEMMA BackToBegin ==
  ASSUME WalletAssumption, TypeOK, LedgerInv, holder # Nobody, Restored, holder' = Nobody,
         torn' = torn \cup Midway \cup image.midway, NEW u \in Users, u \notin torn',
         Tops(u)' = {}
  PROVE  balance'[u] = Opening + ledger'[u] + InFlight(u)'
<1>1. image.balance[u] = Opening + image.ledger[u] /\ image.ledger[u] \in Int /\ Opening \in Int
  BY DEF LedgerInv, TypeOK, Rows, WalletAssumption
<1>2. Taken(u)' = 0
  BY DEF Taken, WalletAssumption
<1>3. InFlight(u)' = TopUp * 0 - 0
  BY <1>2, FS_EmptySet DEF InFlight, Tops, Taken
<1>4. InFlight(u)' = 0
  BY <1>3, SMTT(30) DEF WalletAssumption
<1> QED
  BY <1>1, <1>4, SMTT(30) DEF Restored

\* A user who is not Midway has no top-up under way.
LEMMA NotMidway ==
  ASSUME NEW u \in Users, u \notin Midway
  PROVE  Tops(u) = {}
BY DEF Midway, Tops

\* Every step keeps the books.
LEMMA LedgerStep ==
  ASSUME WalletAssumption, TypeOK, SlotInv, HolderInv, LedgerInv, TypeOK', [Next]_vars
  PROVE  LedgerInv'
<1> DEFINE Explained(u) == balance[u] = Opening + ledger[u] + InFlight(u)
<1>a. \A u \in Users : /\ InFlight(u) = TopUp * Cardinality(Tops(u)) - Taken(u)
                       /\ InFlight(u)' = TopUp * Cardinality(Tops(u)') - Taken(u)'
  BY DEF InFlight, Tops, Taken
<1>b. \A u \in Users : /\ IsFiniteSet(Tops(u)) /\ Cardinality(Tops(u)) \in Nat
                       /\ Taken(u) \in Int
  <2> SUFFICES ASSUME NEW u \in Users
               PROVE  IsFiniteSet(Tops(u)) /\ Cardinality(Tops(u)) \in Nat /\ Taken(u) \in Int
    OBVIOUS
  <2>1. Tops(u) \subseteq {p \in Slots : pc[p] = "topLog"}
    BY DEF Tops
  <2>2. IsFiniteSet(Tops(u))
    BY <2>1, FS_Subset DEF LedgerInv
  <2>3. Taken(u) \in Int
    BY DEF Taken, TypeOK
  <2> QED
    BY <2>2, <2>3, FS_CardinalityType
<1>c. TopUp \in Nat /\ Opening \in Nat /\ Nobody \notin Slots
  BY DEF WalletAssumption
<1>1. ASSUME NEW p \in Slots, Call(p) PROVE LedgerInv'
  <2>1. /\ Only(p) /\ pc[p] = "idle"
        /\ pc'[p] \in {"gate", "endWait", "fareWait", "topAdd"}
        /\ pc'[p] = "topAdd" => amt'[p] = TopUp
    BY <1>1, OneSlot DEF Call, Unlock, EndRide, SettleFare, TopUpWallet, WalletAssumption, PCs
  <2>2. UNCHANGED <<holder, image, balance, ledger, torn>>
    BY <1>1 DEF Call, Unlock, EndRide, SettleFare, TopUpWallet, db
  <2> QED
    BY <2>1, <2>2, Quiet
<1>2. ASSUME NEW p \in Slots, UnlockGate(p) \/ UnlockClaim(p) \/ UnlockRecord(p) PROVE LedgerInv'
  <2>1. /\ Only(p) /\ pc[p] \in {"gate", "claim", "record"} /\ pc'[p] \in {"claim", "record", "idle"}
    BY <1>2, OneSlot DEF UnlockGate, UnlockClaim, UnlockRecord, PCs
  <2>2. UNCHANGED <<holder, image, balance, ledger, torn>>
    BY <1>2 DEF UnlockGate, UnlockClaim, UnlockRecord, db
  <2> QED
    BY <2>1, <2>2, Quiet
<1>3. ASSUME NEW p \in Slots, EndFree(p) \/ EndRecord(p) \/ FareStatus(p) PROVE LedgerInv'
  <2>1. /\ Only(p) /\ pc[p] \in {"endFree", "endRecord", "fareStatus"}
        /\ pc'[p] \in {"endRecord", "endDeduct", "commit"}
    BY <1>3, OneSlot DEF EndFree, EndRecord, FareStatus, PCs, InTx, EndBody, FareBody
  <2>2. UNCHANGED <<holder, image, balance, ledger, torn>>
    BY <1>3 DEF EndFree, EndRecord, FareStatus, db
  <2> QED
    BY <2>1, <2>2, Quiet
<1>4. ASSUME NEW p \in Slots, BeginTx(p) PROVE LedgerInv'
  <2>1. /\ Only(p) /\ pc[p] \in {"endWait", "fareWait"} /\ pc'[p] \in {"endFree", "fareDeduct"}
    BY <1>4, OneSlot DEF BeginTx, PCs, InTx, EndBody, FareBody
  <2>2. /\ holder = Nobody /\ holder' = p /\ image' = Snapshot
        /\ UNCHANGED <<balance, ledger, torn>>
    BY <1>4 DEF BeginTx, db
  <2>3. ASSUME NEW u \in Users \ torn
        PROVE  /\ Tops(u)' = Tops(u) /\ Taken(u)' = 0 /\ Taken(u) = 0
               /\ Explained(u) /\ Explained(u)'
    <3>1. Tops(u)' = Tops(u)
      BY <2>1, SameTops
    <3>2. Taken(u)' = 0 /\ Taken(u) = 0
      BY <1>c, <2>1, <2>2 DEF Taken
    <3>3. Explained(u)
      BY <2>2 DEF LedgerInv, LedgerExplainsBalance
    <3>4. Explained(u)'
      BY <2>2, <3>1, <3>2, <3>3, SameMoney
    <3> QED
      BY <3>1, <3>2, <3>3, <3>4
  <2>4. ASSUME NEW u \in Users \ torn, u \notin Midway
        PROVE  balance[u] = Opening + ledger[u]
    <3>1. Tops(u) = {}
      BY <2>4, NotMidway
    <3>2. InFlight(u) = TopUp * 0 - 0
      BY <1>a, <2>3, <3>1, FS_EmptySet
    <3> QED
      BY <1>c, <2>3, <3>2, SMTT(30) DEF TypeOK
  <2>5. IsFiniteSet({q \in Slots : pc[q] = "topLog"})'
    BY <2>1, SameTops DEF LedgerInv
  <2>6. (\A q \in Slots : pc[q] \in {"topAdd", "topLog"} => amt[q] = TopUp)'
    BY <2>1 DEF LedgerInv, Only
  <2>7. (\A u \in Users \ torn : holder # Nobody /\ u \notin image.midway
           => image.balance[u] = Opening + image.ledger[u])'
    BY <2>2, <2>4 DEF Snapshot
  <2>8. LedgerExplainsBalance'
    BY <2>2, <2>3 DEF LedgerExplainsBalance
  <2> QED
    BY <2>5, <2>6, <2>7, <2>8 DEF LedgerInv
<1>5. ASSUME NEW p \in Slots, Deduct(p) PROVE LedgerInv'
  <2>0. p = holder /\ by[p] \in Users
    BY <1>5 DEF Deduct, HolderInv, SlotInv, InTx, EndBody, FareBody
  <2>1. CASE balance[by[p]] >= amt[p]
    <3>1. /\ Only(p) /\ pc[p] \in {"endDeduct", "fareDeduct"} /\ pc'[p] \in {"endLog", "fareLog"}
          /\ by'[p] = by[p] /\ amt'[p] = amt[p]
      BY <1>5, <2>1, OneSlot DEF Deduct, PCs, InTx, EndBody, FareBody
    <3>2. /\ balance' = [balance EXCEPT ![by[p]] = @ - amt[p]]
          /\ UNCHANGED <<holder, image, ledger, torn>>
      BY <1>5, <2>1 DEF Deduct
    <3>3. ASSUME NEW u \in Users \ torn PROVE Explained(u)'
      <4>1. Explained(u)
        BY <2>0, <3>1 DEF LedgerInv, LedgerExplainsBalance
      <4>2. Tops(u)' = Tops(u)
        BY <3>1, SameTops
      <4>3. Taken(u) = 0
        BY <2>0, <3>1 DEF Taken
      <4>4. CASE u = by[p]
        <5>1. Taken(u)' = amt[p]
          BY <2>0, <3>1, <3>2, <4>4 DEF Taken
        <5>2. balance'[u] = balance[u] - amt[p]
          BY <3>2, <4>4 DEF TypeOK
        <5>3. amt[p] \in Int /\ balance[u] \in Int /\ ledger[u] \in Int
          BY DEF TypeOK
        <5> HIDE DEF Explained
        <5>4. balance[u] = Opening + ledger[u] + TopUp * Cardinality(Tops(u)) - 0
          BY <1>a, <1>b, <1>c, <4>1, <4>3, <5>3, SMTT(30) DEF Explained
        <5>5. InFlight(u)' = TopUp * Cardinality(Tops(u)) - amt[p]
          BY <1>a, <4>2, <5>1
        <5>6. balance'[u] = Opening + ledger[u] + InFlight(u)'
          BY <1>b, <1>c, <5>2, <5>3, <5>4, <5>5, SMTT(30)
        <5> QED
          BY <3>2, <5>6 DEF Explained
      <4>5. CASE u # by[p]
        <5>1. Taken(u)' = 0
          BY <2>0, <3>1, <3>2, <4>5 DEF Taken
        <5>2. balance'[u] = balance[u]
          BY <3>2, <4>5 DEF TypeOK
        <5> QED
          BY <1>a, <3>2, <4>1, <4>2, <4>3, <5>1, <5>2
      <4> QED
        BY <4>4, <4>5
    <3>4. IsFiniteSet({q \in Slots : pc[q] = "topLog"})'
      BY <3>1, SameTops DEF LedgerInv
    <3>5. (\A q \in Slots : pc[q] \in {"topAdd", "topLog"} => amt[q] = TopUp)'
      BY <3>1 DEF LedgerInv, Only
    <3>6. LedgerExplainsBalance'
      BY <3>2, <3>3 DEF LedgerExplainsBalance
    <3> QED
      BY <3>2, <3>4, <3>5, <3>6 DEF LedgerInv
  <2>2. CASE ~(balance[by[p]] >= amt[p])
    <3>1. /\ Only(p) /\ pc[p] \in {"endDeduct", "fareDeduct"} /\ pc'[p] \in {"commit", "fareStatus"}
      BY <1>5, <2>2, OneSlot DEF Deduct, PCs, InTx, EndBody, FareBody
    <3>2. UNCHANGED <<holder, image, balance, ledger, torn>>
      BY <1>5, <2>2 DEF Deduct
    <3> QED
      BY <3>1, <3>2, Quiet
  <2> QED
    BY <2>1, <2>2
<1>6. ASSUME NEW p \in Slots, LogPayment(p) PROVE LedgerInv'
  <2>0. p = holder /\ by[p] \in Users
    BY <1>6 DEF LogPayment, HolderInv, SlotInv, InTx, EndBody, FareBody
  <2>1. /\ Only(p) /\ pc[p] \in {"endLog", "fareLog"} /\ pc'[p] \in {"commit", "fareStatus"}
    BY <1>6, OneSlot DEF LogPayment, PCs, InTx, EndBody, FareBody
  <2>2. /\ ledger' = [ledger EXCEPT ![by[p]] = @ - amt[p]]
        /\ UNCHANGED <<holder, image, balance, torn>>
    BY <1>6 DEF LogPayment
  <2>3. ASSUME NEW u \in Users \ torn PROVE Explained(u)'
    <3>1. Explained(u)
      BY <2>0, <2>1 DEF LedgerInv, LedgerExplainsBalance
    <3>2. Tops(u)' = Tops(u)
      BY <2>1, SameTops
    <3>3. Taken(u)' = 0
      BY <2>0, <2>1, <2>2 DEF Taken
    <3>4. CASE u = by[p]
      <4>1. Taken(u) = amt[p]
        BY <2>0, <2>1, <3>4 DEF Taken
      <4>2. ledger'[u] = ledger[u] - amt[p]
        BY <2>2, <3>4 DEF TypeOK
      <4>3. amt[p] \in Int /\ balance[u] \in Int /\ ledger[u] \in Int
        BY DEF TypeOK
      <4>4. balance[u] = Opening + ledger[u] + (TopUp * Cardinality(Tops(u)) - amt[p])
        BY <1>a, <3>1, <4>1
      <4>5. InFlight(u)' = TopUp * Cardinality(Tops(u)) - 0
        BY <1>a, <3>2, <3>3
      <4>6. balance[u] = Opening + ledger'[u] + InFlight(u)'
        BY <1>b, <1>c, <4>2, <4>3, <4>4, <4>5, SMTT(30)
      <4> QED
        BY <2>2, <4>6
    <3>5. CASE u # by[p]
      <4>1. Taken(u) = 0
        BY <2>0, <3>5 DEF Taken
      <4>2. ledger'[u] = ledger[u]
        BY <2>2, <3>5 DEF TypeOK
      <4> QED
        BY <1>a, <2>2, <3>1, <3>2, <3>3, <4>1, <4>2
    <3> QED
      BY <3>4, <3>5
  <2>4. IsFiniteSet({q \in Slots : pc[q] = "topLog"})'
    BY <2>1, SameTops DEF LedgerInv
  <2>5. (\A q \in Slots : pc[q] \in {"topAdd", "topLog"} => amt[q] = TopUp)'
    BY <2>1 DEF LedgerInv, Only
  <2>6. LedgerExplainsBalance'
    BY <2>2, <2>3 DEF LedgerExplainsBalance
  <2> QED
    BY <2>2, <2>4, <2>5, <2>6 DEF LedgerInv
<1>7. ASSUME NEW p \in Slots, Commit(p) PROVE LedgerInv'
  <2>1. /\ p = holder /\ Only(p) /\ pc[p] = "commit" /\ pc'[p] = "idle"
        /\ holder' = Nobody /\ UNCHANGED <<image, balance, ledger, torn>>
    BY <1>7, OneSlot DEF Commit, HolderInv, InTx, db
  <2>2. ASSUME NEW u \in Users \ torn PROVE Explained(u)'
    <3>1. Explained(u)
      BY <2>1 DEF LedgerInv, LedgerExplainsBalance
    <3>2. Tops(u)' = Tops(u)
      BY <2>1, SameTops
    <3>3. Taken(u) = 0 /\ Taken(u)' = 0
      BY <1>c, <2>1 DEF Taken
    <3> QED
      BY <2>1, <3>1, <3>2, <3>3, SameMoney
  <2>3. IsFiniteSet({q \in Slots : pc[q] = "topLog"})'
    BY <2>1, SameTops DEF LedgerInv
  <2>4. (\A q \in Slots : pc[q] \in {"topAdd", "topLog"} => amt[q] = TopUp)'
    BY <2>1 DEF LedgerInv, Only
  <2>5. LedgerExplainsBalance'
    BY <2>1, <2>2 DEF LedgerExplainsBalance
  <2> QED
    BY <2>1, <2>3, <2>4, <2>5 DEF LedgerInv
<1>8. ASSUME NEW p \in Slots, Rollback(p) PROVE LedgerInv'
  <2>1. /\ p = holder /\ Only(p) /\ pc[p] = "rollback" /\ pc'[p] = "idle"
    BY <1>8, OneSlot DEF Rollback, HolderInv, InTx
  <2>2. Restored /\ holder' = Nobody /\ torn' = torn \cup Midway \cup image.midway
    BY <1>8 DEF Rollback
  <2>3. ASSUME NEW u \in Users \ torn' PROVE Explained(u)'
    <3>1. Tops(u)' = {}
      BY <2>1, <2>2, SameTops, NotMidway
    <3> QED
      BY <1>c, <2>1, <2>2, <3>1, BackToBegin
  <2>4. IsFiniteSet({q \in Slots : pc[q] = "topLog"})'
    BY <2>1, SameTops DEF LedgerInv
  <2>5. (\A q \in Slots : pc[q] \in {"topAdd", "topLog"} => amt[q] = TopUp)'
    BY <2>1 DEF LedgerInv, Only
  <2>6. LedgerExplainsBalance'
    BY <2>3 DEF LedgerExplainsBalance
  <2> QED
    BY <2>2, <2>4, <2>5, <2>6 DEF LedgerInv
<1>9. ASSUME NEW p \in Slots, TxFails(p) PROVE LedgerInv'
  <2>1. /\ p = holder /\ Only(p) /\ pc[p] \in InTx /\ pc'[p] = "rollback"
        /\ UNCHANGED <<holder, image, torn>>
    BY <1>9, OneSlot DEF TxFails, HolderInv, PCs, InTx
  <2>2. pc[p] # "topLog"
    BY <2>1 DEF InTx, EndBody, FareBody
  <2>3. IsFiniteSet({q \in Slots : pc[q] = "topLog"})'
    BY <2>1, <2>2, SameTops DEF LedgerInv
  <2>4. (\A q \in Slots : pc[q] \in {"topAdd", "topLog"} => amt[q] = TopUp)'
    BY <2>1 DEF LedgerInv, Only
  <2>5. LedgerExplainsBalance'
    BY <1>c, <2>1 DEF LedgerExplainsBalance
  <2> QED
    BY <2>1, <2>3, <2>4, <2>5 DEF LedgerInv
<1>10. ASSUME NEW p \in Slots, FareLogFails(p) PROVE LedgerInv'
  <2>1. /\ p = holder /\ Only(p) /\ pc[p] = "fareLog" /\ pc'[p] = "fareStatus" /\ by'[p] = by[p]
        /\ torn' = torn \cup {by[p]} /\ UNCHANGED <<holder, image, balance, ledger>>
    BY <1>10, OneSlot DEF FareLogFails, HolderInv, PCs, InTx, FareBody, db
  <2>2. ASSUME NEW u \in Users \ torn' PROVE Explained(u)'
    <3>1. Explained(u)
      BY <2>1 DEF LedgerInv, LedgerExplainsBalance
    <3>2. Tops(u)' = Tops(u)
      BY <2>1, SameTops
    <3>3. Taken(u) = 0 /\ Taken(u)' = 0
      BY <2>1 DEF Taken
    <3> QED
      BY <2>1, <3>1, <3>2, <3>3, SameMoney
  <2>3. IsFiniteSet({q \in Slots : pc[q] = "topLog"})'
    BY <2>1, SameTops DEF LedgerInv
  <2>4. (\A q \in Slots : pc[q] \in {"topAdd", "topLog"} => amt[q] = TopUp)'
    BY <2>1 DEF LedgerInv, Only
  <2>5. LedgerExplainsBalance'
    BY <2>2 DEF LedgerExplainsBalance
  <2> QED
    BY <2>1, <2>3, <2>4, <2>5 DEF LedgerInv
<1>11. ASSUME NEW p \in Slots, TopUpAdd(p) PROVE LedgerInv'
  <2>1. /\ Only(p) /\ pc[p] = "topAdd" /\ pc'[p] = "topLog" /\ by'[p] = by[p] /\ amt'[p] = amt[p]
        /\ amt[p] = TopUp /\ by[p] \in Users /\ p # holder
    BY <1>11, OneSlot DEF TopUpAdd, PCs, LedgerInv, SlotInv, HolderInv, InTx, EndBody, FareBody
  <2>2. /\ balance' = [balance EXCEPT ![by[p]] = @ + amt[p]]
        /\ UNCHANGED <<holder, image, ledger, torn>>
    BY <1>11 DEF TopUpAdd
  <2>3. ASSUME NEW u \in Users \ torn, ~(holder # Nobody /\ pc[holder] = "rollback")' PROVE Explained(u)'
    <3>1. Explained(u)
      BY <2>1, <2>2, <2>3 DEF LedgerInv, LedgerExplainsBalance, TypeOK, Only
    <3>2. Taken(u)' = Taken(u)
      BY <2>1, <2>2, SameTaken
    <3>3. CASE u = by[p]
      <4>1. Tops(u)' = Tops(u) \cup {p} /\ p \notin Tops(u)
        BY <2>1, <3>3 DEF Tops, Only
      <4>2. Cardinality(Tops(u)') = Cardinality(Tops(u)) + 1
        <5>1. IsFiniteSet(Tops(u))
          BY <1>b
        <5>2. Cardinality(Tops(u) \cup {p}) = Cardinality(Tops(u)) + 1
          BY <4>1, <5>1, FS_AddElement
        <5> QED
          BY <4>1, <5>2
      <4>3. balance'[u] = balance[u] + TopUp
        BY <2>1, <2>2, <3>3 DEF TypeOK
      <4>4. balance[u] \in Int /\ ledger[u] \in Int
        BY DEF TypeOK
      <4>5. balance[u] = Opening + ledger[u] + (TopUp * Cardinality(Tops(u)) - Taken(u))
        BY <1>a, <3>1
      <4>6. InFlight(u)' = TopUp * (Cardinality(Tops(u)) + 1) - Taken(u)
        BY <1>a, <3>2, <4>2
      <4>7. TopUp * (Cardinality(Tops(u)) + 1) = TopUp * Cardinality(Tops(u)) + TopUp
        BY <1>b, <1>c, SMTT(30)
      <4>8. balance'[u] = Opening + ledger[u] + InFlight(u)'
        BY <1>b, <1>c, <4>3, <4>4, <4>5, <4>6, <4>7, SMTT(30)
      <4> QED
        BY <2>2, <4>8
    <3>4. CASE u # by[p]
      <4>1. Tops(u)' = Tops(u)
        BY <2>1, <3>4 DEF Tops, Only
      <4>2. balance'[u] = balance[u]
        BY <2>2, <3>4 DEF TypeOK
      <4> QED
        BY <1>a, <2>2, <3>1, <3>2, <4>1, <4>2
    <3> QED
      BY <3>3, <3>4
  <2>4. IsFiniteSet({q \in Slots : pc[q] = "topLog"})'
    <3>1. {q \in Slots : pc[q] = "topLog"}' = {q \in Slots : pc[q] = "topLog"} \cup {p}
      BY <2>1 DEF Only
    <3> QED
      BY <3>1, FS_AddElement DEF LedgerInv
  <2>5. (\A q \in Slots : pc[q] \in {"topAdd", "topLog"} => amt[q] = TopUp)'
    BY <2>1 DEF LedgerInv, Only
  <2>6. LedgerExplainsBalance'
    BY <2>2, <2>3 DEF LedgerExplainsBalance
  <2> QED
    BY <2>2, <2>4, <2>5, <2>6 DEF LedgerInv
<1>12. ASSUME NEW p \in Slots, TopUpLog(p) PROVE LedgerInv'
  <2>1. /\ Only(p) /\ pc[p] = "topLog" /\ pc'[p] = "idle"
        /\ amt[p] = TopUp /\ by[p] \in Users /\ p # holder
    BY <1>12, OneSlot DEF TopUpLog, PCs, LedgerInv, SlotInv, HolderInv, InTx, EndBody, FareBody
  <2>2. /\ ledger' = [ledger EXCEPT ![by[p]] = @ + amt[p]]
        /\ UNCHANGED <<holder, image, balance, torn>>
    BY <1>12 DEF TopUpLog
  <2>3. ASSUME NEW u \in Users \ torn, ~(holder # Nobody /\ pc[holder] = "rollback")' PROVE Explained(u)'
    <3>1. Explained(u)
      BY <2>1, <2>2, <2>3 DEF LedgerInv, LedgerExplainsBalance, TypeOK, Only
    <3>2. Taken(u)' = Taken(u)
      BY <2>1, <2>2, SameTaken
    <3>3. CASE u = by[p]
      <4>1. Tops(u)' = Tops(u) \ {p} /\ p \in Tops(u)
        BY <2>1, <3>3 DEF Tops, Only
      <4>2. Cardinality(Tops(u)') = Cardinality(Tops(u)) - 1
        <5>1. IsFiniteSet(Tops(u))
          BY <1>b
        <5>2. Cardinality(Tops(u) \ {p}) = Cardinality(Tops(u)) - 1
          BY <4>1, <5>1, FS_RemoveElement
        <5> QED
          BY <4>1, <5>2
      <4>3. ledger'[u] = ledger[u] + TopUp
        BY <2>1, <2>2, <3>3 DEF TypeOK
      <4>4. balance[u] \in Int /\ ledger[u] \in Int
        BY DEF TypeOK
      <4>5. balance[u] = Opening + ledger[u] + (TopUp * Cardinality(Tops(u)) - Taken(u))
        BY <1>a, <3>1
      <4>6. InFlight(u)' = TopUp * (Cardinality(Tops(u)) - 1) - Taken(u)
        BY <1>a, <3>2, <4>2
      <4>7. TopUp * (Cardinality(Tops(u)) - 1) = TopUp * Cardinality(Tops(u)) - TopUp
        BY <1>b, <1>c, SMTT(30)
      <4>8. balance[u] = Opening + ledger'[u] + InFlight(u)'
        BY <1>b, <1>c, <4>3, <4>4, <4>5, <4>6, <4>7, SMTT(30)
      <4> QED
        BY <2>2, <4>8
    <3>4. CASE u # by[p]
      <4>1. Tops(u)' = Tops(u)
        BY <2>1, <3>4 DEF Tops, Only
      <4>2. ledger'[u] = ledger[u]
        BY <2>2, <3>4 DEF TypeOK
      <4> QED
        BY <1>a, <2>2, <3>1, <3>2, <4>1, <4>2
    <3> QED
      BY <3>3, <3>4
  <2>4. IsFiniteSet({q \in Slots : pc[q] = "topLog"})'
    <3>1. {q \in Slots : pc[q] = "topLog"}' = {q \in Slots : pc[q] = "topLog"} \ {p}
      BY <2>1 DEF Only
    <3> QED
      BY <3>1, FS_RemoveElement DEF LedgerInv
  <2>5. (\A q \in Slots : pc[q] \in {"topAdd", "topLog"} => amt[q] = TopUp)'
    BY <2>1 DEF LedgerInv, Only
  <2>6. LedgerExplainsBalance'
    BY <2>2, <2>3 DEF LedgerExplainsBalance
  <2> QED
    BY <2>2, <2>4, <2>5, <2>6 DEF LedgerInv
<1>13. ASSUME NEW p \in Slots, RequestFails(p) PROVE LedgerInv'
  <2>1. /\ Only(p) /\ pc[p] \in {"gate", "claim", "record", "topAdd", "topLog"} /\ pc'[p] = "idle"
        /\ torn' = IF pc[p] = "topLog" THEN torn \cup {by[p]} ELSE torn
        /\ UNCHANGED <<holder, image, balance, ledger>>
    BY <1>13, OneSlot DEF RequestFails, db
  <2>2. CASE pc[p] # "topLog"
    BY <2>1, <2>2, Quiet
  <2>3. CASE pc[p] = "topLog"
    <3>1. p # holder
      BY <2>3 DEF HolderInv, InTx, EndBody, FareBody
    <3>2. ASSUME NEW u \in Users \ torn', ~(holder # Nobody /\ pc[holder] = "rollback")'
          PROVE  Explained(u)'
      <4>1. u # by[p] /\ u \notin torn
        BY <2>1, <2>3
      <4>2. Explained(u)
        BY <2>1, <3>1, <3>2, <4>1 DEF LedgerInv, LedgerExplainsBalance, TypeOK, Only
      <4>3. Taken(u)' = Taken(u)
        BY <2>1, <3>1, SameTaken
      <4>4. Tops(u)' = Tops(u)
        BY <2>1, <4>1 DEF Tops, Only
      <4> QED
        BY <2>1, <4>2, <4>3, <4>4, SameMoney
    <3>3. IsFiniteSet({q \in Slots : pc[q] = "topLog"})'
      <4>1. {q \in Slots : pc[q] = "topLog"}' = {q \in Slots : pc[q] = "topLog"} \ {p}
        BY <2>1 DEF Only
      <4> QED
        BY <4>1, FS_RemoveElement DEF LedgerInv
    <3>4. (\A q \in Slots : pc[q] \in {"topAdd", "topLog"} => amt[q] = TopUp)'
      BY <2>1 DEF LedgerInv, Only
    <3>5. (\A u \in Users \ torn : holder # Nobody /\ u \notin image.midway
             => image.balance[u] = Opening + image.ledger[u])'
      BY <2>1 DEF LedgerInv
    <3>6. LedgerExplainsBalance'
      BY <3>2 DEF LedgerExplainsBalance
    <3> QED
      BY <3>3, <3>4, <3>5, <3>6 DEF LedgerInv
  <2> QED
    BY <2>2, <2>3
<1>14. ASSUME UNCHANGED <<balance, ledger, holder, image, slotVars, torn>> PROVE LedgerInv'
  <2>1. (\A u \in Users : Tops(u)' = Tops(u) /\ Taken(u)' = Taken(u)) /\ UNCHANGED <<pc, amt, by>>
    BY <1>14 DEF slotVars, Tops, Taken
  <2> QED
    BY <1>14 DEF slotVars, LedgerInv, LedgerExplainsBalance, InFlight
<1>15. ASSUME Restart PROVE LedgerInv'
  <2>1. /\ holder' = Nobody /\ \A q \in Slots : pc'[q] = "idle"
        /\ torn' = torn \cup Midway \cup IF holder = Nobody THEN {} ELSE image.midway
    BY <1>15 DEF Restart
  <2>2. /\ {q \in Slots : pc[q] = "topLog"}' = {}
        /\ \A u \in Users : Tops(u)' = {} /\ Taken(u)' = 0
    BY <1>c, <2>1 DEF Tops, Taken
  <2>3. ASSUME NEW u \in Users \ torn' PROVE Explained(u)'
    <3>1. CASE holder # Nobody
      BY <1>15, <2>1, <2>2, <3>1, BackToBegin DEF Restart
    <3>2. CASE holder = Nobody
      <4>1. UNCHANGED <<balance, ledger>>
        BY <1>15, <3>2 DEF Restart, db
      <4>2. Tops(u) = {}
        BY <2>1, NotMidway
      <4>3. Taken(u) = 0
        BY <1>c, <3>2 DEF Taken
      <4>4. Explained(u)
        BY <2>1, <3>2 DEF LedgerInv, LedgerExplainsBalance
      <4> QED
        BY <2>2, <4>1, <4>2, <4>3, <4>4, SameMoney
    <3> QED
      BY <3>1, <3>2
  <2>4. IsFiniteSet({q \in Slots : pc[q] = "topLog"})'
    BY <2>2, FS_EmptySet
  <2>5. LedgerExplainsBalance'
    BY <2>3 DEF LedgerExplainsBalance
  <2> QED
    BY <2>1, <2>4, <2>5 DEF LedgerInv
<1>16. ResetScooters \/ (\E s \in Scooters : AddScooter(s) \/ DeleteScooter(s)) \/ UNCHANGED vars
         => UNCHANGED <<balance, ledger, holder, image, slotVars, torn>>
  BY DEF ResetScooters, AddScooter, DeleteScooter, vars, slotVars
<1> QED
  BY <1>1, <1>2, <1>3, <1>4, <1>5, <1>6, <1>7, <1>8, <1>9, <1>10, <1>11, <1>12, <1>13, <1>14, <1>15,
     <1>16 DEF Next, Step

\* The ledger explains every balance to the unit, whatever interleaves, fails and is rolled back, except
\* for users whose money a fault has caught between its two statements.
THEOREM LedgerExplains == Spec => []LedgerExplainsBalance
<1>1. Init => LedgerInv
  <2> SUFFICES ASSUME Init PROVE LedgerInv
    OBVIOUS
  <2>1. /\ \A p \in Slots : pc[p] = "idle"
        /\ holder = Nobody /\ Nobody \notin Slots /\ Opening \in Nat /\ TopUp \in Nat
    BY WalletAssumption DEF Init, WalletAssumption
  <2>2. {p \in Slots : pc[p] = "topLog"} = {} /\ \A u \in Users : Tops(u) = {} /\ Taken(u) = 0
    BY <2>1 DEF Tops, Taken
  <2>3. \A u \in Users : InFlight(u) = TopUp * 0 - 0
    BY <2>2, FS_EmptySet DEF InFlight, Tops, Taken
  <2>4. \A u \in Users : balance[u] = Opening + ledger[u] + InFlight(u)
    BY <2>1, <2>3, SMTT(30) DEF Init
  <2> QED
    BY <2>1, <2>2, <2>4, FS_EmptySet DEF LedgerInv, LedgerExplainsBalance
<1>2. IInv /\ IInv' /\ LedgerInv /\ [Next]_vars => LedgerInv'
  BY LedgerStep, WalletAssumption DEF IInv
<1>3. LedgerInv => LedgerExplainsBalance
  BY DEF LedgerInv
<1> QED
  BY <1>1, <1>2, <1>3, WalletInvariant, PTL DEF Spec
============================================================================
