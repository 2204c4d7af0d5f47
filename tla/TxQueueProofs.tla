--------------------------- MODULE TxQueueProofs ---------------------------
(***************************************************************************)
(* TxQueue for any number of calls, writers, retries and faults: calls     *)
(* never nest, transactions are atomic across failures and restarts, and   *)
(* the queue implements SerialStore.                                       *)
(***************************************************************************)
EXTENDS TxQueue, TLAPS

\* The promise chain is a list: the calls made have the places 1..tail, and
\* whatever stands before a call that has left the queue is settled.
ChainInv ==
  /\ \A c \in Calls : pc[c] = "new" \/ ticket[c] \in 1..tail
  /\ \A n \in 1..tail : \E c \in Calls : pc[c] # "new" /\ ticket[c] = n
  /\ \A c, d \in Calls :
       pc[c] # "new" /\ pc[d] # "new" /\ ticket[c] = ticket[d] => c = d
  /\ \A c, d \in Calls :
       pc[c] \notin {"new", "queued"} /\ pc[d] # "new" /\ ticket[d] < ticket[c]
         => pc[d] \in Settled

\* The open transaction is that of the one call inside.
OpenInv == \A c \in Calls : pc[c] \in Inside <=> openTx = c

\* How far a call has come tells which of its writes are where.
WriteInv ==
  /\ openTx = Nobody => page = disk
  /\ \A c \in Calls :
       /\ pc[c] \in {"new", "queued", "begin", "backoff", "rejected", "body1"}
            => <<c, 1>> \notin page
       /\ pc[c] \in {"new", "queued", "begin", "backoff", "rejected", "body1",
                     "body2"} => <<c, 2>> \notin page
       /\ pc[c] \in {"body2", "commit"} => <<c, 1>> \in page
       /\ pc[c] = "commit" => <<c, 2>> \in page
       /\ pc[c] \in Inside => <<c, 1>> \notin disk /\ <<c, 2>> \notin disk
       /\ pc[c] \in {"committed", "resolved"} => <<c, 1>> \in disk
       /\ pc[c] \notin Inside =>
            /\ <<c, 1>> \in page <=> <<c, 1>> \in disk
            /\ <<c, 2>> \in page <=> <<c, 2>> \in disk
       /\ <<c, 1>> \in disk <=> <<c, 2>> \in disk

\* A call is in the log only once it has committed.
LogInv ==
  \A c \in Calls :
    /\ pc[c] \in {"committed", "resolved"} => Logged(c)
    /\ pc[c] \in {"new", "queued", "rejected"} \cup Running => ~Logged(c)

IInv == TypeOK /\ ChainInv /\ OpenInv /\ WriteInv /\ LogInv

----------------------------------------------------------------------------
\* Appending to the log adds exactly the call appended.
LEMMA LoggedAfterAppend ==
  ASSUME wal \in Seq(Calls), NEW c \in Calls, wal' = Append(wal, c)
  PROVE  \A d \in Calls : Logged(d)' <=> (Logged(d) \/ d = c)
<1>1. Len(wal') = Len(wal) + 1 /\ Len(wal) \in Nat
  OBVIOUS
<1>2. \A i \in 1..Len(wal) : wal'[i] = wal[i]
  OBVIOUS
<1>3. wal'[Len(wal) + 1] = c
  OBVIOUS
<1>4. ASSUME NEW d \in Calls PROVE Logged(d)' <=> (Logged(d) \/ d = c)
  BY <1>1, <1>2, <1>3 DEF Logged
<1> QED
  BY <1>4

\* Places in the chain: what is not just before y is before the place that is.
LEMMA OneBefore ==
  ASSUME NEW n \in Nat, NEW x \in 1..n, NEW y \in 1..n,
         x < y, x + 1 # y
  PROVE  y - 1 \in 1..n /\ x < y - 1
BY SMTT(30)

\* Every step keeps the types.
LEMMA TypeStep ==
  ASSUME QueueAssumption, TypeOK, [Next]_vars
  PROVE  TypeOK'
<1> USE DEF TypeOK, PCs, Running, Inside, Settled, Parts, QueueAssumption
<1>1. ASSUME NEW c \in Calls, Enqueue(c) PROVE TypeOK'
  BY <1>1, SMTT(30) DEF Enqueue, Goto
<1>2. ASSUME NEW c \in Calls, Start(c) PROVE TypeOK'
  BY <1>2, SMTT(30) DEF Start, Goto, Before
<1>3. ASSUME NEW c \in Calls, BeginOk(c) PROVE TypeOK'
  BY <1>3, SMTT(30) DEF BeginOk, Goto
<1>4. ASSUME NEW c \in Calls, BeginBusy(c) PROVE TypeOK'
  <2>1. CASE attempt[c] < MaxRetries
    <3>1. attempt' = [attempt EXCEPT ![c] = attempt[c] + 1]
      BY <1>4, <2>1 DEF BeginBusy
    <3>2. attempt' \in [Calls -> 0..MaxRetries]
      BY <2>1, <3>1, SMTT(30)
    <3> QED
      BY <1>4, <2>1, <3>2, SMTT(30) DEF BeginBusy, Goto
  <2>2. CASE ~(attempt[c] < MaxRetries)
    BY <1>4, <2>2, SMTT(30) DEF BeginBusy, Goto
  <2> QED
    BY <2>1, <2>2
<1>5. ASSUME NEW c \in Calls, Retry(c) PROVE TypeOK'
  BY <1>5, SMTT(30) DEF Retry, Goto
<1>6. ASSUME NEW c \in Calls, BeginError(c) PROVE TypeOK'
  BY <1>6, SMTT(30) DEF BeginError, Goto, Fault
<1>7. ASSUME NEW c \in Calls, NEW i \in Parts, Body(c, i) PROVE TypeOK'
  BY <1>7, SMTT(30) DEF Body, Goto, At, After, Parts
<1>8. ASSUME NEW c \in Calls, BodyFails(c) PROVE TypeOK'
  BY <1>8, SMTT(30) DEF BodyFails, Goto, Fault
<1>9. ASSUME NEW c \in Calls, Commit(c) PROVE TypeOK'
  BY <1>9, SMTT(30) DEF Commit, Goto
<1>10. ASSUME NEW c \in Calls, Resolve(c) PROVE TypeOK'
  BY <1>10, SMTT(30) DEF Resolve, Goto
<1>11. ASSUME NEW c \in Calls, Rollback(c) PROVE TypeOK'
  BY <1>11, SMTT(30) DEF Rollback, Goto
<1>12. ASSUME NEW w \in Writers, PlainWrite(w) PROVE TypeOK'
  <2>1. UNCHANGED <<ticket, tail, pc, attempt, openTx, wal, busy, faults>>
    BY <1>12 DEF PlainWrite
  <2>2. /\ page' \subseteq (Calls \X Parts) \cup (Writers \X {0}) /\ disk' \subseteq page'
        /\ plain' \in [Writers -> {"new", "acked", "refused"}]
    <3>1. \/ plain' = [plain EXCEPT ![w] = "refused"] /\ page' = page /\ disk' = disk
          \/ /\ plain' = [plain EXCEPT ![w] = "acked"] /\ page' = page \cup {<<w, 0>>}
             /\ disk' = disk \cup {<<w, 0>>} \/ disk' = disk
      BY <1>12 DEF PlainWrite
    <3>2. <<w, 0>> \in Writers \X {0}
      OBVIOUS
    <3>3. page' = page \/ page' = page \cup {<<w, 0>>}
      BY <3>1
    <3>4. page' \subseteq (Calls \X Parts) \cup (Writers \X {0})
      <4> HIDE DEF Parts
      <4> QED
        BY <3>2, <3>3
    <3>5. disk' \subseteq page' /\ plain' \in [Writers -> {"new", "acked", "refused"}]
      BY <3>1
    <3> QED
      BY <3>4, <3>5
  <2> QED
    BY <2>1, <2>2
<1>13. ASSUME OtherProcess PROVE TypeOK'
  BY <1>13, SMTT(30) DEF OtherProcess
<1>14. ASSUME Restart PROVE TypeOK'
  BY <1>14, SMTT(30) DEF Restart, Fault
<1>15. CASE UNCHANGED vars
  BY <1>15, SMTT(30) DEF vars, Logged, Before
<1> HIDE DEF TypeOK, PCs, Running, Inside, Settled, Parts, QueueAssumption
<1> QED
  BY <1>1, <1>2, <1>3, <1>4, <1>5, <1>6, <1>7, <1>8, <1>9, <1>10, <1>11,
     <1>12, <1>13, <1>14, <1>15, SMTT(30) DEF Next, Step

\* A call that starts, or moves on, when everything before it has settled leaves the chain as it is.
LEMMA MoveKeepsChain ==
  ASSUME pc \in [Calls -> PCs], ChainInv, UNCHANGED <<ticket, tail>>, NEW c \in Calls,
         pc[c] \notin {"new"} \cup Settled, NEW w, w \notin {"new", "queued"}, pc' = [pc EXCEPT ![c] = w],
         \A d \in Calls : pc[d] # "new" /\ ticket[d] < ticket[c] => pc[d] \in Settled
  PROVE  ChainInv'
<1>1. \A d \in Calls : d # c => pc'[d] = pc[d]
  OBVIOUS
<1>2. pc'[c] = w
  OBVIOUS
<1>3. \A d \in Calls : /\ pc'[d] = "new" <=> pc[d] = "new"
                      /\ pc[d] \in Settled => pc'[d] \in Settled
  BY <1>1, <1>2
<1> QED
  BY <1>1, <1>3 DEF ChainInv

\* Every step keeps the chain a list whose settled calls come first.
LEMMA ChainStep ==
  ASSUME TypeOK, TypeOK', ChainInv, [Next]_vars
  PROVE  ChainInv'
<1> USE DEF TypeOK, ChainInv, PCs, Running, Inside, Settled
<1>1. ASSUME NEW c \in Calls, Enqueue(c) PROVE ChainInv'
  <2>1. /\ pc[c] = "new"
        /\ pc' = [pc EXCEPT ![c] = "queued"]
        /\ ticket' = [ticket EXCEPT ![c] = tail + 1]
        /\ tail' = tail + 1
    BY <1>1 DEF Enqueue, Goto
  <2>2. \A d \in Calls : pc'[d] = "new" \/ ticket'[d] \in 1..tail'
    BY <2>1, SMTT(30)
  <2>3. \A n \in 1..tail' : \E d \in Calls : pc'[d] # "new" /\ ticket'[d] = n
    <3>1. ASSUME NEW n \in 1..tail
          PROVE  \E d \in Calls : pc'[d] # "new" /\ ticket'[d] = n
      <4>1. PICK d \in Calls : pc[d] # "new" /\ ticket[d] = n
        OBVIOUS
      <4> QED
        BY <2>1, <4>1
    <3>2. pc'[c] # "new" /\ ticket'[c] = tail'
      BY <2>1
    <3> QED
      BY <2>1, <3>1, <3>2, SMTT(30)
  <2>4. \A d, e \in Calls :
          pc'[d] # "new" /\ pc'[e] # "new" /\ ticket'[d] = ticket'[e] => d = e
    BY <2>1, SMTT(30)
  <2>5. \A d, e \in Calls :
          pc'[d] \notin {"new", "queued"} /\ pc'[e] # "new"
            /\ ticket'[e] < ticket'[d] => pc'[e] \in Settled
    BY <2>1, SMTT(30)
  <2> QED
    BY <2>2, <2>3, <2>4, <2>5
<1>2. ASSUME NEW c \in Calls, Start(c) PROVE ChainInv'
  <2>1. ASSUME NEW d \in Calls, pc[d] # "new", ticket[d] < ticket[c]
        PROVE  pc[d] \in Settled
    <3>1. CASE ticket[d] + 1 = ticket[c]
      BY <2>1, <3>1, <1>2, SMTT(30) DEF Start, Before
    <3>2. CASE ticket[d] + 1 # ticket[c]
      <4>a. ticket[d] \in 1..tail /\ ticket[d] \in Nat
        BY <2>1
      <4>b. pc[c] = "queued" /\ ticket[c] \in 1..tail /\ ticket[c] \in Nat
        BY <1>2 DEF Start
      <4>0. ticket[c] - 1 \in 1..tail /\ ticket[d] < ticket[c] - 1
        BY <2>1, <3>2, <4>a, <4>b, OneBefore DEF TypeOK
      <4>1. PICK e \in Calls : pc[e] # "new" /\ ticket[e] = ticket[c] - 1
        BY <4>0
      <4>2. pc[e] \in Settled
        BY <4>1, <1>2, SMTT(30) DEF Start, Before
      <4>3. pc[e] \notin {"new", "queued"} /\ ticket[d] < ticket[e]
        <5> HIDE DEF TypeOK, ChainInv
        <5> QED
          BY <4>0, <4>1, <4>2
      <4> QED
        BY <2>1, <4>3
    <3> QED
      BY <3>1, <3>2
  <2>2. pc' = [pc EXCEPT ![c] = "begin"] /\ UNCHANGED <<ticket, tail>>
    BY <1>2 DEF Start, Goto
  <2>3. pc[c] = "queued"
    BY <1>2 DEF Start
  <2>4. pc \in [Calls -> PCs] /\ "begin" \notin {"new", "queued"} /\ pc[c] \notin {"new"} \cup Settled
    BY <2>3
  <2> HIDE DEF TypeOK, ChainInv, PCs, Running, Inside, Settled
  <2> QED
    BY <2>1, <2>2, <2>4, MoveKeepsChain
<1>3. ASSUME NEW c \in Calls, BeginOk(c) PROVE ChainInv'
  BY <1>3, SMTT(30) DEF BeginOk, Goto
<1>4. ASSUME NEW c \in Calls, BeginBusy(c) PROVE ChainInv'
  <2>1. UNCHANGED <<ticket, tail>> /\ pc[c] = "begin"
    BY <1>4 DEF BeginBusy
  <2>2. PICK w \in {"backoff", "rejected"} : pc' = [pc EXCEPT ![c] = w]
    BY <1>4 DEF BeginBusy, Goto
  <2>3. pc \in [Calls -> PCs] /\ pc[c] \notin {"new", "queued"} \cup Settled /\ w \notin {"new", "queued"}
    BY <2>1
  <2>4. \A d \in Calls : pc[d] # "new" /\ ticket[d] < ticket[c] => pc[d] \in Settled
    BY <2>3
  <2> HIDE DEF TypeOK, ChainInv, PCs, Running, Inside, Settled
  <2> QED
    BY <2>1, <2>2, <2>3, <2>4, MoveKeepsChain
<1>5. ASSUME NEW c \in Calls, Retry(c) PROVE ChainInv'
  BY <1>5, SMTT(30) DEF Retry, Goto
<1>6. ASSUME NEW c \in Calls, BeginError(c) PROVE ChainInv'
  BY <1>6, SMTT(30) DEF BeginError, Goto, Fault
<1>7. ASSUME NEW c \in Calls, NEW i \in Parts, Body(c, i) PROVE ChainInv'
  BY <1>7, SMTT(30) DEF Body, Goto, At, After, Parts
<1>8. ASSUME NEW c \in Calls, BodyFails(c) PROVE ChainInv'
  BY <1>8, SMTT(30) DEF BodyFails, Goto, Fault
<1>9. ASSUME NEW c \in Calls, Commit(c) PROVE ChainInv'
  BY <1>9, SMTT(30) DEF Commit, Goto
<1>10. ASSUME NEW c \in Calls, Resolve(c) PROVE ChainInv'
  BY <1>10, SMTT(30) DEF Resolve, Goto
<1>11. ASSUME NEW c \in Calls, Rollback(c) PROVE ChainInv'
  BY <1>11, SMTT(30) DEF Rollback, Goto
<1>12. ASSUME NEW w \in Writers, PlainWrite(w) PROVE ChainInv'
  BY <1>12, SMTT(30) DEF PlainWrite
<1>13. ASSUME OtherProcess PROVE ChainInv'
  BY <1>13, SMTT(30) DEF OtherProcess
<1>14. ASSUME Restart PROVE ChainInv'
  BY <1>14, SMTT(30) DEF Restart, Fault
<1>15. CASE UNCHANGED vars
  BY <1>15, SMTT(30) DEF vars, Logged, Before
<1> HIDE DEF TypeOK, ChainInv, PCs, Running, Inside, Settled
<1> QED
  BY <1>1, <1>2, <1>3, <1>4, <1>5, <1>6, <1>7, <1>8, <1>9, <1>10, <1>11,
     <1>12, <1>13, <1>14, <1>15, SMTT(30) DEF Next, Step

\* Every step keeps one call inside the open transaction.
LEMMA OpenStep ==
  ASSUME QueueAssumption, TypeOK, ChainInv, OpenInv, [Next]_vars
  PROVE  OpenInv'
<1> USE DEF TypeOK, ChainInv, OpenInv, PCs, Running, Inside, Settled,
    QueueAssumption
<1>1. ASSUME NEW c \in Calls, Enqueue(c) PROVE OpenInv'
  BY <1>1, SMTT(30) DEF Enqueue, Goto
<1>2. ASSUME NEW c \in Calls, Start(c) PROVE OpenInv'
  BY <1>2, SMTT(30) DEF Start, Goto, Before
<1>3. ASSUME NEW c \in Calls, BeginOk(c) PROVE OpenInv'
  BY <1>3, SMTT(30) DEF BeginOk, Goto
<1>4. ASSUME NEW c \in Calls, BeginBusy(c) PROVE OpenInv'
  BY <1>4, SMTT(30) DEF BeginBusy, Goto
<1>5. ASSUME NEW c \in Calls, Retry(c) PROVE OpenInv'
  BY <1>5, SMTT(30) DEF Retry, Goto
<1>6. ASSUME NEW c \in Calls, BeginError(c) PROVE OpenInv'
  BY <1>6, SMTT(30) DEF BeginError, Goto, Fault
<1>7. ASSUME NEW c \in Calls, NEW i \in Parts, Body(c, i) PROVE OpenInv'
  BY <1>7, SMTT(30) DEF Body, Goto, At, After, Parts
<1>8. ASSUME NEW c \in Calls, BodyFails(c) PROVE OpenInv'
  BY <1>8, SMTT(30) DEF BodyFails, Goto, Fault
<1>9. ASSUME NEW c \in Calls, Commit(c) PROVE OpenInv'
  BY <1>9, SMTT(30) DEF Commit, Goto
<1>10. ASSUME NEW c \in Calls, Resolve(c) PROVE OpenInv'
  BY <1>10, SMTT(30) DEF Resolve, Goto
<1>11. ASSUME NEW c \in Calls, Rollback(c) PROVE OpenInv'
  BY <1>11, SMTT(30) DEF Rollback, Goto
<1>12. ASSUME NEW w \in Writers, PlainWrite(w) PROVE OpenInv'
  BY <1>12, SMTT(30) DEF PlainWrite
<1>13. ASSUME OtherProcess PROVE OpenInv'
  BY <1>13, SMTT(30) DEF OtherProcess
<1>14. ASSUME Restart PROVE OpenInv'
  BY <1>14, SMTT(30) DEF Restart, Fault
<1>15. CASE UNCHANGED vars
  BY <1>15, SMTT(30) DEF vars, Logged, Before
<1> HIDE DEF TypeOK, ChainInv, OpenInv, PCs, Running, Inside, Settled,
    QueueAssumption
<1> QED
  BY <1>1, <1>2, <1>3, <1>4, <1>5, <1>6, <1>7, <1>8, <1>9, <1>10, <1>11,
     <1>12, <1>13, <1>14, <1>15, SMTT(30) DEF Next, Step

\* Every step keeps the writes of a call where its progress says they are.
LEMMA WriteStep ==
  ASSUME QueueAssumption, TypeOK, ChainInv, OpenInv, WriteInv, [Next]_vars
  PROVE  WriteInv'
<1> USE DEF TypeOK, OpenInv, WriteInv, PCs, Running, Inside, Settled, Parts,
    QueueAssumption
<1>1. ASSUME NEW c \in Calls, Enqueue(c) PROVE WriteInv'
  BY <1>1, SMTT(30) DEF Enqueue, Goto
<1>2. ASSUME NEW c \in Calls, Start(c) PROVE WriteInv'
  BY <1>2, SMTT(30) DEF Start, Goto, Before
<1>3. ASSUME NEW c \in Calls, BeginOk(c) PROVE WriteInv'
  BY <1>3, SMTT(30) DEF BeginOk, Goto
<1>4. ASSUME NEW c \in Calls, BeginBusy(c) PROVE WriteInv'
  BY <1>4, SMTT(30) DEF BeginBusy, Goto
<1>5. ASSUME NEW c \in Calls, Retry(c) PROVE WriteInv'
  BY <1>5, SMTT(30) DEF Retry, Goto
<1>6. ASSUME NEW c \in Calls, BeginError(c) PROVE WriteInv'
  BY <1>6, SMTT(30) DEF BeginError, Goto, Fault
<1>7. ASSUME NEW c \in Calls, NEW i \in Parts, Body(c, i) PROVE WriteInv'
  BY <1>7, SMTT(30) DEF Body, Goto, At, After, Parts
<1>8. ASSUME NEW c \in Calls, BodyFails(c) PROVE WriteInv'
  BY <1>8, SMTT(30) DEF BodyFails, Goto, Fault
<1>9. ASSUME NEW c \in Calls, Commit(c) PROVE WriteInv'
  BY <1>9, SMTT(30) DEF Commit, Goto
<1>10. ASSUME NEW c \in Calls, Resolve(c) PROVE WriteInv'
  BY <1>10, SMTT(30) DEF Resolve, Goto
<1>11. ASSUME NEW c \in Calls, Rollback(c) PROVE WriteInv'
  BY <1>11, SMTT(30) DEF Rollback, Goto
<1>12. ASSUME NEW w \in Writers, PlainWrite(w) PROVE WriteInv'
  <2>1. UNCHANGED <<pc, openTx>>
    BY <1>12 DEF PlainWrite
  <2>2. \A c \in Calls, i \in Parts :
          /\ <<c, i>> \in page' <=> <<c, i>> \in page
          /\ <<c, i>> \in disk' <=> <<c, i>> \in disk
    BY <1>12, SMTT(30) DEF PlainWrite
  <2>3. openTx' = Nobody => page' = disk'
    <3>1. CASE openTx = Nobody /\ busy
      BY <1>12, <3>1 DEF PlainWrite
    <3>2. CASE openTx = Nobody /\ ~busy
      BY <1>12, <3>2 DEF PlainWrite
    <3>3. CASE openTx # Nobody
      BY <2>1, <3>3
    <3> QED
      BY <3>1, <3>2, <3>3
  <2> QED
    BY <2>1, <2>2, <2>3, SMTT(30)
<1>13. ASSUME OtherProcess PROVE WriteInv'
  BY <1>13, SMTT(30) DEF OtherProcess
<1>14. ASSUME Restart PROVE WriteInv'
  BY <1>14, SMTT(30) DEF Restart, Fault
<1>15. CASE UNCHANGED vars
  BY <1>15, SMTT(30) DEF vars, Logged, Before
<1> HIDE DEF TypeOK, OpenInv, WriteInv, PCs, Running, Inside, Settled, Parts,
    QueueAssumption
<1> QED
  BY <1>1, <1>2, <1>3, <1>4, <1>5, <1>6, <1>7, <1>8, <1>9, <1>10, <1>11,
     <1>12, <1>13, <1>14, <1>15, SMTT(30) DEF Next, Step

\* Every step keeps the log the list of the calls committed.
LEMMA LogStep ==
  ASSUME TypeOK, LogInv, [Next]_vars
  PROVE  LogInv'
<1> USE DEF TypeOK, LogInv, PCs, Running, Inside, Settled
<1>1. ASSUME NEW c \in Calls, Enqueue(c) PROVE LogInv'
  BY <1>1, SMTT(30) DEF Enqueue, Goto, Logged
<1>2. ASSUME NEW c \in Calls, Start(c) PROVE LogInv'
  BY <1>2, SMTT(30) DEF Start, Goto, Before, Logged
<1>3. ASSUME NEW c \in Calls, BeginOk(c) PROVE LogInv'
  BY <1>3, SMTT(30) DEF BeginOk, Goto, Logged
<1>4. ASSUME NEW c \in Calls, BeginBusy(c) PROVE LogInv'
  BY <1>4, SMTT(30) DEF BeginBusy, Goto, Logged
<1>5. ASSUME NEW c \in Calls, Retry(c) PROVE LogInv'
  BY <1>5, SMTT(30) DEF Retry, Goto, Logged
<1>6. ASSUME NEW c \in Calls, BeginError(c) PROVE LogInv'
  BY <1>6, SMTT(30) DEF BeginError, Goto, Fault, Logged
<1>7. ASSUME NEW c \in Calls, NEW i \in Parts, Body(c, i) PROVE LogInv'
  BY <1>7, SMTT(30) DEF Body, Goto, At, After, Parts, Logged
<1>8. ASSUME NEW c \in Calls, BodyFails(c) PROVE LogInv'
  BY <1>8, SMTT(30) DEF BodyFails, Goto, Fault, Logged
<1>9. ASSUME NEW c \in Calls, Commit(c) PROVE LogInv'
  BY <1>9, LoggedAfterAppend, SMTT(30) DEF Commit, Goto
<1>10. ASSUME NEW c \in Calls, Resolve(c) PROVE LogInv'
  BY <1>10, SMTT(30) DEF Resolve, Goto, Logged
<1>11. ASSUME NEW c \in Calls, Rollback(c) PROVE LogInv'
  BY <1>11, SMTT(30) DEF Rollback, Goto, Logged
<1>12. ASSUME NEW w \in Writers, PlainWrite(w) PROVE LogInv'
  BY <1>12, SMTT(30) DEF PlainWrite, Logged
<1>13. ASSUME OtherProcess PROVE LogInv'
  BY <1>13, SMTT(30) DEF OtherProcess, Logged
<1>14. ASSUME Restart PROVE LogInv'
  BY <1>14, SMTT(30) DEF Restart, Fault, Logged
<1>15. CASE UNCHANGED vars
  BY <1>15, SMTT(30) DEF vars, Logged, Before
<1> HIDE DEF TypeOK, LogInv, PCs, Running, Inside, Settled
<1> QED
  BY <1>1, <1>2, <1>3, <1>4, <1>5, <1>6, <1>7, <1>8, <1>9, <1>10, <1>11,
     <1>12, <1>13, <1>14, <1>15, SMTT(30) DEF Next, Step
----------------------------------------------------------------------------
\* The initial state satisfies the invariant.
LEMMA InitIInv ==
  ASSUME QueueAssumption, Init
  PROVE  IInv
<1>1. TypeOK
  <2>1. wal \in Seq(Calls)
    BY DEF Init
  <2>2. attempt \in [Calls -> 0..MaxRetries] /\ faults \in 0..MaxFaults
    BY SMTT(30) DEF Init, QueueAssumption
  <2>3. pc \in [Calls -> PCs]
    BY DEF Init, PCs
  <2>4. /\ ticket \in [Calls -> Nat] /\ tail \in Nat
        /\ openTx \in Calls \cup {Nobody}
        /\ page \subseteq (Calls \X Parts) \cup (Writers \X {0})
        /\ disk \subseteq page
        /\ plain \in [Writers -> {"new", "acked", "refused"}]
        /\ busy \in BOOLEAN
    BY DEF Init
  <2> QED
    BY <2>1, <2>2, <2>3, <2>4 DEF TypeOK
<1>2. ChainInv /\ OpenInv
  BY SMTT(30) DEF Init, ChainInv, OpenInv, Inside, QueueAssumption
<1>3. WriteInv
  BY SMTT(30) DEF Init, WriteInv, Inside
<1>4. LogInv
  <2>1. \A c \in Calls : pc[c] = "new"
    BY DEF Init
  <2>2. Len(wal) = 0
    BY DEF Init
  <2>3. \A c \in Calls : ~Logged(c)
    BY <2>2, SMTT(30) DEF Logged
  <2> QED
    BY <2>1, <2>3 DEF LogInv
<1> QED
  BY <1>1, <1>2, <1>3, <1>4 DEF IInv

\* Every step preserves it.
LEMMA StepIInv ==
  ASSUME QueueAssumption, IInv, [Next]_vars
  PROVE  IInv'
<1>1. TypeOK'
  BY TypeStep DEF IInv
<1>2. ChainInv'
  BY <1>1, ChainStep DEF IInv
<1>3. OpenInv'
  BY OpenStep DEF IInv
<1>4. WriteInv'
  BY WriteStep DEF IInv
<1>5. LogInv'
  BY LogStep DEF IInv
<1> QED
  BY <1>1, <1>2, <1>3, <1>4, <1>5 DEF IInv

\* The invariant holds in every reachable state.
THEOREM QueueInvariant == Spec => []IInv
<1>1. Init => IInv
  BY InitIInv, QueueAssumption
<1>2. IInv /\ [Next]_vars => IInv'
  BY StepIInv, QueueAssumption
<1> QED
  BY <1>1, <1>2, PTL DEF Spec

\* What the invariant says of two calls: one that has left the queue and is
\* not settled finds every call before it settled.
LEMMA OneRunning ==
  ASSUME IInv, NEW c \in Calls, NEW d \in Calls,
         pc[c] \in Running \cup {"committed"},
         pc[d] \in {"queued"} \cup Running
  PROVE  ticket[c] <= ticket[d] /\ (pc[d] \in Running => c = d)
<1>1. ticket[c] \in Nat /\ ticket[d] \in Nat
  BY DEF IInv, TypeOK
<1>2. ~(ticket[d] < ticket[c])
  BY <1>1, SMTT(30) DEF IInv, ChainInv, Running, Inside, Settled
<1>3. pc[d] \in Running => ~(ticket[c] < ticket[d])
  BY <1>1, SMTT(30) DEF IInv, ChainInv, Running, Inside, Settled
<1>4. ticket[c] = ticket[d] => c = d
  BY SMTT(30) DEF IInv, ChainInv, Running, Inside
<1> QED
  BY <1>1, <1>2, <1>3, <1>4, SMTT(30)

\* No call's BEGIN ever finds a transaction open on the connection: the
\* C-1 fix of dbTransaction, for any number of calls.
THEOREM CallsNeverNest == Spec => []NeverNested
<1>1. IInv => NeverNested
  <2> SUFFICES ASSUME IInv, NEW c \in Calls, pc[c] \in {"begin", "backoff"},
                      openTx # Nobody
               PROVE  FALSE
    BY DEF NeverNested
  <2>1. openTx \in Calls /\ pc[openTx] \in Inside
    BY DEF IInv, TypeOK, OpenInv
  <2>2. c = openTx
    BY <2>1, OneRunning DEF Running
  <2> QED
    BY <2>1, <2>2 DEF Inside
<1> QED
  BY <1>1, QueueInvariant, PTL

\* Whatever statement fails and whenever the process restarts, the disk
\* holds both writes of a transaction or neither.
THEOREM TransactionsAreAtomic == Spec => []AllOrNothing
<1>1. IInv => AllOrNothing
  <2> SUFFICES ASSUME WriteInv, TypeOK, NEW c \in Calls
               PROVE  /\ <<c, 1>> \in disk <=> <<c, 2>> \in disk
                      /\ pc[c] = "resolved" => <<c, 1>> \in disk
                      /\ pc[c] \in {"new", "rejected"} => <<c, 1>> \notin page
    BY DEF AllOrNothing, IInv
  <2> QED
    BY DEF WriteInv
<1> QED
  BY <1>1, QueueInvariant, PTL

\* The types hold in every reachable state.
THEOREM TypeCorrect == Spec => []TypeOK
<1>1. IInv => TypeOK
  BY DEF IInv
<1> QED
  BY <1>1, QueueInvariant, PTL
----------------------------------------------------------------------------
(* The refinement: every step is a step of the serial store, or nothing    *)
(* that its callers could see.                                             *)

\* A call that is served is the one whose turn it is.
LEMMA ServedInTurn ==
  ASSUME IInv, NEW c \in Calls, pc[c] \in Running
  PROVE  Serial!Turn(c)
<1>1. CallOutcome[c] = "waiting"
  BY DEF CallOutcome, Running, Inside
<1>2. ASSUME NEW d \in Calls, CallOutcome[d] = "waiting"
      PROVE  ticket[c] <= ticket[d]
  <2>1. pc[d] \in {"queued"} \cup Running
    BY <1>2 DEF CallOutcome
  <2> QED
    BY <2>1, OneRunning
<1> QED
  BY <1>1, <1>2 DEF Serial!Turn

\* The outcomes that change at one call only.
LEMMA OutcomeChanges ==
  ASSUME NEW c \in Calls, NEW v,
         \A d \in Calls : CallOutcome'[d] = IF d = c THEN v ELSE CallOutcome[d]
  PROVE  CallOutcome' = [CallOutcome EXCEPT ![c] = v]
<1>1. /\ DOMAIN CallOutcome = Calls /\ DOMAIN CallOutcome' = Calls
      /\ CallOutcome = [d \in Calls |-> CallOutcome[d]]
      /\ CallOutcome' = [d \in Calls |-> CallOutcome'[d]]
  BY DEF CallOutcome
<1> HIDE DEF CallOutcome
<1>2. CallOutcome' = [d \in Calls |-> IF d = c THEN v ELSE CallOutcome[d]]
  BY <1>1
<1> QED
  BY <1>1, <1>2

\* A step that leaves the log alone and moves one call within an outcome
\* changes nothing the serial store can see.
LEMMA Unseen ==
  ASSUME TypeOK, NEW c \in Calls, NEW q,
         pc' = [pc EXCEPT ![c] = q], UNCHANGED <<ticket, tail, wal>>,
         \/ pc[c] \in {"queued"} \cup Running /\ q \in Running
         \/ pc[c] = "committed" /\ q = "resolved"
  PROVE  UNCHANGED <<ticket, tail, CallOutcome, wal>>
<1>1. \A d \in Calls : Logged(d)' <=> Logged(d)
  BY DEF Logged
<1>2. CallOutcome' = CallOutcome
  BY <1>1, SMTT(30) DEF CallOutcome, TypeOK, PCs, Running, Inside, Settled
<1> QED
  BY <1>2

\* A call that was waiting and is rejected is refused.
LEMMA Rejected ==
  ASSUME IInv, NEW c \in Calls, pc[c] \in Running,
         pc' = [pc EXCEPT ![c] = "rejected"], UNCHANGED <<ticket, tail, wal>>
  PROVE  Serial!Refuse(c)
<1>1. \A d \in Calls : Logged(d)' <=> Logged(d)
  BY DEF Logged
<1>2. ~Logged(c) /\ pc \in [Calls -> PCs]
  BY DEF IInv, LogInv, TypeOK
<1>3. \A d \in Calls :
        CallOutcome'[d] = IF d = c THEN "refused" ELSE CallOutcome[d]
  BY <1>1, <1>2, SMTT(30) DEF CallOutcome, Running, Inside
<1>4. CallOutcome' = [CallOutcome EXCEPT ![c] = "refused"]
  BY <1>3, OutcomeChanges
<1> QED
  BY <1>4, ServedInTurn DEF Serial!Refuse

\* Initial states map to initial states.
LEMMA RefinesInit ==
  ASSUME Init
  PROVE  Serial!Init
BY DEF Init, Serial!Init, CallOutcome

\* Every step of the queue is a step of the serial store or a stutter.
LEMMA RefinesNext ==
  ASSUME IInv, [Next]_vars
  PROVE  [Serial!Next]_(Serial!storeVars)
<1> DEFINE Seen == <<ticket, tail, CallOutcome, wal>>
<1>0. TypeOK
  BY DEF IInv
<1>1. ASSUME NEW c \in Calls, Enqueue(c) PROVE Serial!Submit(c)
  <2>1. \A d \in Calls : Logged(d)' <=> Logged(d)
    BY <1>1 DEF Enqueue, Logged
  <2>2. /\ pc' = [pc EXCEPT ![c] = "queued"]
        /\ pc[c] = "new" /\ pc \in [Calls -> PCs]
    BY <1>0, <1>1 DEF Enqueue, Goto, TypeOK
  <2>3. /\ CallOutcome[c] = "none"
        /\ \A d \in Calls :
             CallOutcome'[d] = IF d = c THEN "waiting" ELSE CallOutcome[d]
    BY <2>1, <2>2, SMTT(30) DEF CallOutcome, Running, Inside
  <2>4. CallOutcome' = [CallOutcome EXCEPT ![c] = "waiting"]
    BY <2>3, OutcomeChanges
  <2> QED
    BY <1>1, <2>3, <2>4 DEF Enqueue, Serial!Submit
<1>2. ASSUME NEW c \in Calls, Start(c) PROVE UNCHANGED Seen
  BY <1>0, <1>2, Unseen DEF Start, Goto, Running
<1>3. ASSUME NEW c \in Calls, BeginOk(c) PROVE UNCHANGED Seen
  BY <1>0, <1>3, Unseen DEF BeginOk, Goto, Running, Inside
<1>4. ASSUME NEW c \in Calls, BeginBusy(c)
      PROVE  Serial!Refuse(c) \/ UNCHANGED Seen
  <2>1. CASE attempt[c] < MaxRetries
    BY <1>0, <1>4, <2>1, Unseen DEF BeginBusy, Goto, Running
  <2>2. CASE ~(attempt[c] < MaxRetries)
    BY <1>4, <2>2, Rejected DEF BeginBusy, Goto, Running
  <2> QED
    BY <2>1, <2>2
<1>5. ASSUME NEW c \in Calls, Retry(c) PROVE UNCHANGED Seen
  BY <1>0, <1>5, Unseen DEF Retry, Goto, Running
<1>6. ASSUME NEW c \in Calls, BeginError(c) PROVE Serial!Refuse(c)
  BY <1>6, Rejected DEF BeginError, Goto, Running
<1>7. ASSUME NEW c \in Calls, NEW i \in Parts, Body(c, i) PROVE UNCHANGED Seen
  <2>1. pc[c] \in Running /\ After(i) \in Running
    BY <1>7 DEF Body, At, After, Running, Inside
  <2> QED
    BY <1>0, <1>7, <2>1, Unseen DEF Body, Goto
<1>8. ASSUME NEW c \in Calls, BodyFails(c) PROVE UNCHANGED Seen
  BY <1>0, <1>8, Unseen DEF BodyFails, Goto, Running, Inside
<1>9. ASSUME NEW c \in Calls, Commit(c) PROVE Serial!Apply(c)
  <2>1. \A d \in Calls : Logged(d)' <=> (Logged(d) \/ d = c)
    BY <1>0, <1>9, LoggedAfterAppend DEF Commit, TypeOK
  <2>2. /\ pc' = [pc EXCEPT ![c] = "committed"]
        /\ pc[c] = "commit" /\ pc \in [Calls -> PCs]
    BY <1>0, <1>9 DEF Commit, Goto, TypeOK
  <2>5. \A d \in Calls :
          CallOutcome'[d] = IF d = c THEN "applied" ELSE CallOutcome[d]
    BY <2>1, <2>2, SMTT(30) DEF CallOutcome, Running, Inside
  <2>3. CallOutcome' = [CallOutcome EXCEPT ![c] = "applied"]
    BY <2>5, OutcomeChanges
  <2>4. pc[c] \in Running
    BY <2>2 DEF Running, Inside
  <2> QED
    BY <1>9, <2>3, <2>4, ServedInTurn DEF Commit, Serial!Apply
<1>10. ASSUME NEW c \in Calls, Resolve(c) PROVE UNCHANGED Seen
  BY <1>0, <1>10, Unseen DEF Resolve, Goto
<1>11. ASSUME NEW c \in Calls, Rollback(c) PROVE Serial!Refuse(c)
  BY <1>11, Rejected DEF Rollback, Goto, Running, Inside
<1>12. ASSUME UNCHANGED <<ticket, tail, pc, wal>> PROVE UNCHANGED Seen
  BY <1>12 DEF CallOutcome, Logged
<1>13. ASSUME Restart PROVE Serial!LoseAll
  <2>1. /\ UNCHANGED <<ticket, tail, wal>>
        /\ pc' = [c \in Calls |-> IF pc[c] = "new" \/ pc[c] \in Settled
                                  THEN pc[c] ELSE "lost"]
    BY <1>13 DEF Restart
  <2>2. \A c \in Calls : Logged(c)' <=> Logged(c)
    BY <2>1 DEF Logged
  <2>3. \A c \in Calls :
          CallOutcome'[c] = IF CallOutcome[c] = "waiting" THEN "refused"
                            ELSE CallOutcome[c]
    <3> SUFFICES ASSUME NEW c \in Calls
                 PROVE  CallOutcome'[c] =
                          IF CallOutcome[c] = "waiting" THEN "refused"
                          ELSE CallOutcome[c]
      OBVIOUS
    <3>1. pc[c] \in PCs
      BY <1>0 DEF TypeOK
    <3>2. pc[c] \in {"queued"} \cup Running => ~Logged(c)
      BY DEF IInv, LogInv
    <3> QED
      BY <2>1, <2>2, <3>1, <3>2, SMTT(30)
      DEF CallOutcome, PCs, Settled, Running, Inside
  <2>4. CallOutcome' = [c \in Calls |->
                          IF CallOutcome[c] = "waiting" THEN "refused"
                          ELSE CallOutcome[c]]
    BY <2>3, SMTT(30) DEF CallOutcome
  <2> QED
    BY <2>1, <2>4 DEF Serial!LoseAll
<1>14. ASSUME NEW w \in Writers, PlainWrite(w) PROVE UNCHANGED Seen
  BY <1>12, <1>14 DEF PlainWrite
<1>15. CASE OtherProcess
  BY <1>12, <1>15 DEF OtherProcess, Serial!storeVars
<1>16. CASE UNCHANGED vars
  BY <1>12, <1>16 DEF vars, Serial!storeVars
<1> QED
  BY <1>1, <1>2, <1>3, <1>4, <1>5, <1>6, <1>7, <1>8, <1>9, <1>10, <1>11,
     <1>13, <1>14, <1>15, <1>16 DEF Next, Step, Serial!Next, Serial!storeVars

\* The queue implements the serial store: calls are decided one at a time in
\* the order they were made, as wholes, and for good.
THEOREM QueueIsSerial == Spec => SerialSpec
<1>1. Init => Serial!Init
  BY RefinesInit
<1>2. IInv /\ [Next]_vars => [Serial!Next]_(Serial!storeVars)
  BY RefinesNext
<1> QED
  BY <1>1, <1>2, QueueInvariant, PTL DEF Spec, SerialSpec, Serial!Spec
=============================================================================
