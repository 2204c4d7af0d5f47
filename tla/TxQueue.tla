------------------------------ MODULE TxQueue ------------------------------
(***************************************************************************)
(* config/database.js: the one SQLite connection every request shares, the *)
(* promise chain that lines up the calls of dbTransaction on it, the       *)
(* retries of BEGIN IMMEDIATE, and the statements other requests run on    *)
(* the same connection without a transaction of their own.                 *)
(*                                                                         *)
(* A statement is atomic; everything pending may run between two of them.  *)
(* The body of a transaction is two writes, the least that can be half     *)
(* done.  The page is what the connection sees, the disk what a restart    *)
(* finds; they differ while a transaction is open.                         *)
(***************************************************************************)
EXTENDS Naturals, Sequences

CONSTANTS
  Calls,        \* calls of dbTransaction
  Writers,      \* statements run outside any transaction
  MaxRetries,   \* MAX_RETRIES, retries of a busy BEGIN
  MaxFaults,    \* bound: failed statements and restarts
  Nobody        \* no transaction is open

ASSUME QueueAssumption ==
  /\ MaxRetries \in Nat
  /\ MaxFaults \in Nat
  /\ Nobody \notin Calls

VARIABLES
  ticket,       \* place of each call in the promise chain; it hangs on the
                \* promise of the call one place before
  tail,         \* _txChain: the place of the last promise chained
  pc,           \* where each call stands
  attempt,      \* the retries each call has made of its BEGIN
  openTx,       \* the call whose transaction is open on the connection
  page,         \* the writes the connection sees
  disk,         \* the writes that survive a restart
  wal,          \* the transactions committed, in order
  plain,        \* what has become of each statement outside a transaction
  busy,         \* another process holds the write lock of the file
  faults        \* faults so far

vars == <<ticket, tail, pc, attempt, openTx, page, disk, wal, plain, busy,
          faults>>

Parts == {1, 2}
Inside == {"body1", "body2", "commit", "rollback"}
Running == {"begin", "backoff"} \cup Inside
Settled == {"resolved", "rejected", "lost"}
PCs == {"new", "queued", "committed"} \cup Running \cup Settled

Init ==
  /\ ticket = [c \in Calls |-> 0]
  /\ tail = 0
  /\ pc = [c \in Calls |-> "new"]
  /\ attempt = [c \in Calls |-> 0]
  /\ openTx = Nobody
  /\ page = {} /\ disk = {}
  /\ wal = <<>>
  /\ plain = [w \in Writers |-> "new"]
  /\ busy = FALSE
  /\ faults = 0

Goto(c, where) == pc' = [pc EXCEPT ![c] = where]

Fault ==
  /\ faults < MaxFaults
  /\ faults' = faults + 1

----------------------------------------------------------------------------
(* The promise chain.                                                      *)

\* Faulty variant of Enqueue: _txChain is not moved on to the new promise.
EnqueueKeepsTail(c) ==
  /\ pc[c] = "new"
  /\ ticket' = [ticket EXCEPT ![c] = tail + 1]
  /\ UNCHANGED tail
  /\ Goto(c, "queued")
  /\ UNCHANGED <<attempt, openTx, page, disk, wal, plain, busy, faults>>

\* dbTransaction is called: it chains its promise to the tail.
Enqueue(c) ==
  /\ pc[c] = "new"
  /\ ticket' = [ticket EXCEPT ![c] = tail + 1]
  /\ tail' = tail + 1
  /\ Goto(c, "queued")
  /\ UNCHANGED <<attempt, openTx, page, disk, wal, plain, busy, faults>>

\* The call whose promise c hangs on, if there is one.
Before(c) == {d \in Calls : pc[d] # "new" /\ ticket[d] + 1 = ticket[c]}

\* Faulty variant of Start: the call runs as soon as it is made.
StartAtOnce(c) ==
  /\ pc[c] = "queued"
  /\ Goto(c, "begin")
  /\ UNCHANGED <<ticket, tail, attempt, openTx, page, disk, wal, plain, busy,
                 faults>>

\* Faulty variant of Start: a rejected promise breaks the chain.
StartAfterSuccess(c) ==
  /\ pc[c] = "queued"
  /\ \A d \in Before(c) : pc[d] = "resolved"
  /\ Goto(c, "begin")
  /\ UNCHANGED <<ticket, tail, attempt, openTx, page, disk, wal, plain, busy,
                 faults>>

\* The promise before it settles, either way: the call runs.
Start(c) ==
  /\ pc[c] = "queued"
  /\ \A d \in Before(c) : pc[d] \in Settled
  /\ Goto(c, "begin")
  /\ UNCHANGED <<ticket, tail, attempt, openTx, page, disk, wal, plain, busy,
                 faults>>

----------------------------------------------------------------------------
(* _runTransaction.                                                        *)

\* BEGIN IMMEDIATE takes the write lock.
BeginOk(c) ==
  /\ pc[c] = "begin"
  /\ ~busy /\ openTx = Nobody
  /\ openTx' = c
  /\ Goto(c, "body1")
  /\ UNCHANGED <<ticket, tail, attempt, page, disk, wal, plain, busy, faults>>

\* SQLITE_BUSY: another try after a delay, at most MaxRetries times.
BeginBusy(c) ==
  /\ pc[c] = "begin"
  /\ busy /\ openTx = Nobody
  /\ IF attempt[c] < MaxRetries
     THEN /\ attempt' = [attempt EXCEPT ![c] = @ + 1]
          /\ Goto(c, "backoff")
     ELSE /\ UNCHANGED attempt
          /\ Goto(c, "rejected")
  /\ UNCHANGED <<ticket, tail, openTx, page, disk, wal, plain, busy, faults>>

\* The delay is over.
Retry(c) ==
  /\ pc[c] = "backoff"
  /\ Goto(c, "begin")
  /\ UNCHANGED <<ticket, tail, attempt, openTx, page, disk, wal, plain, busy,
                 faults>>

\* Any other error of BEGIN is thrown: a fault of the database, or a
\* transaction already open on the connection.
BeginError(c) ==
  /\ pc[c] = "begin"
  /\ IF openTx = Nobody THEN Fault ELSE UNCHANGED faults
  /\ Goto(c, "rejected")
  /\ UNCHANGED <<ticket, tail, attempt, openTx, page, disk, wal, plain, busy>>

\* Where the body goes on after its part i.
After(i) == IF i = 1 THEN "body2" ELSE "commit"
At(i) == IF i = 1 THEN "body1" ELSE "body2"

\* fn() runs its part i.
Body(c, i) ==
  /\ pc[c] = At(i)
  /\ page' = page \cup {<<c, i>>}
  /\ disk' = IF openTx = Nobody THEN disk \cup {<<c, i>>} ELSE disk
  /\ Goto(c, After(i))
  /\ UNCHANGED <<ticket, tail, attempt, openTx, wal, plain, busy, faults>>

\* fn() throws, or one of its statements or the COMMIT fails.
BodyFails(c) ==
  /\ pc[c] \in {"body1", "body2", "commit"}
  /\ Fault
  /\ Goto(c, "rollback")
  /\ UNCHANGED <<ticket, tail, attempt, openTx, page, disk, wal, plain, busy>>

Commit(c) ==
  /\ pc[c] = "commit"
  /\ disk' = page
  /\ wal' = Append(wal, c)
  /\ openTx' = Nobody
  /\ Goto(c, "committed")
  /\ UNCHANGED <<ticket, tail, attempt, page, plain, busy, faults>>

\* The callback of COMMIT resolves the promise.
Resolve(c) ==
  /\ pc[c] = "committed"
  /\ Goto(c, "resolved")
  /\ UNCHANGED <<ticket, tail, attempt, openTx, page, disk, wal, plain, busy,
                 faults>>

\* Faulty variant of Rollback: an error of the body commits what was done.
RollbackCommits(c) ==
  /\ pc[c] = "rollback"
  /\ disk' = page
  /\ openTx' = Nobody
  /\ Goto(c, "rejected")
  /\ UNCHANGED <<ticket, tail, attempt, page, wal, plain, busy, faults>>

\* ROLLBACK, which undoes every write made since BEGIN, whoever made it.
Rollback(c) ==
  /\ pc[c] = "rollback"
  /\ page' = disk
  /\ openTx' = Nobody
  /\ Goto(c, "rejected")
  /\ UNCHANGED <<ticket, tail, attempt, disk, wal, plain, busy, faults>>

----------------------------------------------------------------------------
(* The rest of the world.                                                  *)

\* A request runs dbRun outside dbTransaction.  On this connection it joins
\* whatever transaction is open; otherwise it commits by itself, or is
\* refused with SQLITE_BUSY while another process writes.
PlainWrite(w) ==
  /\ plain[w] = "new"
  /\ IF openTx = Nobody /\ busy
     THEN /\ plain' = [plain EXCEPT ![w] = "refused"]
          /\ UNCHANGED <<page, disk>>
     ELSE /\ plain' = [plain EXCEPT ![w] = "acked"]
          /\ page' = page \cup {<<w, 0>>}
          /\ disk' = IF openTx = Nobody THEN disk \cup {<<w, 0>>} ELSE disk
  /\ UNCHANGED <<ticket, tail, pc, attempt, openTx, wal, busy, faults>>

\* Another process takes or leaves the write lock of the file.
OtherProcess ==
  /\ openTx = Nobody
  /\ busy' = ~busy
  /\ UNCHANGED <<ticket, tail, pc, attempt, openTx, page, disk, wal, plain,
                 faults>>

\* The process restarts: calls in flight are lost, the open transaction is
\* rolled back when the file is opened again, and the chain begins anew.
Restart ==
  /\ Fault
  /\ pc' = [c \in Calls |-> IF pc[c] = "new" \/ pc[c] \in Settled
                            THEN pc[c] ELSE "lost"]
  /\ page' = disk
  /\ openTx' = Nobody
  /\ UNCHANGED <<ticket, tail, attempt, disk, wal, plain, busy>>

----------------------------------------------------------------------------
Step(c) ==
  \/ Start(c) \/ BeginOk(c) \/ BeginBusy(c) \/ Retry(c)
  \/ \E i \in Parts : Body(c, i)
  \/ Commit(c) \/ Resolve(c) \/ Rollback(c)

Next ==
  \/ \E c \in Calls : Enqueue(c) \/ Step(c) \/ BeginError(c) \/ BodyFails(c)
  \/ \E w \in Writers : PlainWrite(w)
  \/ OtherProcess
  \/ Restart

Spec == Init /\ [][Next]_vars

\* The event loop runs every callback that is due, and every delay ends.
FairSpec == Spec /\ \A c \in Calls : WF_vars(Step(c))

----------------------------------------------------------------------------
(* What the queue promises.                                                *)

\* Every variable keeps its type.
TypeOK ==
  /\ ticket \in [Calls -> Nat]
  /\ tail \in Nat
  /\ pc \in [Calls -> PCs]
  /\ attempt \in [Calls -> 0..MaxRetries]
  /\ openTx \in Calls \cup {Nobody}
  /\ page \subseteq (Calls \X Parts) \cup (Writers \X {0})
  /\ disk \subseteq page
  /\ wal \in Seq(Calls)
  /\ plain \in [Writers -> {"new", "acked", "refused"}]
  /\ busy \in BOOLEAN
  /\ faults \in 0..MaxFaults

\* No call tries to BEGIN while the transaction of another is open, so that
\* SQLite never answers "cannot start a transaction within a transaction"
\* (the C-1 fix of dbTransaction).
NeverNested ==
  \A c \in Calls : pc[c] \in {"begin", "backoff"} => openTx = Nobody

\* On disk the writes of a transaction are all there or all missing,
\* whatever fails and whenever the process restarts; a resolved call's are
\* there and a rejected call's are not.
AllOrNothing ==
  \A c \in Calls :
    /\ <<c, 1>> \in disk <=> <<c, 2>> \in disk
    /\ pc[c] = "resolved" => <<c, 1>> \in disk
    /\ pc[c] \in {"new", "rejected"} => <<c, 1>> \notin page

\* Every call of dbTransaction is answered in the end, however often BEGIN
\* finds the file busy and whatever became of the calls before it.
EveryCallSettles ==
  \A c \in Calls : pc[c] = "queued" ~> pc[c] \in Settled

\* The queue implements the serial store: a call is applied at its COMMIT.
Logged(c) == \E i \in 1..Len(wal) : wal[i] = c

CallOutcome ==
  [c \in Calls |->
     IF pc[c] = "new" THEN "none"
     ELSE IF pc[c] \in {"queued"} \cup Running THEN "waiting"
     ELSE IF Logged(c) THEN "applied" ELSE "refused"]

Serial == INSTANCE SerialStore
            WITH place <- ticket, last <- tail, outcome <- CallOutcome,
                 log <- wal

SerialSpec == Serial!Spec

\* Refuted by the code.  Stated by config/database.js:48-49 and ADR-001: a write that has been
\* acknowledged is not undone by the transaction of another request.
AckedWriteIsKept ==
  [][\A w \in Writers : plain[w] = "acked" /\ <<w, 0>> \in page
                          => <<w, 0>> \in page']_vars
============================================================================
