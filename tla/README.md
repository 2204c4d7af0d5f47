# A verification model of the OnCall back end

The repository is a ride-hailing back end (taxis and scooters, wallets, an administrator's
console) on Node.js with one SQLite connection, together with a family of platform
kernels. This directory holds TLA+ modules that model its core, TLC configurations that
check them on small instances, and TLAPS proofs that hold for every instance.
`PROJECT.json` is the index: it maps each definition to source lines and lists the runs,
the mutants that each property catches, the findings, the hazards and the theorems.

Contents: 1. the system; 2. the modules; 3. the runs; 4. bounds; 5. fairness; 6. what is
proved; 7. where code and documents disagree; 8. assumptions and what is not modelled;
9. the plan.

## 1. The system

### How it runs

One Node.js process serves HTTP and Socket.IO. Code runs without interruption up to an
`await`; there, any other pending request, socket event or timer may run. All the
concurrency of this program is of that kind, and nearly all its defects would be too: a
row is read, a policy is asked about it, and by the time the handler writes, the row has
changed. The handlers share four things: the SQLite file through **one connection**
(`config/database.js`), a few in-memory maps (`tripTimers` in `services/driverMatcher.js`,
the revocation map of `middleware/auth.js`, the inbox's in-flight map, caches), the
in-process event bus, and the sockets. A restart loses the maps and keeps the file.

The models follow this: a *slot* (a request, a timer, a relay loop) has a program counter,
and one action is one database call with the synchronous code after it, up to the next
`await`.

### Inventory

**Trip dispatch and lifecycle** (`application/trips`, `domain/trips`,
`services/driverMatcher.js`, `repositories/TripRepository.js`).
State: the `trips` row (status, driver, who was asked, who declined), `drivers.status`,
`taxis.status`, and the `tripTimers` map.
Operations: request, matching, offer with a 30-second timer, reject, accept, arrive, start,
complete and settle, cancel (passenger, driver, administrator), put back, delete all,
presence, hourly repair of taxi states.
Interacts with: the wallet (settlement), the bus (a unit of work around each event), the
sockets (offers), start-up (clean-up of old waiting trips).
Hard: two drivers accept at once; a timer acts on an old row; timers of one trip overwrite
each other in the map; status updates come in any order; a restart loses every timer.
Correct when: one driver wins a trip and keeps it, a driven trip has a driver, no request
is forgotten, every search ends, a busy taxi is busy for a trip.

**Database queue** (`config/database.js`).
State: the promise chain `_txChain`, the open transaction, the file.
Operations: `dbTransaction` (BEGIN with retries, body, COMMIT or ROLLBACK), plain
statements.
Hard: concurrent calls on one connection; a failing body; a busy file; a crash between
statements; plain statements that land inside someone else's transaction.
Correct when: transactions are serial and atomic, and each call is answered.

**Scooters and wallets** (`application/scooters`, `application/commerce`,
`services/payment.js`, `repositories/ScooterRepository.js`, `WalletRepository.js`).
State: scooter rows and their riders, ride records, balances, the `transactions` ledger.
Operations: unlock, end ride (one transaction), fare payment, top-up, administration.
Hard: concurrent unlocks; a repeated end-ride; overdraft between check and deduction; half
of a money movement.
Correct when: no wallet is overdrawn, the ledger explains balances, one rider wins, only
the rider ends a ride.

**Event backbone** (`application/shared/outbox.js`, `inbox.js`, `eventBus.js`).
State: staged events, outbox rows, deliveries and their retries, in-flight map, inbox
records, dead letters.
Operations: persist, relay, background relay, publish, deliver, retry, park, deduplicate.
Hard: relay and background relay publish one row concurrently; a duplicate joins a delivery
that then fails; a crash between effect and record; an abort after persist.
Correct when: no event of an aborted transaction is announced, effects happen once up to
what a crash explains, no row is marked before its deliveries ended, every publish ends.

**Login, one-time codes, sessions** (`application/identity`, `services/otpService.js`,
`middleware/auth.js`).
State: `refresh_tokens`, the map of revoked access tokens and its table, `otp_codes`.
Operations: log in, refresh (verify, ask the gate, revoke, issue), log out, log out
everywhere; send and verify a code.
Hard: two refreshes with one token; a refresh overtaking log-out-everywhere or a suspension;
a failure between the two writes of a rotation; a revocation nobody waits to see written.
Correct when: what was ended stays ended, nobody else loses a session, an exchanged token is
not accepted again, a driver who was never approved gets no token.

**Driver approval and availability** (`application/drivers`).
State: `approval_status`. Operations: approve, reject, suspend, reactivate; a suspension then
revokes access tokens and sessions in statements of their own. Modelled with the sessions;
its effect on dispatch is in `TripDispatch`.

**Lock kernel** (`application/lock`).
State: one record per lock, the service's promise chain, polling timers.
Operations: `acquire` (polls until a deadline), `tryAcquire`, `renew`, `release`, and
`isHeld` and `owner`, which read beside the chain and write back the expiry they find.
Hard: leases that lapse while a write is under way, a store that rejects a write it has
made, a late reader. Correct when: two owners never count on the lock at once.

**Scheduler kernel** (`application/scheduler`).
State: job records, the `running` counter, `_ticking`, `_draining`.
Operations: `register`, `tick` (fills up to the limit and refills as executions end), retry,
cancel, pause, resume, `runNow`, `recover`, `shutdown`.
Hard: a second waiting tick runs beside the third; recovery of a job still running; a cancel
answered before the handler ends. Correct when: a job runs once at a time, the limit and the
counter hold, a drained scheduler is quiet, a due job is started.

**Jobs kernel** (`application/jobs`).
State: stored jobs, the deduplication map, one promise chain per job.
Operations: `enqueue`, `tick` (recover timed-out jobs, then run the due ones), `cancel`.
Hard: ticks are not guarded against each other and work on lists they made earlier; writes
that are rejected after the work is done; two enqueues with one key. Correct when: a job
has one attempt at a time, finished work is not repeated, every job is decided.

**Workflow kernel** (`application/workflow`).
State: the persisted instance (state, status, version), a chain per id, a timer on the
scheduler for each timed state.
Operations: `start`, `signal`, `cancel`, timeouts, `recover` after a restart.
Hard: a timeout that fired and waits behind the signal that leaves its state; a state left
and entered again; recovery off the chain; a final state and its status in two writes.
Correct when: a stay has its own timer and no other, and a timed stay ends.

**Resource kernel** (`application/resources`).
State: a resource record with a sum, the allocations, a chain per resource.
Operations: `allocate` with reservation, quota and preemption, `release`.
Hard: sum and allocation are two writes; a release looks its allocation up before its turn.
Correct when: capacity and quotas hold and the sum is that of the active allocations.

**Realtime channel** (`socket.js`). State: sockets and rooms, the `route` column rewritten
by each location event. Presence and the repair of taxis are in `TripDispatch`; the route is
not modelled.

**Administration, users, fleet, notifications, AI, maps, SMS, cache, backup, analytics,
fare arithmetic.** Single statements, reads, best-effort calls to the outside and
derived data. No multi-step protocol of their own; the administrator's operations that
touch trips and scooters are actions of those modules.

**Start-up and shutdown.** `start()` is sequential; what it repairs after a crash is part
of the `Restart` actions.

**PostgreSQL engine, Redis state.** Optional and off by default. PostgreSQL uses a client
per transaction, so `TxQueue` is about the default SQLite engine only; `SerialStore` says
what either has to provide.

**Other platform kernels** (request and reply messaging, resilience, rate limits, lifecycle,
and the registries). They run in the process but the request handlers do not depend on
them; each is a table and a few synchronous steps around a call. Not modelled.

**Platform assembly, adapters, shadow mode.** Wiring and comparison of discarded results;
not modelled.

## 2. The modules

    TripDispatch     ScooterWallet    Messaging    TxQueue --implements--> SerialStore
    Sessions         LeaseLock        Scheduler    Jobs      Workflow      Resources

| Module | What it is | Theorems |
|---|---|---|
| `TripDispatch` | dispatch, the ride's lifecycle, presence and taxi state, restarts and failing database calls | `TripDispatchProofs` |
| `SerialStore` | the abstract promise of `dbTransaction`: calls decided one at a time, in call order, as wholes | |
| `TxQueue` | the connection, the promise chain, BEGIN retries, plain statements, another process, restarts; implements `SerialStore` by a refinement mapping | `TxQueueProofs` |
| `ScooterWallet` | unlocking, the end-of-ride transaction, fares and top-ups on one wallet | `ScooterWalletProofs` |
| `Messaging` | units of work, outbox, relay loops, deliveries, inbox, dead letters | `CoordinationProofs` |
| `Sessions` | a driver's logins, refreshes, logouts and approval, restarts and failing statements | `SessionsProofs` |
| `LeaseLock` | one lock: callers on the chain, readers beside it, a moving clock, a failing store | `CoordinationProofs` |
| `Scheduler` | ticks and executions of the scheduler kernel beside its other operations | `KernelProofs` |
| `Jobs` | enqueues, ticks and cancels of the jobs kernel over a failing store | `JobsProofs` |
| `Workflow` | one workflow with its timer, its chain, recovery, failed writes and stops | `WorkflowProofs` |
| `Resources` | allocations, preemption and releases on one resource over a failing provider | `KernelProofs` |
| `MC...` | concrete functions and symmetry sets for TLC | |

**TripDispatch.** `status`, `driver`, `assigned`, `rejected` are columns of `trips`; `duty`,
`taxi`, `approval` of `drivers` and `taxis`; `timer` is `tripTimers`. A slot's `pc` is the
await it is at, `on`, `by` and `list` are its local variables. The timer callback is
`TimerFires`, `TimerReads`, `WriteRejected`, `FindNext`, `MarkNoDriver`; `rejectTrip` joins
it after `RejectClearsTimer`. `AcceptTrip` is the read and the policy, `AcceptWrites` the
guarded UPDATE, `TakeTaxi` the taxi and the clearing of the timer. A timer that fires leaves its
entry in the map, so `timer` may name a slot that has gone on; `Remembered` is what
`clearTimeout` can still stop. The other status updates
are a read (`DriverUpdates`) and an unguarded write. `paid`, `requeued`, `unmatched`, `broken`
and `stranded` are history: they say why a property may be excused and no guard reads them.
"Nearest" is abstracted to "some available driver"; fares are not here.

**TxQueue.** `ticket` and `tail` are the chain, a transaction's body is two writes (the
least that can be half done), `page` is what the connection sees and `disk` what a restart
finds. Under the mapping a call is applied at its COMMIT, where `wal` grows, although its
caller learns of it later, or never after a crash.

**ScooterWallet** uses the transaction as `TxQueue` shows it: one `holder`, whose `image`
comes back at ROLLBACK, with other requests' statements in between. Which waiting
transaction begins next is left open where the code is first-come-first-served: more
behaviours, so the invariants hold a fortiori, and the violations found do not need it. The history variables are `torn`, the users whose money
a fault may have parted from its row, and `disturbed`, the scooters whose ride changed under an
end-ride in flight.

**Messaging** names an event by its unit. A *relayer* is a unit relaying after its commit
or a background pass. `durable` chooses between the in-memory default stores and durable
adapters of the ports; a durable row is visible once its transaction commits.

**Sessions.** A request's `call` holds the statement it is at and its token; `rows` is
`refresh_tokens`, `inMap` and `saved` the two places of the last revocation of access tokens
(`saving` while nobody waits for the second). `Verify`, `Gate`, `Rotate` and `Insert` are the
four awaits of a refresh; `Decide`, `RevokeAccess` and `Close` those of a suspension. The
history variables say who was under way when the sessions were ended (`stale`), whether one
of them issued a token (`escaped`), and what excuses a revoked token (`ended`, `broken`,
`spent`).

**LeaseLock.** `queue` is the promise chain; `Load`, `Settle` and the write of each operation
are the awaits of a call; `ReadBeside` and `AnswerBeside` are the two of `isHeld` and `owner`.
A failing write may have been made or not. `grant` is what an owner has been told.

**Scheduler** and **Jobs.** Time is abstracted to whether a job is due and, per tick, which jobs
its `now` covers. An element of `execs` is a call of `_execute` in flight. In `Jobs`, `chain` is
`_withLock` per job; `Recover`, `Begin`, `Complete`, `Fail` and `CompletionLost` are what a tick
does at its turn on it, `sees` the jobs that were due at the tick's own time.

**Workflow.** The head of `chain` is the call that runs; load, decision, write and re-arming
are one step because the chain serialises them, and `Finalize` is the second write of a final
state. `Fire` is the scheduler running the armed timer, `RecoverList` and `RecoverArm` the read
and the arming of `recover()`, which is not on the chain.

**Resources.** `allocated` is the stored sum and `sum` the copy a running call has loaded;
`Preempt`, `Create`, `Store` and `Drop` are the provider writes in the order of the code, and
`Remains` what a rejected one leaves behind.

Definitions commented "Faulty variant of" are the mutants named in `PROJECT.json`: each is
the code with a plausible slip (a dropped guard, a missing reset), nothing in `Next` uses
it, and each property is known to be violated by one of them under its own run.

## 3. The runs

| Run | Instance | Shows |
|---|---|---|
| `dispatch_safety` | 1 trip, 2 drivers, 3 slots, 4 calls, 1 fault | a driven trip has a driver; the driver a request was checked against is still the trip's when it writes; the first winner keeps the trip; a matched waiting trip is never without a timer or handler; a busy taxi has a trip or a request about to free it |
| `dispatch_live` | 1 trip, 2 drivers, 3 slots, 3 calls, no fault, fair | a search ends, unless three searches of the trip overlap |
| `txqueue` | 3 transactions, 1 plain write, 2 retries, 2 faults, fair | transactions never nest and are atomic across failures and restarts; the queue implements `SerialStore`; every call is answered |
| `wallet_safety` | 1 scooter, 2 users, 3 slots, 4 calls, 1 fault | no overdraft; the ledger explains the balances; a ridden scooter passes on only by a rollback; an end-ride that waited ends its own user's ride, but for a repetition, a reset or a rollback |
| `messaging` | 1 event, 1 background pass, 2 consumers, 1 retry, 2 faults, 1 lapse, fair | no phantom event; effects bounded by 1 + lapses; a duplicate waits only for a delivery that runs; a row is marked only after its deliveries; every relay ends; no deadlock |
| `sessions` | 2 requests, 2 tokens, 2 approval changes, 1 failure, fair | ended sessions stay ended and no other is lost; a blocked driver gets no token; an exchanged token is spent; a suspension ends the sessions |
| `lease_lock` | 2 owners, 2 callers, 1 reader, leases of 1 and 2, fair | two owners never count on the lock at once; a live lease is its owner's; every call is answered; no deadlock |
| `scheduler` | 2 jobs (one recurring), limit 1, 1 retry, 2 ticks, 2 operations, fair | one execution per job, the limit, an exact counter, a quiet drained scheduler; a cancel holds; a due job is started |
| `jobs` | 2 jobs with one key, 2 attempts, 2 ticks, 1 cancel, 1 fault, fair | one attempt at a time and one live job per key; work is not repeated; retries wait; every job is decided |
| `workflow` | 4 states, 4 calls, 2 starts, 2 faults, 1 stop, fair | a stay has its timer and no other; a timeout ends its own stay; a timed stay ends |
| `resources` | 3 owners, 2 callers, capacity 4, reservation 1, quota 2, 4 allocations, 2 faults | never over-committed, quotas kept, the books right but for the drift named; preemption takes the lowest priority first |
| `dispatch_paid_twice` | as `dispatch_safety` | a counterexample, see section 7 |

`CHECK_DEADLOCK FALSE` is set where the system may stop: once the bounded calls are made
and served nothing needs to happen. `Messaging` names its end (`Rest`) and `LeaseLock` can
always read or call again, so in these two deadlock is checked.

Where a module has several invariants of one kind they are conjuncts of one property
(`SessionsAreSound`, `ExecutionsAreSound`, `JobsAreSound`, `StaysAreSound`,
`AccountsAreSound`), each conjunct named and commented in its module.

## 4. The bounds

`MaxCalls`, `MaxFaults`, `MaxLapses` and the sizes of the sets are the only bounds, and all
are guards of the actions that spend them.

- *Dispatch.* Trips share drivers and slots but the properties speak of one trip at a time.
  The races are between a timer, a reject handler and an accept handler of one trip, which
  takes three slots: request, then an accept and a reject, or two accepts, is three or four
  calls. Two drivers let an offer move on and two acceptances meet. The liveness run gives
  up one call and the fault for tractability and keeps the three slots: a timer and two
  handlers that overwrite each other's declined list.
  The safety run compares states by a `VIEW` that leaves out what no guard and no property of the
  run reads: who was asked last, the settlement count, and the entries of fired timers.
- *Queue.* Three calls are the least that has a first, a middle and a last one, so that a
  failure in the chain has calls on both sides. Two retries reach the last one; two faults
  let a statement fail and the process restart in one behaviour.
- *Wallet.* Two users contend for one scooter while a third request uses the same wallet.
  Fares of 1 and 2 against an opening balance of 2 make each of "enough", "enough for one
  of two" and "not enough" happen.
- *Messaging.* One event with a relayer and a pass gives concurrent duplicates, two
  consumers make publishing wait for the slower one; one retry with two faults reaches the
  dead-letter queue. Events do not interact except through a relayer's loop, which the
  proofs cover for any number of units.
- *Sessions.* Two requests at a time and two tokens give two refreshes with one token, a
  refresh beside a suspension, and a successor; two changes suspend and reactivate.
- *LeaseLock.* Two callers for two owners and a reader: a holder, a contender that polls, and a
  late write. Leases of 1 and 2 let a renewal shorten a lease, and `MaxClock` 1 lets the
  shorter one lapse in the middle of any call.
- *Scheduler*, *Jobs.* Two jobs compete for one execution, and two ticks overlap; a third
  waiting tick is not in the model, two being enough for a tick that runs beside the one others
  wait for. Two attempts reach the retry and the dead letter.
- *Workflow.* Four calls leave a state and enter it again and still leave one in the chain;
  two starts reach the reuse of an id; two faults lose a timer's write and a final one.
- *Resources.* Capacity 4 less a reservation of 1 holds one allocation of each size; three
  priorities let a request preempt one and spare another, and the third owner lets it do so in
  vain (with two, the quota of 2 keeps a request from needing more than it can preempt); two
  faults cut an allocate and a release in one behaviour.

The proofs remove these bounds for the safety properties they cover: all the constants,
`MaxFaults` and the like included, are arbitrary there.

## 5. Fairness

Safety is checked and proved without it. For liveness:

- *Dispatch*: weak fairness of each slot's next own step. A slot's
  step is the continuation of a settled database call, or a 30-second timer, and Node.js
  runs both in the end. Calls of clients are not assumed to come, nor the hourly repair, and
  faults neither.
- *Queue*: weak fairness of each call's own steps. The delays between retries end, SQLite
  answers each statement. Nothing is assumed of the other process: the lock may be held for
  ever, and the calls still settle because the retries are counted.
- *Messaging*: weak fairness of relay loops and deliveries (continuations and backoff
  delays). Nothing is assumed of the background passes, since nothing in the repository
  calls `relayPending`, nor of the units of work.

- *Sessions*: weak fairness of each request's own steps: the database answers. Nothing of the
  write nobody waits for, nor of clients.
- *LeaseLock*: weak fairness of each call's steps, of its polling timer and of the clock. The
  polls end because `acquire` has a deadline, not because the lock comes free.
- *Scheduler*: the interval timer calls `tick`, a tick goes on, and for each job an execution
  ends (`_execute` races the handler with its timeout). Calls from outside are not assumed.
- *Jobs*: the same, with time passing for each job (a job in the model has a timeout) and writes
  settling. That handlers end is assumed: a handler that hangs holds the lock of its job, and
  the recovery pass of a later tick waits behind it.
- *Workflow*: the chain runs, the scheduler fires what is armed, and a host that restarts calls
  `recover()`.
- *Resources* has no liveness property.

`SearchEnds` holds under a bounded number of calls; each call can start or prolong a search
only once, so what it shows is that a search left alone ends. It allows the trip to be
put back by its driver, to have found nobody at first, or to have been hit by a fault; and
it says nothing while three searches of one trip run at once (`Crowded`), for these can undo
each other's declined lists for ever. `StayEnds` and `SuspensionEndsSessions` likewise name what excuses
them: a timer lost to a failed write, a request under way.

## 6. What is proved

All theorems are of the form `Spec => []Inv` or `Spec => [][A]_vars` (or a refinement), for
arbitrary finite or infinite sets and any bounds, from the named assumption on the
constants in each module (naturals are naturals and null values are not members). Two proof
modules extend two specifications that share nothing: `KernelProofs` is about `Scheduler` and
`Resources`, `CoordinationProofs` about `LeaseLock` and `Messaging`. That is why `Resources` and
`Messaging` call their initial predicate `ResourcesInit`, `MessagingInit`, and so on.

| Theorem | By way of |
|---|---|
| `TripDispatchProofs`: `TypeCorrect`, `DrivenTripsHaveDriver`, `ChecksOutliveTheRead`, `BusyTaxisAreOwed`, `NoRequestForgotten`, `FirstAcceptanceWins` | `IInv == TypeOK /\ DriverInv /\ CheckedDriverStays /\ SearchIsAlive /\ BusyTaxiHasTrip` |
| `TxQueueProofs`: `TypeCorrect`, `CallsNeverNest`, `TransactionsAreAtomic`, `QueueIsSerial` | `IInv == TypeOK /\ ChainInv /\ OpenInv /\ WriteInv /\ LogInv` |
| `ScooterWalletProofs`: `TypeCorrect`, `WalletsNeverOverdrawn`, `ClaimsAreExclusive`, `RideEndsAreOwn`, `LedgerExplains` | `IInv == TypeOK /\ SlotInv /\ HolderInv /\ FundsInv /\ RideInv`, and `LedgerInv` |
| `CoordinationProofs`, of `Messaging`: `MessagesTyped`, `NoPhantoms`, `EffectsAreBounded`, `NobodyWaitsInVain`, `MarkedRowsAreHandled` | `MessagingInv == MessagingTypeOK /\ LoopInv /\ CommitInv /\ LockInv /\ WaitsForRunner /\ EffectInv /\ HandledInv` |
| `SessionsProofs`: `SessionsSound`, `BlockedGetsNoToken`, `ExchangedTokensStaySpent` | the conjuncts of `SessionsAreSound` with `Numbered`, `Carried`, `SpentInv`, `Unblocked`, `UnderWay`, `SavingInv` |
| `CoordinationProofs`, of `LeaseLock`: `LeasesExclude`, `LiveLeasesAreKept`, `TypeCorrect` | `IInv == Shapes /\ ChainOK /\ LocalInv /\ GrantInv` |
| `JobsProofs`: `JobsSound`, `WorkIsDoneOnce`, `RetriesWait`, `FinishedStaysFinished` | `IInv == TypeOK /\ AttemptsInv /\ HandlerInv /\ DoneInv /\ KeyInv /\ SeesInv /\ OneTick /\ RunInv` |
| `WorkflowProofs`: `StaysSound`, `TimeoutsEndTheirStay`, `OverStaysOver` | the conjuncts of `StaysAreSound` with `ArmedInv`, `FinishingInv`, `VersionInv`, `BirthInv` |
| `KernelProofs`, of `Scheduler`: `SchedulerSound`, `CancelledNeverStarts` | `SchedulerInv == WorkInv /\ TickTypes /\ Quiet` |
| `KernelProofs`, of `Resources`: `ResourcesSound`, `PreemptionOrdered` | `ResourceInv`, the conjuncts of `AccountsAreSound` with `CopyIsRead`, `StoredIsHigh`, `RoomLeft`, `NumbersLeft` |

*Dispatch.* That a driven trip has a driver does not follow from itself: the writes that make a
trip driven are unguarded, so `DriverInv` adds that a slot about to make one got there by
reading a row with a driver, and that a driver, once written, is never removed.
`FirstAcceptanceWins` needs in addition that a trip which has a driver and was not put back is
not waiting, which is what makes the guard of the acceptance exclusive. `ChecksOutliveTheRead`
is the same seen from a handler: `assignedDriverPolicy` is asked on a row read awaits earlier,
and the only other writers of `driver_id` are an acceptance, which needs a trip without one, and
the put-back, after which the property says nothing. `SearchIsAlive`: a
handler that clears a timer stops one of its own trip only (`Remembered`), and has either won the
trip or is itself the one that goes on with the search. `BusyTaxiHasTrip` is inductive because
`stranded` is kept with the writes: whoever takes the active status from a trip either acts for
its driver and frees the taxi next, through a failed settlement too, or puts the driver there,
and any write that makes the taxi not busy takes the driver out. An acceptance that takes the taxi
of a trip it no longer has puts its driver there as well.

*Queue.* `ChainInv` says that the places are a permutation of `1..tail` and that whatever stands
before a running call has settled; uniqueness of the running call, hence `NeverNested`, follows.
`WriteInv` relates each call's program counter to which of its writes are on the page and on
disk. The refinement goes action by action: chaining is `Submit`, COMMIT is `Apply`, a rejection
is `Refuse`, a restart is `LoseAll`, the rest stutters.

*Wallet.* The deduction is guarded in its own statement, but a ROLLBACK brings back an old
balance: `FundsInv` carries non-negativity for the image of BEGIN too. `ClaimsAreExclusive` is
about claims (`setRiding`); the eviction of section 7 goes the other way, through a scooter made
available too early. `RideEndsAreOwn` says how far the ownership check carries: as long as one
request is about to end a ride (`EndingInv`), the scooter stays ridden by its user or is
deleted, because only that request could free it and a claim needs it free; a repetition, a
reset and a rollback that brings back another row are the exceptions, kept in `disturbed`.
`LedgerInv` carries the ledger of the image too: it was balanced, except for users with a top-up
between its two statements then, which is why a rollback can only harm these; the set of top-ups
under way is finite and its cardinality moves by one.

*Messaging.* `LockInv`: the delivery that runs a handler is the one in the in-flight map, and
its event has no inbox record; with `WaitsForRunner`, every duplicate that waits does so for
such a delivery. `EffectInv` is the count that makes "at most once" inductive: an effect beyond
the lapses is either recorded or about to be recorded. `HandledInv` says the same of completion,
and needs that a relayer's loop (`LoopInv`) only ends a publish when every delivery is done.

*Sessions.* `UnderWay` ties a request that can still issue a token to `stale`, the requests that
were under way when the sessions were ended; that ended sessions stay ended follows, because any
token is issued by such a request or by a login after it. `SpentInv` says that an exchanged
token is a revoked row, so `Verify` refuses it.

*LeaseLock.* `GrantInv` relates what an owner was told to the stored record: an unexpired grant
of an owner is the record's, unless somebody overwrote it. `LocalInv` says that what the running
call has loaded is still what is stored, because only it writes - readers apart, and a reader
writes only an expiry.

*Jobs.* Two ticks may have collected one job; `HandlerInv` gives the handler to the head of the
job's chain, and `AttemptsInv` counts attempts, so that the one behind finds the job finished,
or retrying. `SeesInv` and `OneTick` explain `RetryWaits`: with one tick at a time, a job it
sees as due has not failed since.

*Workflow.* A fired timeout waits in the chain with the version of its stay; `BirthInv` says
that with one start the versions tell the stays apart, so a timeout whose version is current was
born in this stay.

*Scheduler.* `ExecutionsAreSound` is not inductive: that a job is in flight once needs what
makes a job due. `Held` says of a record that no tick starts it, and `InFlightHeld` that every
job in flight is held but for those in `forked`. Each operation is then judged by what it does
to held records, and `CancelledHeld` carries the same for a cancelled job through pauses,
retries and resumes. The counter is the cardinality of a finite set of executions. `Quiet` is
about the awaits of `tick`: after `drained` no call is left that will fill again.

*Resources.* A call writes allocation and record one after the other. `CopyIsRead` says that
before its first write the running call's copy is the stored sum; `StoredIsHigh` that in the
middle of a preemption or release the stored sum is too high, which is how a rejected write
leaves it. `RoomLeft` carries the quota check from the beginning of a call to its write, across
the preemptions between: they take from owners and give to none. The sum over allocations is the
number of their units, a cardinality (`SumOf`), so that `SumGrows` and `SumShrinks` follow from
the library's facts on finite sets without induction over data.

Only model-checked: the liveness properties (`SearchEnds`,
`EveryCallSettles` of both modules, `RelayEnds`, `SuspensionEndsSessions`, `DueIsStarted`,
`EveryJobIsDecided`, `StayEnds`), which are out of the prover's reach. Every invariant and every
action property that a run checks is also a theorem. The type invariants of `TripDispatch`,
`TxQueue`, `ScooterWallet`, `Messaging` and `LeaseLock` are proved for the sake of the others and
are not properties of a run.

## 7. Where the code and the documents disagree

`dispatch_paid_twice` is a `violation` run; the trace TLC prints is a schedule of the code. The
other statements are kept as formulas of their modules, commented "Refuted by the code.": adding
the name to the INVARIANTS or PROPERTIES of the module's `.cfg` gives the trace. They
describe what the properties that do hold have to except.

1. `PaidOnce`: `completeTrip` updates by id, and settlement has no guard of its own: a
   completion sent twice by the driver pays twice. ADR-001 describes an idempotent unit.
2. `WaitingIsSearched`: a trip whose first search finds nobody stays `waiting_driver` with no
   timer and no handler until the clean-up of the next start. The schema document says the
   system is searching.
3. `AcceptedIsKept`: a timer or a reject handler that read `waiting_driver` writes `no_driver`
   over an acceptance written meanwhile.
4. `AckedWriteIsKept`: a statement outside `dbTransaction` joins whatever transaction is open
   on the shared connection, and is undone with it after it was acknowledged.
5. `OnlyRiderEndsRide`: the ownership check of an end-ride precedes its wait for the
   transaction; a repeated request can end the next rider's ride. `OwnRideIsEnded` says that only
   such a repetition, a reset or a rollback lets this happen.
6. `MoneyTakenIsLedgered`: a failed ledger insert is swallowed inside the settlement, which
   commits with the money taken.
7. `PublishedOnlyIfCommitted` (with `Units = {e1, e2}`): with the default in-memory outbox store,
   an event saved by a transaction that is rolled back stays there and `relayPending` publishes
   it. With durable stores this cannot happen (`NoPhantom`, proved).
8. `VerifyIsClean`: an `allocate` that preempts and then still does not fit throws without
   storing the reduced sum, so the stored sum is too high although no provider call failed;
   `docs/RESOURCES-DEVELOPER-GUIDE.md` has `verify()` find no drift.

Remarks met on the way, each an exception in a property:

- The comment on `publish` in `eventBus.js` says that it resolves once dispatch is *scheduled*; it
  awaits the deliveries, and `MarkedIsHandled` depends on that (the mutant
  `DeliveredWhenScheduled` violates it). The inbox can run handler and record in one
  transaction through a `txRunner`; the bus passes none, which is why `EffectsBounded` counts
  lapses.
- Two refreshes that have both verified one token get a successor each, and a login or refresh
  under way when the sessions are ended inserts its token afterwards (`escaped`).
- A reader of a lock that loaded an expired record may write it back over the lease another
  owner acquired meanwhile (`overwritten`). A renewal that shortens a lease and whose write is
  rejected after it was made leaves its owner counting on the longer one (`misled`).
- A recurring job that is cancelled while it runs and completes is scheduled again (`outlived`);
  `recover()` puts a job back to work beside its running execution (`forked`).
- Overlapping ticks of the jobs kernel start a retry before its delay (`overlap`); a completion
  whose write is rejected is counted as a failure and the work is done again (`lost`); two
  enqueues with one key that both await the earlier job create a job each (`raced`).
- A second start under one workflow id counts versions from 1 again, and an old timeout may
  expire the new run. A workflow whose second, final write fails stays running in a final state,
  where `recover()` passes over it (`torn`). A timeout whose write fails is not armed again, and a
  recovery that read before a signal replaces its timer, or arms one for a workflow whose last write
  is under way (`disturbed`).
- An acceptance writes the trip, then the taxi: a cancellation or deletion in between has freed the
  taxi already, which is then busy without a trip until the hourly repair. The same happens
  to a driver's taxi when the trip is put back, when `no_driver` is written over the ride, when a
  cancellation that read the trip before the acceptance ends it, and when the write that frees the
  taxi is lost (`stranded`).

## 8. Assumptions, and what is not modelled

- A statement is atomic, and SQLite's COMMIT is durable. ROLLBACK does not fail.
- A handler of the bus has its effect or throws without one; a unit stages one event.
- `ScooterWallet`: the foreign key of `scooter_rides` refuses to delete a scooter that has
  rides; only active rides are counted, so a scooter with none but finished rides can be deleted in
  the model: more behaviours than the code has.
- `Resources`: `release` looks the allocation up and then joins the chain, with an await between;
  `AskRelease` is both at once. A release missed thereby finds its allocation gone, and does nothing.
- `Jobs`: a tick's recovery walks the live index of running jobs; `TickCall` fixes the list when the
  tick is called. What is missed is an orphan being recovered one tick earlier.
- `TripDispatch` treats settlement as one step, `ScooterWallet` refines it (`SettleFare` to
  `Commit`).
- Abstracted data: distances, durations, battery and positions, names and phones, message
  texts, the `balance_before`/`balance_after` columns.
- Cash fares (a ledger row, no wallet), trip ratings and the route column. Location events read
  the route and write it back, so points may be lost (`socket.js:128`); no model sees that.
- One-time codes: a login of `Sessions` starts where its code was accepted. The code's row is
  read and then deleted by phone, so two verifications that run together both succeed
  (`otpService.js:120`). The expiry of tokens is left out: it only removes.
- The bus: subscription changes, handler version pins, the event store. The order in which
  an event's handlers are called is free in the model.
- The platform kernels: handler registries, cron arithmetic, idempotency keys, metrics, health
  and events. `Workflow` models one workflow in one engine: the lease it takes for each call is then
  never contended, and `LeaseLock` is about the lock itself.
- The moments at which promises resolve within one turn of the event loop are not
  distinguished; each continuation is a step of its own.
- The components that section 1 and `PROJECT.json` list as not modelled, for the reasons
  given there.

## 9. The plan

What is left, by what could go wrong at a distance from any single function.

1. **One-time codes**: `sendOTP`, `verifyOTP` and the attempt counter over the statement semantics
   of `SerialStore`, in front of the login of `Sessions`.
2. **TripRoute**: location events, completion and ratings on one trip row.
3. **Two engines**: `Workflow` over `LeaseLock`, where a lease that lapses in the middle of a call
   lets a second engine in.
4. **Request and reply messaging, resilience, rate limits, lifecycle**: timeouts racing replies,
   breaker states, dependency-ordered start and stop.

## Running it

    tlc -workers 2 -config MCTripDispatch.cfg MCTripDispatch
    tlc -workers 2 -config TxQueue.cfg TxQueue
    tlapm TxQueueProofs.tla

`PROJECT.json` pairs each `.cfg` with its module. `VioPaidOnce.cfg` ends with a
counterexample on purpose.
