------------------------------ MODULE Messaging ------------------------------
(***************************************************************************)
(* The event backbone of src/application/shared: a unit of work stages its *)
(* event, saves it in the outbox inside its transaction and relays it      *)
(* after the commit (outbox.js); a background pass publishes what is still *)
(* unrelayed; the in-process bus delivers to every consumer with bounded   *)
(* retries and a dead-letter queue (eventBus.js); each consumer's handler  *)
(* runs behind the inbox, which remembers the events it has processed and  *)
(* joins concurrent duplicates (inbox.js).                                 *)
(*                                                                         *)
(* A unit stages one event, and the event is named by its unit.  A handler *)
(* either has its effect or throws without one.  Stores are the in-memory  *)
(* defaults or durable adapters of the ports; a durable outbox row is part *)
(* of the unit's transaction and is loaded only once that has committed.   *)
(***************************************************************************)
EXTENDS Naturals, FiniteSets

CONSTANTS Units,       \* units of work, which are also their events
          Passes,      \* background relay passes that may overlap
          Consumers,   \* handlers subscribed to the events, each with an inbox scope
          Nobody,      \* no relayer, and no event
          MaxRetries,  \* the bus retries a failed delivery this many times
          MaxFaults,   \* bound: handlers that throw and publishes that fail
          MaxLapses    \* bound: restarts and failed inbox records

ASSUME MessagingAssumption ==
    /\ Units \cap Passes = {} /\ Nobody \notin Units \cup Passes
    /\ MaxRetries \in Nat /\ MaxFaults \in Nat /\ MaxLapses \in Nat

Relayers == Units \cup Passes

VARIABLES durable,    \* whether outbox and inbox stores are durable adapters
          uow,        \* per unit: how far its unit of work has got
          committed,  \* the units whose business transaction has committed
          saved,      \* the outbox rows loadUnrelayed can see
          relayed,    \* the rows marked relayed
          relay,      \* per relayer: where its loop over the events stands
          todo, sent, \* per relayer: the events ahead, and those published
          event,      \* per relayer: the event it is publishing
          delivery,   \* per relayer and consumer: the delivery of the current event
          attempt,    \* per relayer and consumer: the retries of that delivery
          inFlight,   \* per consumer and event: whose delivery runs the handler
          processed,  \* per consumer: its inbox records
          dlq,        \* per consumer: the events in the dead-letter queue
          effects,    \* per consumer and event: how often the handler's effect happened
          faults, lapses

outboxVars == <<committed, saved, relayed>>
loopVars == <<relay, todo, sent, event>>
busVars == <<delivery, attempt, inFlight>>
inboxVars == <<processed, dlq, effects>>
messagingVars == <<durable, uow, outboxVars, loopVars, busVars, inboxVars, faults, lapses>>

-----------------------------------------------------------------------------
(* Types *)

UowPc == {"begun", "persisted", "committed", "over"}
RelayPc == {"idle", "next", "publishing"}
DeliveryPc == {"none", "call", "check", "handle", "mark", "wait", "failed", "done"}

MessagingTypeOK ==
    /\ durable \in BOOLEAN
    /\ uow \in [Units -> UowPc]
    /\ committed \subseteq Units /\ saved \subseteq Units /\ relayed \subseteq Units
    /\ relay \in [Relayers -> RelayPc]
    /\ todo \in [Relayers -> SUBSET Units]
    /\ sent \in [Relayers -> SUBSET Units]
    /\ event \in [Relayers -> Units \cup {Nobody}]
    /\ delivery \in [Relayers -> [Consumers -> DeliveryPc]]
    /\ attempt \in [Relayers -> [Consumers -> 0..MaxRetries]]
    /\ inFlight \in [Consumers -> [Units -> Relayers \cup {Nobody}]]
    /\ processed \in [Consumers -> SUBSET Units]
    /\ dlq \in [Consumers -> SUBSET Units]
    /\ effects \in [Consumers -> [Units -> Nat]]
    /\ faults \in 0..MaxFaults
    /\ lapses \in 0..MaxLapses

NoDelivery == [c \in Consumers |-> "none"]
NoRecords == [c \in Consumers |-> {}]
NoAttempts == [r \in Relayers |-> [c \in Consumers |-> 0]]
NothingInFlight == [c \in Consumers |-> [e \in Units |-> Nobody]]

MessagingInit ==
    /\ durable \in BOOLEAN
    /\ uow = [u \in Units |-> "begun"]
    /\ committed = {} /\ saved = {} /\ relayed = {}
    /\ relay = [r \in Relayers |-> "idle"]
    /\ todo = [r \in Relayers |-> {}] /\ sent = [r \in Relayers |-> {}]
    /\ event = [r \in Relayers |-> Nobody]
    /\ delivery = [r \in Relayers |-> NoDelivery] /\ attempt = NoAttempts
    /\ inFlight = NothingInFlight
    /\ processed = NoRecords /\ dlq = NoRecords
    /\ effects = [c \in Consumers |-> [e \in Units |-> 0]]
    /\ faults = 0 /\ lapses = 0

-----------------------------------------------------------------------------
(* The unit of work: stage and persist inside the transaction, relay after it *)

\* Faulty variant of Persist: a durable row written outside the caller's transaction.
PersistOutsideTx(u) ==
    /\ uow[u] = "begun"
    /\ uow' = [uow EXCEPT ![u] = "persisted"]
    /\ saved' = saved \cup {u}
    /\ UNCHANGED <<durable, committed, relayed, loopVars, busVars, inboxVars, faults, lapses>>

\* A row of the in-memory store is visible at once, a durable one when it commits.
Persist(u) ==
    /\ uow[u] = "begun"
    /\ uow' = [uow EXCEPT ![u] = "persisted"]
    /\ saved' = IF durable THEN saved ELSE saved \cup {u}
    /\ UNCHANGED <<durable, committed, relayed, loopVars, busVars, inboxVars, faults, lapses>>

CommitUnit(u) ==
    /\ uow[u] \in {"begun", "persisted"}
    /\ uow' = [uow EXCEPT ![u] = "committed"]
    /\ committed' = committed \cup {u}
    /\ saved' = IF durable /\ uow[u] = "persisted" THEN saved \cup {u} ELSE saved
    /\ UNCHANGED <<durable, relayed, loopVars, busVars, inboxVars, faults, lapses>>

\* The transaction throws, so relay() is not reached.
AbortUnit(u) ==
    /\ uow[u] \in {"begun", "persisted"}
    /\ uow' = [uow EXCEPT ![u] = "over"]
    /\ UNCHANGED <<durable, outboxVars, loopVars, busVars, inboxVars, faults, lapses>>

\* A relayer starts on a set of events.
Start(r, batch) ==
    /\ relay' = [relay EXCEPT ![r] = "next"]
    /\ todo' = [todo EXCEPT ![r] = batch]
    /\ sent' = [sent EXCEPT ![r] = {}]

RelayUnit(u) ==
    /\ uow[u] = "committed"
    /\ uow' = [uow EXCEPT ![u] = "over"]
    /\ Start(u, {u})
    /\ UNCHANGED <<durable, outboxVars, event, busVars, inboxVars, faults, lapses>>

Unrelayed == saved \ relayed

RelayPending(p) ==
    /\ relay[p] = "idle"
    /\ Unrelayed # {}
    /\ Start(p, Unrelayed)
    /\ UNCHANGED <<durable, uow, outboxVars, event, busVars, inboxVars, faults, lapses>>

-----------------------------------------------------------------------------
(* The relay loop: publish each event, then mark those that were published *)

\* Faulty variant of Publish: a loop that does not go on to the next event.
PublishAgain(r) ==
    /\ relay[r] = "next"
    /\ \E e \in todo[r] : event' = [event EXCEPT ![r] = e]
    /\ relay' = [relay EXCEPT ![r] = "publishing"]
    /\ delivery' = [delivery EXCEPT ![r] = [c \in Consumers |-> "call"]]
    /\ attempt' = [attempt EXCEPT ![r] = [c \in Consumers |-> 0]]
    /\ UNCHANGED <<durable, uow, outboxVars, todo, sent, inFlight, inboxVars, faults, lapses>>

Publish(r) ==
    /\ relay[r] = "next"
    /\ \E e \in todo[r] : /\ event' = [event EXCEPT ![r] = e]
                          /\ todo' = [todo EXCEPT ![r] = @ \ {e}]
    /\ relay' = [relay EXCEPT ![r] = "publishing"]
    /\ delivery' = [delivery EXCEPT ![r] = [c \in Consumers |-> "call"]]
    /\ attempt' = [attempt EXCEPT ![r] = [c \in Consumers |-> 0]]
    /\ UNCHANGED <<durable, uow, outboxVars, sent, inFlight, inboxVars, faults, lapses>>

\* The publisher rejects before it has delivered anything: the event stays unrelayed.
PublishFails(r) ==
    /\ relay[r] = "next"
    /\ faults < MaxFaults
    /\ \E e \in todo[r] : todo' = [todo EXCEPT ![r] = @ \ {e}]
    /\ faults' = faults + 1
    /\ UNCHANGED <<durable, uow, outboxVars, relay, sent, event, busVars, inboxVars, lapses>>

\* Faulty variant of Delivered: publish() that resolves as soon as dispatch is scheduled.
DeliveredWhenScheduled(r) == \A c \in Consumers : delivery[r][c] # "none"

\* publish() resolves when the deliveries to all the consumers have ended.
Delivered(r) == \A c \in Consumers : delivery[r][c] = "done"

PublishEnds(r) ==
    /\ relay[r] = "publishing"
    /\ Delivered(r)
    /\ sent' = [sent EXCEPT ![r] = @ \cup {event[r]}]
    /\ event' = [event EXCEPT ![r] = Nobody]
    /\ relay' = [relay EXCEPT ![r] = "next"]
    /\ delivery' = [delivery EXCEPT ![r] = NoDelivery]
    /\ attempt' = [attempt EXCEPT ![r] = [c \in Consumers |-> 0]]
    /\ UNCHANGED <<durable, uow, outboxVars, todo, inFlight, inboxVars, faults, lapses>>

\* The loop is over, and markRelayed takes effect on the rows there are.
MarkRelayed(r) ==
    /\ relay[r] = "next"
    /\ todo[r] = {}
    /\ relayed' = relayed \cup (sent[r] \cap saved)
    /\ sent' = [sent EXCEPT ![r] = {}]
    /\ relay' = [relay EXCEPT ![r] = "idle"]
    /\ UNCHANGED <<durable, uow, committed, saved, todo, event, busVars, inboxVars,
                   faults, lapses>>

-----------------------------------------------------------------------------
(* One delivery: the bus calls the guarded handler and retries when it rejects *)

\* A duplicate of a delivery in flight joins it instead of running the handler.
Join(r, c) ==
    /\ delivery[r][c] = "call"
    /\ inFlight[c][event[r]] # Nobody
    /\ delivery' = [delivery EXCEPT ![r][c] = "wait"]
    /\ UNCHANGED <<durable, uow, outboxVars, loopVars, attempt, inFlight, inboxVars,
                   faults, lapses>>

\* Faulty variant of Enter: a guard that does not look at the in-flight map.
EnterUnlocked(r, c) ==
    /\ delivery[r][c] = "call"
    /\ delivery' = [delivery EXCEPT ![r][c] = "check"]
    /\ inFlight' = [inFlight EXCEPT ![c][event[r]] = r]
    /\ UNCHANGED <<durable, uow, outboxVars, loopVars, attempt, inboxVars, faults, lapses>>

\* Any other delivery becomes the one in flight, and looks the event up.
Enter(r, c) ==
    /\ delivery[r][c] = "call"
    /\ inFlight[c][event[r]] = Nobody
    /\ delivery' = [delivery EXCEPT ![r][c] = "check"]
    /\ inFlight' = [inFlight EXCEPT ![c][event[r]] = r]
    /\ UNCHANGED <<durable, uow, outboxVars, loopVars, attempt, inboxVars, faults, lapses>>

\* Faulty variant of Joined: those that joined are not told.
JoinedByNobody(r, c) == {r}

\* The relayers whose delivery ends with the promise of r: r and those that joined it.
Joined(r, c) == {r} \cup {q \in Relayers : delivery[q][c] = "wait" /\ event[q] = event[r]}

\* Every joined delivery to c shares the outcome.
Shared(r, c, outcome) ==
    [q \in Relayers |-> [b \in Consumers |->
        IF b = c /\ q \in Joined(r, c) THEN outcome ELSE delivery[q][b]]]

\* The promise settles: its in-flight entry goes, and all who await it go on.
Conclude(r, c, outcome) ==
    /\ inFlight' = [inFlight EXCEPT ![c][event[r]] = Nobody]
    /\ delivery' = Shared(r, c, outcome)

\* The inbox has the event already: no effect.
Skip(r, c) ==
    /\ delivery[r][c] = "check"
    /\ event[r] \in processed[c]
    /\ Conclude(r, c, "done")
    /\ UNCHANGED <<durable, uow, outboxVars, loopVars, attempt, inboxVars, faults, lapses>>

Proceed(r, c) ==
    /\ delivery[r][c] = "check"
    /\ event[r] \notin processed[c]
    /\ delivery' = [delivery EXCEPT ![r][c] = "handle"]
    /\ UNCHANGED <<durable, uow, outboxVars, loopVars, attempt, inFlight, inboxVars,
                   faults, lapses>>

Handle(r, c) ==
    /\ delivery[r][c] = "handle"
    /\ effects' = [effects EXCEPT ![c][event[r]] = @ + 1]
    /\ delivery' = [delivery EXCEPT ![r][c] = "mark"]
    /\ UNCHANGED <<durable, uow, outboxVars, loopVars, attempt, inFlight, processed, dlq,
                   faults, lapses>>

HandlerThrows(r, c) ==
    /\ delivery[r][c] = "handle"
    /\ faults < MaxFaults
    /\ faults' = faults + 1
    /\ Conclude(r, c, "failed")
    /\ UNCHANGED <<durable, uow, outboxVars, loopVars, attempt, inboxVars, lapses>>

\* The bus passes no txRunner, so the record is not part of the handler's transaction.
Mark(r, c) ==
    /\ delivery[r][c] = "mark"
    /\ processed' = [processed EXCEPT ![c] = @ \cup {event[r]}]
    /\ Conclude(r, c, "done")
    /\ UNCHANGED <<durable, uow, outboxVars, loopVars, attempt, dlq, effects, faults, lapses>>

MarkFails(r, c) ==
    /\ delivery[r][c] = "mark"
    /\ durable
    /\ lapses < MaxLapses
    /\ lapses' = lapses + 1
    /\ Conclude(r, c, "failed")
    /\ UNCHANGED <<durable, uow, outboxVars, loopVars, attempt, inboxVars, faults>>

\* Another attempt after the backoff, or the dead-letter queue after the last one.
Retry(r, c) ==
    /\ delivery[r][c] = "failed"
    /\ attempt[r][c] < MaxRetries
    /\ attempt' = [attempt EXCEPT ![r][c] = @ + 1]
    /\ delivery' = [delivery EXCEPT ![r][c] = "call"]
    /\ UNCHANGED <<durable, uow, outboxVars, loopVars, inFlight, inboxVars, faults, lapses>>

Park(r, c) ==
    /\ delivery[r][c] = "failed"
    /\ attempt[r][c] = MaxRetries
    /\ dlq' = [dlq EXCEPT ![c] = @ \cup {event[r]}]
    /\ delivery' = [delivery EXCEPT ![r][c] = "done"]
    /\ UNCHANGED <<durable, uow, outboxVars, loopVars, attempt, inFlight, processed, effects,
                   faults, lapses>>

-----------------------------------------------------------------------------
(* The process dies and starts again: what is in memory is gone *)

Restart ==
    /\ lapses < MaxLapses
    /\ lapses' = lapses + 1
    /\ uow' = [u \in Units |-> IF uow[u] = "begun" THEN "begun" ELSE "over"]
    /\ relay' = [r \in Relayers |-> "idle"]
    /\ todo' = [r \in Relayers |-> {}] /\ sent' = [r \in Relayers |-> {}]
    /\ event' = [r \in Relayers |-> Nobody]
    /\ delivery' = [r \in Relayers |-> NoDelivery] /\ attempt' = NoAttempts
    /\ inFlight' = NothingInFlight
    /\ dlq' = NoRecords
    /\ IF durable
         THEN UNCHANGED <<saved, relayed, processed>>
         ELSE saved' = {} /\ relayed' = {} /\ processed' = NoRecords
    /\ UNCHANGED <<durable, committed, effects, faults>>

-----------------------------------------------------------------------------
UnitStep(u) == Persist(u) \/ CommitUnit(u) \/ AbortUnit(u) \/ RelayUnit(u)
RelayStep(r) == Publish(r) \/ PublishFails(r) \/ PublishEnds(r) \/ MarkRelayed(r)
DeliveryStep(r, c) ==
    \/ Join(r, c) \/ Enter(r, c) \/ Skip(r, c) \/ Proceed(r, c)
    \/ Handle(r, c) \/ HandlerThrows(r, c) \/ Mark(r, c) \/ MarkFails(r, c)
    \/ Retry(r, c) \/ Park(r, c)

\* Every unit is over and nothing is left to relay: the backbone is at rest.
Rest ==
    /\ \A u \in Units : uow[u] = "over"
    /\ \A r \in Relayers : relay[r] = "idle"
    /\ Unrelayed = {}
    /\ UNCHANGED messagingVars

MessagingNext ==
    \/ \E u \in Units : UnitStep(u)
    \/ \E p \in Passes : RelayPending(p)
    \/ \E r \in Relayers : RelayStep(r)
    \/ \E r \in Relayers, c \in Consumers : DeliveryStep(r, c)
    \/ Restart
    \/ Rest

MessagingSpec == MessagingInit /\ [][MessagingNext]_messagingVars

\* The event loop runs every continuation that is due: loops and deliveries go on.
\* Nothing in the repository calls relayPending, so nothing is assumed of the passes.
MessagingFairness ==
    /\ \A r \in Relayers : WF_messagingVars(RelayStep(r))
    /\ \A r \in Relayers, c \in Consumers : WF_messagingVars(DeliveryStep(r, c))

FairSpec == MessagingSpec /\ MessagingFairness

-----------------------------------------------------------------------------
(* Properties *)

\* What is published, or has had an effect.
Announced(e) ==
    \/ \E r \in Relayers : event[r] = e
    \/ \E c \in Consumers : effects[c][e] > 0

\* With durable stores no phantom is announced: an event reaches the bus, or a
\* handler, only if its unit of work has committed, whichever of relay() and
\* relayPending() publishes it and whatever aborts or restarts in between.
NoPhantom == durable => \A e \in Units : Announced(e) => e \in committed

\* Refuted by the code.  The header of outbox.js promises the same of every store.
PublishedOnlyIfCommitted == \A e \in Units : Announced(e) => e \in committed

\* relay() and relayPending() may publish the same event at once and every delivery
\* may be repeated; still a handler has its effect once, and once more at most for
\* each restart or failed inbox record, which can part the effect from its record.
EffectsBounded == \A c \in Consumers, e \in Units : effects[c][e] <= 1 + lapses

\* A duplicate waits only for a delivery that is running its handler: whatever is
\* skipped, thrown, retried or dead-lettered, no entry outlives its delivery in the
\* in-flight map, where it would swallow the event, and no settled promise leaves
\* one that joined it behind.
WaitsForRunner ==
    \A c \in Consumers :
        /\ \A e \in Units : inFlight[c][e] # Nobody =>
              LET r == inFlight[c][e]
              IN  event[r] = e /\ delivery[r][c] \in {"check", "handle", "mark"}
        /\ \A q \in Relayers : delivery[q][c] = "wait" => inFlight[c][event[q]] # Nobody

\* An outbox row is marked relayed only when every consumer has handled its event or
\* holds it in the dead-letter queue: a crash before that leaves it to relayPending.
MarkedIsHandled ==
    [][\A e \in relayed' \ relayed : \A c \in Consumers :
          effects[c][e] > 0 \/ e \in dlq[c]]_messagingVars

\* A relay loop ends: duplicates that wait for each other's outcome, share its
\* rejection and try again never keep a publisher waiting for good.
RelayEnds == \A r \in Relayers : relay[r] # "idle" ~> relay[r] = "idle"
=============================================================================
