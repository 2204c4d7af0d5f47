------------------------------ MODULE LeaseLock ------------------------------
(***************************************************************************)
(* The lock kernel: leases on one lock of createLockService                *)
(* (application/lock/lockService.js) over a store whose reads and writes    *)
(* are awaited.  acquire, tryAcquire, renew and release run one at a time  *)
(* on the service's promise chain; isHeld and owner read beside it and     *)
(* write back the expiry they find.  Each await is a step boundary.        *)
(***************************************************************************)
EXTENDS Naturals, Sequences

CONSTANTS
  Owners,      \* values of ownerId
  NoOwner,     \* the null of a free record
  Callers,     \* concurrent calls of acquire, tryAcquire, renew, release
  Readers,     \* concurrent calls of isHeld and owner
  Leases,      \* values of leaseMs, in ticks
  Wait,        \* waitMs of acquire, in ticks
  MaxClock     \* bound: the clock stops here

ASSUME ConstantsAssumption ==
  /\ NoOwner \notin Owners
  /\ Callers \cap Readers = {}
  /\ Leases \subseteq Nat \ {0}
  /\ Wait \in Nat /\ MaxClock \in Nat

VARIABLES
  clock,       \* the injected clock
  store,       \* the provider's record of the lock
  queue,       \* the callers on _chain, the running one first
  call,        \* per caller: what it asked for and where it stands
  local,       \* the record the running call has loaded, and its "now"
  reader,      \* per reader: the end of the lease it has read; 0 when it reads none
  grant,       \* per owner: the end of the lease it was last told it holds
  overwritten, \* TRUE once a reader has written an old record over a live lease
  misled       \* owners told that a renewal failed which has shortened their lease

vars == <<clock, store, queue, call, local, reader, grant, overwritten, misled>>

\* A record without an owner stands for available, released and expired: all three are free.
Record == [owner : Owners \cup {NoOwner}, until : Nat]
Nothing == [owner |-> NoOwner, until |-> 0]
NotLoaded == [rec |-> Nothing, now |-> 0]
Call == [op : {"none", "tryAcquire", "acquire", "renew", "release"},
         owner : Owners \cup {NoOwner}, deadline : Nat,
         at : {"idle", "queued", "loaded", "settled", "written", "asleep"}]
Idle == [op |-> "none", owner |-> NoOwner, deadline |-> 0, at |-> "idle"]

\* lock.js isLive and settleExpiry
Held(r) == r.owner # NoOwner
Live(r, now) == Held(r) /\ r.until > now
Lapsed(r, now) == Held(r) /\ r.until <= now
Taken(o, now, lease) == [owner |-> o, until |-> now + lease]

Running(c) == queue # <<>> /\ Head(queue) = c

\* the running call has its record: expiry was folded, or there was none to fold
Loaded(c) ==
  /\ Running(c)
  /\ \/ call[c].at = "settled"
     \/ call[c].at = "loaded" /\ ~Lapsed(local.rec, clock)

(***************************** THE SERVICE ********************************)

Init ==
  /\ clock = 0
  /\ store = Nothing
  /\ queue = <<>>
  /\ call = [c \in Callers |-> Idle]
  /\ local = NotLoaded
  /\ reader = [r \in Readers |-> 0]
  /\ grant = [o \in Owners |-> 0]
  /\ overwritten = FALSE
  /\ misled = {}

\* A caller joins the chain; its lease is chosen where it is used.  Bound: a polling acquire ends before the clock does.
Invoke(c) ==
  /\ call[c].op = "none"
  /\ \E op \in {"tryAcquire", "acquire", "renew", "release"}, o \in Owners :
       /\ op = "acquire" => clock + Wait <= MaxClock
       /\ call' = [call EXCEPT ![c] =
            [op |-> op, owner |-> o, deadline |-> IF op = "acquire" THEN clock + Wait ELSE 0,
             at |-> "queued"]]
  /\ queue' = Append(queue, c)
  /\ UNCHANGED <<clock, store, local, reader, grant, overwritten, misled>>

\* _load: the record is read; _attempt has taken its "now" before
Load(c) ==
  /\ Running(c) /\ call[c].at = "queued"
  /\ local' = [rec |-> store, now |-> clock]
  /\ call' = [call EXCEPT ![c].at = "loaded"]
  /\ UNCHANGED <<clock, store, queue, reader, grant, overwritten, misled>>

\* _load: a lapsed lease is folded into the free state and written back
Settle(c) ==
  /\ Running(c) /\ call[c].at = "loaded" /\ Lapsed(local.rec, clock)
  /\ store' = Nothing
  /\ local' = [local EXCEPT !.rec = Nothing]
  /\ call' = [call EXCEPT ![c].at = "settled"]
  /\ UNCHANGED <<clock, queue, reader, grant, overwritten, misled>>

Write(c, r) ==
  /\ store' = r
  /\ local' = [rec |-> r, now |-> 0]
  /\ call' = [call EXCEPT ![c].at = "written"]
  /\ UNCHANGED <<clock, queue, reader, overwritten>>

Acquires(c) == call[c].op \in {"tryAcquire", "acquire"}
HeldByOther(c) == Live(local.rec, local.now) /\ local.rec.owner # call[c].owner

Acquire(c) ==
  /\ Loaded(c) /\ Acquires(c) /\ ~HeldByOther(c)
  /\ \E lease \in Leases : Write(c, Taken(call[c].owner, local.now, lease))
  /\ UNCHANGED <<grant, misled>>

\* renew is for the live owner only
Renews(c) == Live(local.rec, clock) /\ local.rec.owner = call[c].owner

Renew(c) ==
  /\ Loaded(c) /\ call[c].op = "renew" /\ Renews(c)
  /\ \E lease \in Leases : Write(c, Taken(call[c].owner, clock, lease))
  /\ UNCHANGED <<grant, misled>>

\* release frees the owner's own lease; from here on the owner counts on nothing
\* Faulty variant of Releases: whoever asks may release.
ReleasesAny(c) == Held(local.rec)
Releases(c) == local.rec.owner = call[c].owner

Release(c) ==
  /\ Loaded(c) /\ call[c].op = "release" /\ Releases(c)
  /\ Write(c, Nothing)
  /\ grant' = [grant EXCEPT ![call[c].owner] = 0]
  /\ UNCHANGED misled

\* the caller's promise settles and the chain moves on, whatever the outcome
Leave(c, next) ==
  /\ queue' = Tail(queue)
  /\ call' = [call EXCEPT ![c] = next]
  /\ local' = NotLoaded
  /\ UNCHANGED <<clock, store, reader, overwritten>>

\* the write is confirmed: an acquire or a renew returns the lease to its caller
Answer(c) ==
  /\ Running(c) /\ call[c].at = "written"
  /\ Leave(c, Idle)
  /\ IF call[c].op = "release" THEN UNCHANGED <<grant, misled>>
     ELSE /\ grant' = [grant EXCEPT ![call[c].owner] = local.rec.until]
          /\ misled' = misled \ {call[c].owner}

\* Faulty variant of Polls: a waiting acquire forgets its deadline.
PollsForEver(c) == call[c].op = "acquire"
Polls(c) == call[c].op = "acquire" /\ clock < call[c].deadline

\* Faulty variant of Conflict: the model of the other owner's lease is returned for a success.
ConflictReturnsModel(c) ==
  /\ Loaded(c) /\ Acquires(c) /\ HeldByOther(c)
  /\ Leave(c, IF Polls(c) THEN [call[c] EXCEPT !.at = "asleep"] ELSE Idle)
  /\ grant' = [grant EXCEPT ![call[c].owner] = local.rec.until]
  /\ UNCHANGED misled

\* acquire sleeps and polls until its deadline; tryAcquire returns null
Conflict(c) ==
  /\ Loaded(c) /\ Acquires(c) /\ HeldByOther(c)
  /\ Leave(c, IF Polls(c) THEN [call[c] EXCEPT !.at = "asleep"] ELSE Idle)
  /\ UNCHANGED <<grant, misled>>

Wake(c) ==
  /\ call[c].at = "asleep"
  /\ call' = [call EXCEPT ![c].at = "queued"]
  /\ queue' = Append(queue, c)
  /\ UNCHANGED <<clock, store, local, reader, grant, overwritten, misled>>

\* OwnershipError, or release of a lock that is free already
Refuse(c) ==
  /\ Loaded(c)
  /\ \/ call[c].op = "renew" /\ ~Renews(c)
     \/ call[c].op = "release" /\ ~Releases(c)
  /\ Leave(c, Idle)
  /\ UNCHANGED <<grant, misled>>

\* the provider rejects a read or a write, before or after it took effect
Fail(c) ==
  /\ Running(c) /\ call[c].at # "queued"
  /\ Leave(c, Idle)
  /\ misled' = IF call[c].at = "written" /\ local.rec.until < grant[call[c].owner]
               THEN misled \cup {call[c].owner} ELSE misled
  /\ UNCHANGED grant

(************************ isHeld AND owner, BESIDE THE CHAIN **************)

ReadBeside(r) ==
  /\ reader[r] = 0 /\ Held(store)
  /\ reader' = [reader EXCEPT ![r] = store.until]
  /\ UNCHANGED <<clock, store, queue, call, local, grant, overwritten, misled>>

\* the record read before is settled against the clock of now and written back
AnswerBeside(r) ==
  /\ reader[r] # 0
  /\ IF reader[r] <= clock
     THEN /\ store' = Nothing
          /\ overwritten' = (overwritten \/ Live(store, clock))
     ELSE UNCHANGED <<store, overwritten>>
  /\ reader' = [reader EXCEPT ![r] = 0]
  /\ UNCHANGED <<clock, queue, call, local, grant, misled>>

\* time passes; a grant that is over is forgotten
Tick ==
  /\ clock < MaxClock
  /\ clock' = clock + 1
  /\ grant' = [o \in Owners |-> IF grant[o] > clock + 1 THEN grant[o] ELSE 0]
  /\ misled' = {o \in misled : grant[o] > clock + 1}
  /\ UNCHANGED <<store, queue, call, local, reader, overwritten>>

Step(c) ==
  \/ Load(c) \/ Settle(c) \/ Acquire(c) \/ Renew(c) \/ Release(c)
  \/ Answer(c) \/ Conflict(c) \/ Refuse(c)

Next ==
  \/ \E c \in Callers : Invoke(c) \/ Step(c) \/ Wake(c) \/ Fail(c)
  \/ \E r \in Readers : ReadBeside(r) \/ AnswerBeside(r)
  \/ Tick

Spec == Init /\ [][Next]_vars

\* The event loop runs what is ready, timers fire, and time passes.
Fairness ==
  /\ \A c \in Callers : WF_vars(Step(c)) /\ WF_vars(Wake(c))
  /\ WF_vars(Tick)

LiveSpec == Spec /\ Fairness

(****************************** PROPERTIES ********************************)

\* A call waits or runs on the chain exactly once until it is answered or sleeps, and none but the
\* first has begun: what serialises the read, check and write of every call.
ChainOK ==
  /\ \A c \in Callers : call[c].at \notin {"idle", "asleep"} <=> \E i \in 1..Len(queue) : queue[i] = c
  /\ \A i, j \in 1..Len(queue) : queue[i] = queue[j] => i = j
  /\ \A i \in 2..Len(queue) : call[queue[i]].at = "queued"

\* The variables keep their shapes and the chain its discipline.
TypeOK ==
  /\ clock \in 0..MaxClock
  /\ store \in Record
  /\ queue \in Seq(Callers)
  /\ call \in [Callers -> Call]
  /\ local \in [rec : Record, now : Nat]
  /\ reader \in [Readers -> Nat]
  /\ grant \in [Owners -> Nat]
  /\ overwritten \in BOOLEAN
  /\ misled \subseteq Owners
  /\ ChainOK

\* What an owner counts on: a lease it was told of, not yet over and not given back.
Holds(o) == grant[o] > clock

\* Mutual exclusion as the callers see it: two owners never count on the lock at once, whatever
\* leases, expiries, failures of the store and polling acquires interleave (lockService.js:12-14),
\* unless an isHeld or owner has written an old record back over a live lease.  An owner whose renewal
\* was rejected may count on its earlier lease, except where the lost renewal was the shorter lease.
MutualExclusion ==
  \A o1, o2 \in Owners \ misled : Holds(o1) /\ Holds(o2) => o1 = o2 \/ overwritten

\* A lease the store shows as live is changed by a call of its owner, or by such a late reader: never
\* by another owner's acquire, renew or release, by a failed call, or by an expiry found too early.
LiveLeaseIsItsOwners ==
  [][ Live(store, clock) /\ store' # store
      => overwritten' \/ \E c \in Callers : Running(c) /\ call[c].owner = store.owner
    ]_vars

\* Every call is answered, also behind calls that fail and while another owner renews for ever.
EveryCallSettles == \A c \in Callers : []<>(call[c].op = "none")

=============================================================================
