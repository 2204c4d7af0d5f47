------------------------------ MODULE Resources ------------------------------
(***************************************************************************)
(* The resource kernel: allocations on one resource of                     *)
(* createResourcesService (application/resources/resourcesService.js).     *)
(* The resource record keeps a sum, the allocations are records of their   *)
(* own, and a call writes the two one after the other: allocate may take   *)
(* room from allocations of lower priority first.  The writing part of     *)
(* every call runs on the resource's promise chain; each awaited write is  *)
(* a step, and the provider may reject any of them.                        *)
(***************************************************************************)
EXTENDS Naturals, Sequences, FiniteSets

CONSTANTS
  Owners,       \* owners of allocations
  NoOwner,      \* the owner of a record that is not in use
  Amounts,      \* amounts asked for
  Priorities,   \* priorities asked with
  Callers,      \* calls in progress at once
  Capacity, Reservation, Quota,
  MaxAllocs,    \* bound: allocations ever made; their numbers are in order of createdAt
  MaxFaults     \* bound: rejected provider calls

ASSUME ResourcesAssumption ==
  /\ NoOwner \notin Owners
  /\ Amounts \subseteq Nat \ {0} /\ Priorities \subseteq Nat
  /\ Capacity \in Nat /\ Reservation \in 0..Capacity /\ Quota \in Nat
  /\ MaxAllocs \in Nat /\ MaxFaults \in Nat

VARIABLES
  alloc,      \* the stored allocations by number
  made,       \* how many were ever made
  allocated,  \* the sum stored in the resource record
  queue,      \* the callers on the resource's chain, the running one first
  call,       \* per caller: what it asked for and where it stands
  sum,        \* resource.allocated in the memory of the running call
  faults,
  drift       \* how far the stored sum may be off: "none", "high" (too much) or "any"

resourcesVars == <<alloc, made, allocated, queue, call, sum, faults, drift>>

Ids == 1..MaxAllocs
\* an allocation without an owner is not made yet, or it is released or preempted; of such a one
\* nothing but the amount is ever read again
Unmade == [owner |-> NoOwner, amount |-> 0, priority |-> 0]
Freed(i) == [Unmade EXCEPT !.amount = alloc[i].amount]
Idle == [op |-> "none", owner |-> NoOwner, amount |-> 0, priority |-> 0, id |-> 0, at |-> "idle"]

Running(c) == queue # <<>> /\ Head(queue) = c
Active == {i \in Ids : alloc[i].owner # NoOwner}
\* the sum of amount[i] for i in S: its units, numbered within their allocations, are counted
SumOf(amount, S) == Cardinality(UNION {{i} \X (1..amount[i]) : i \in S})
Total(S) == SumOf([i \in Ids |-> alloc[i].amount], S)
Allocatable == Capacity - Reservation
Less(a, b) == IF b > a THEN 0 ELSE a - b

Fits(c) == sum + call[c].amount <= Allocatable

OverQuota(c) == Total({i \in Active : alloc[i].owner = call[c].owner}) + call[c].amount > Quota

\* Faulty variant of Victims: an equal priority is no protection.
VictimsAtMost(c) == {i \in Active : alloc[i].priority <= call[c].priority}
Victims(c) == {i \in Active : alloc[i].priority < call[c].priority}
\* lowest priority first, then the oldest
IsFirst(v, V) ==
  v \in V /\ \A w \in V : \/ alloc[v].priority < alloc[w].priority
                          \/ alloc[v].priority = alloc[w].priority /\ v <= w

ResourcesInit ==
  /\ alloc = [i \in Ids |-> Unmade]
  /\ made = 0
  /\ allocated = 0
  /\ queue = <<>>
  /\ call = [c \in Callers |-> Idle]
  /\ sum = 0
  /\ faults = 0
  /\ drift = "none"

\* the caller's promise settles and the next on the chain begins
Leave(c) ==
  /\ queue' = Tail(queue)
  /\ call' = [call EXCEPT ![c] = Idle]
  /\ sum' = 0

GoTo(c, where) == call' = [call EXCEPT ![c].at = where]

(******************************* allocate *********************************)

\* Bound: a request in progress has a number in reserve.
AskAllocate(c) ==
  /\ call[c].op = "none"
  /\ made + Cardinality({d \in Callers : call[d].op = "allocate"}) < MaxAllocs
  /\ \E o \in Owners, a \in Amounts, p \in Priorities :
       call' = [call EXCEPT ![c] =
         [op |-> "allocate", owner |-> o, amount |-> a, priority |-> p, id |-> 0, at |-> "queued"]]
  /\ queue' = Append(queue, c)
  /\ UNCHANGED <<alloc, made, allocated, sum, faults, drift>>

\* The resource and the active allocations are read; nothing off the chain writes them.
Begin(c) ==
  /\ Running(c) /\ call[c].op = "allocate" /\ call[c].at = "queued"
  /\ IF OverQuota(c)
     THEN Leave(c)
     ELSE GoTo(c, "deciding") /\ sum' = allocated /\ UNCHANGED queue
  /\ UNCHANGED <<alloc, made, allocated, faults, drift>>

Deciding(c) == Running(c) /\ call[c].at \in {"deciding", "preempting"}

\* one allocation of lower priority is written as preempted; the resource record waits
Preempt(c) ==
  /\ Deciding(c) /\ ~Fits(c)
  /\ \E v \in Victims(c) :
       /\ IsFirst(v, Victims(c))
       /\ alloc' = [alloc EXCEPT ![v] = Freed(v)]
       /\ sum' = Less(sum, alloc[v].amount)
  /\ GoTo(c, "preempting")
  /\ UNCHANGED <<made, allocated, queue, faults, drift>>

Worse(d) == IF drift = "any" THEN "any" ELSE d

\* nobody left to preempt: the call throws, and what it preempted stays preempted
Conflict(c) ==
  /\ Deciding(c) /\ ~Fits(c) /\ Victims(c) = {}
  /\ drift' = IF call[c].at = "preempting" THEN Worse("high") ELSE drift
  /\ Leave(c)
  /\ UNCHANGED <<alloc, made, allocated, faults>>

\* the new allocation is written
Create(c) ==
  /\ Deciding(c) /\ Fits(c)
  /\ made' = made + 1
  /\ alloc' = [alloc EXCEPT ![made + 1] =
       [owner |-> call[c].owner, amount |-> call[c].amount, priority |-> call[c].priority]]
  /\ sum' = sum + call[c].amount
  /\ GoTo(c, "written")
  /\ UNCHANGED <<allocated, queue, faults, drift>>

\* allocate and release both end by writing the resource record
Store(c) ==
  /\ Running(c) /\ call[c].at = "written"
  /\ allocated' = sum
  /\ Leave(c)
  /\ UNCHANGED <<alloc, made, faults, drift>>

(******************************** release *********************************)

\* the allocation is looked up before the call joins the chain
AskRelease(c) ==
  /\ call[c].op = "none"
  /\ \E i \in Active :
       call' = [call EXCEPT ![c] = [Idle EXCEPT !.op = "release", !.id = i, !.at = "queued"]]
  /\ queue' = Append(queue, c)
  /\ UNCHANGED <<alloc, made, allocated, sum, faults, drift>>

\* Faulty variant of StillActive: the allocation is not looked up again on the chain.
StillActiveUnchecked(c) == TRUE
StillActive(c) == call[c].id \in Active

\* the allocation is written as released, and the resource is read
Drop(c) ==
  /\ Running(c) /\ call[c].op = "release" /\ call[c].at = "queued" /\ StillActive(c)
  /\ alloc' = [alloc EXCEPT ![call[c].id] = Freed(call[c].id)]
  /\ sum' = Less(allocated, alloc[call[c].id].amount)
  /\ GoTo(c, "written")
  /\ UNCHANGED <<made, allocated, queue, faults, drift>>

\* released or preempted while the call waited: it answers false
AlreadyGone(c) ==
  /\ Running(c) /\ call[c].op = "release" /\ call[c].at = "queued" /\ ~StillActive(c)
  /\ Leave(c)
  /\ UNCHANGED <<alloc, made, allocated, faults, drift>>

(********************************* faults *********************************)

\* What a cut call leaves behind: a sum too high, or an allocation the sum does not contain.
Remains(c) ==
  IF call[c].at = "preempting" \/ (call[c].at = "written" /\ call[c].op = "release")
  THEN Worse("high")
  ELSE IF call[c].at = "written" THEN "any" ELSE drift

\* The provider rejects a read or a write and the call throws.
Reject(c) ==
  /\ Running(c)
  /\ faults < MaxFaults
  /\ faults' = faults + 1
  /\ drift' = Remains(c)
  /\ Leave(c)
  /\ UNCHANGED <<alloc, made, allocated>>

ResourcesNext ==
  \E c \in Callers :
    \/ AskAllocate(c) \/ Begin(c) \/ Preempt(c) \/ Conflict(c) \/ Create(c) \/ Store(c)
    \/ AskRelease(c) \/ Drop(c) \/ AlreadyGone(c)
    \/ Reject(c)

ResourcesSpec == ResourcesInit /\ [][ResourcesNext]_resourcesVars

(****************************** PROPERTIES ********************************)

\* The variables keep their shapes, and only the first on the chain has begun.
ResourcesTypeOK ==
  /\ alloc \in [Ids -> [owner : Owners \cup {NoOwner}, amount : Amounts \cup {0},
                        priority : Priorities \cup {0}]]
  /\ made \in 0..MaxAllocs /\ \A i \in Ids : i > made => alloc[i] = Unmade
  /\ allocated \in Nat /\ sum \in Nat
  /\ queue \in Seq(Callers)
  /\ call \in [Callers -> [op : {"none", "allocate", "release"}, owner : Owners \cup {NoOwner},
                           amount : Amounts \cup {0}, priority : Priorities \cup {0},
                           id : Ids \cup {0},
                           at : {"idle", "queued", "deciding", "preempting", "written"}]]
  /\ \A c \in Callers : call[c].at \notin {"idle", "queued"} => Running(c)
  /\ faults \in 0..MaxFaults
  /\ drift \in {"none", "high", "any"}

\* Between two writes of the running call its own sum is the one that counts.
Midway == \E c \in Callers : call[c].at \in {"preempting", "written"}
Booked == IF Midway THEN sum ELSE allocated

\* The accounting verify() checks (resourcesService.js:350), at every step: the sum is exactly what
\* the active allocations add up to, too high at most after a call that preempted and then threw or
\* that was cut after taking an allocation away, and wrong in both directions only after an
\* allocate was cut between its two writes.
AccountingHolds ==
  /\ drift = "none" => Booked = Total(Active)
  /\ drift = "high" => Booked >= Total(Active)

\* Concurrent requests never over-commit (docs/RESOURCES-DEVELOPER-GUIDE.md:45): whatever releases,
\* preemptions and failures happened, the active allocations fit beside the reservation, unless an
\* allocate was cut between its two writes.
NeverOvercommitted == drift # "any" => Total(Active) <= Allocatable

\* No owner's active allocations ever exceed the quota, also when the stored sum has drifted and
\* when several requests of one owner wait on the chain together.
QuotaHolds == \A o \in Owners : Total({i \in Active : alloc[i].owner = o}) <= Quota

\* The invariants above together: whatever requests, releases, preemptions and failures interleave, the
\* books are right, the capacity and the reservation are kept, and so is every quota.
AccountsAreSound == ResourcesTypeOK /\ AccountingHolds /\ NeverOvercommitted /\ QuotaHolds

\* An allocation ends by its own release or for a request of higher priority, and then no active
\* allocation of a still lower priority is spared.
PreemptionIsOrdered ==
  [][ \A i \in Active : alloc'[i].owner = NoOwner =>
        \E c \in Callers :
          /\ Running(c)
          /\ \/ call[c].op = "release" /\ call[c].id = i
             \/ /\ call[c].op = "allocate" /\ alloc[i].priority < call[c].priority
                /\ \A j \in Active : alloc[j].priority >= alloc[i].priority
    ]_resourcesVars

\* Refuted by the code.  verify() reports no drift while every provider call succeeds and no call is running.
VerifyIsClean == faults = 0 /\ queue = <<>> => allocated = Total(Active)

=============================================================================
