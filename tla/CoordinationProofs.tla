------------------------- MODULE CoordinationProofs -------------------------
(***************************************************************************)
(* Who may act, and what is announced of it: two specifications that share *)
(* nothing, hence every theorem is of one of them.  LeaseLock, for any     *)
(* number of owners, callers and readers, any leases and any clock: two    *)
(* owners never count on the lock at once, and a live lease is changed by  *)
(* its owner's calls only.  Messaging, for any number of units of work,    *)
(* passes, consumers and faults: no phantom events, bounded effects, and   *)
(* no row marked relayed too early.                                        *)
(***************************************************************************)
EXTENDS LeaseLock, Messaging, SequenceTheorems, TLAPS

(***************************************************************************)
(*                              THE LEASE LOCK                             *)
(***************************************************************************)

\* An idle call is nobody's.
Sane(e) ==
  IF e.op = "none" THEN e.at = "idle" ELSE e.owner \in Owners /\ e.at # "idle"

\* The shapes without the discipline of the chain, and what an idle call is.
Shapes ==
  /\ clock \in 0..MaxClock
  /\ store \in Record
  /\ queue \in Seq(Callers)
  /\ call \in [Callers -> Call]
  /\ local \in [rec : Record, now : Nat]
  /\ reader \in [Readers -> Nat]
  /\ grant \in [Owners -> Nat]
  /\ overwritten \in BOOLEAN
  /\ misled \subseteq Owners
  /\ \A c \in Callers : Sane(call[c])

\* What the running call has read is what the store shows, as long as that is alive; and what
\* it has read or written is in the store, as long as nobody has overwritten a live lease.
LocalInv ==
  \A c \in Callers : Running(c) /\ call[c].at \in {"loaded", "settled", "written"} =>
    /\ local.now <= clock
    /\ store = local.rec \/ ~Live(store, clock)
    /\ overwritten \/ store = local.rec \/ ~Live(local.rec, clock)
    /\ call[c].at = "settled" => local.rec = Nothing
    /\ call[c].at = "written" =>
         IF call[c].op = "release" THEN local.rec = Nothing /\ grant[call[c].owner] = 0
         ELSE local.rec.owner = call[c].owner

\* Who counts on a lease has it in the store for that long at least, or is
\* about to be told of the lease it has just written instead.
GrantInv ==
  overwritten \/ \A o \in Owners \ misled : Holds(o) =>
    \/ store.owner = o /\ store.until >= grant[o]
    \/ \E c \in Callers : /\ Running(c) /\ call[c].at = "written"
                          /\ call[c].op # "release" /\ call[c].owner = o

\* The call at the head of the chain has not begun.
Fresh == \A d \in Callers : Running(d) => call[d].at = "queued"

IInv == Shapes /\ ChainOK /\ LocalInv /\ GrantInv

----------------------------------------------------------------------------
(****************************** THE CHAIN *********************************)

\* Only one call runs.
LEMMA OneRuns ==
  ASSUME NEW c \in Callers, NEW d \in Callers, Running(c), Running(d)
  PROVE  c = d
  BY DEF Running

\* A call that runs is the first of the queue.
LEMMA RunnerIsFirst ==
  ASSUME Shapes, NEW c \in Callers, Running(c)
  PROVE  queue # <<>> /\ Len(queue) \in Nat /\ 1 \in 1..Len(queue) /\ queue[1] = c
<1>1. queue \in Seq(Callers) /\ queue # <<>> /\ Head(queue) = c
  BY DEF Shapes, Running
<1> QED
  BY <1>1, SMTT(30)

\* Joining the chain.
LEMMA Joins ==
  ASSUME Shapes, ChainOK, NEW c \in Callers, NEW e, e.at = "queued",
         call[c].at \in {"idle", "asleep"},
         queue' = Append(queue, c), call' = [call EXCEPT ![c] = e]
  PROVE  /\ ChainOK'
         /\ \A d \in Callers :
              Running(d)' => (call'[d].at = "queued" \/ (Running(d) /\ call'[d] = call[d]))
         /\ \A d \in Callers : Running(d) => Running(d)' /\ call'[d] = call[d]
<1>1. /\ Len(queue') = Len(queue) + 1 /\ Len(queue) \in Nat
      /\ \A i \in 1..Len(queue) : queue'[i] = queue[i]
      /\ queue'[Len(queue) + 1] = c
      /\ queue' \in Seq(Callers) /\ queue' # <<>>
  <2>1. queue \in Seq(Callers)
    BY DEF Shapes
  <2>2. Len(queue) \in Nat
    BY <2>1
  <2>3. queue' \in Seq(Callers) /\ queue' # <<>> /\ Len(queue') = Len(queue) + 1
    BY <2>1, AppendProperties
  <2>4. \A i \in 1..Len(queue) : queue'[i] = queue[i]
    BY <2>1, AppendProperties
  <2>5. queue'[Len(queue) + 1] = c
    BY <2>1, AppendProperties
  <2> QED
    BY <2>2, <2>3, <2>4, <2>5
<1>2. \A i \in 1..Len(queue) : queue[i] # c /\ queue[i] \in Callers
  <2>1. \A i \in 1..Len(queue) : queue[i] \in Callers
    BY DEF Shapes
  <2> QED
    BY <2>1 DEF ChainOK
<1>3. call'[c] = e /\ \A d \in Callers : d # c => call'[d] = call[d]
  BY DEF Shapes
<1>4. (\A d \in Callers : call[d].at \notin {"idle", "asleep"} <=> \E i \in 1..Len(queue) : queue[i] = d)'
  <2> SUFFICES ASSUME NEW d \in Callers
               PROVE  call'[d].at \notin {"idle", "asleep"} <=> \E i \in 1..Len(queue') : queue'[i] = d
    OBVIOUS
  <2>1. CASE d = c
    BY <1>1, <1>3, <2>1, SMTT(30)
  <2>2. CASE d # c
    <3>1. (\E i \in 1..Len(queue') : queue'[i] = d) <=> (\E i \in 1..Len(queue) : queue[i] = d)
      BY <1>1, <2>2, SMTT(30)
    <3> QED
      BY <3>1, <1>3, <2>2 DEF ChainOK
  <2> QED
    BY <2>1, <2>2
<1>5. (\A i, j \in 1..Len(queue) : queue[i] = queue[j] => i = j)'
  BY <1>1, <1>2, SMTT(30) DEF ChainOK
<1>6. (\A i \in 2..Len(queue) : call[queue[i]].at = "queued")'
  BY <1>1, <1>2, <1>3, SMTT(30) DEF ChainOK
<1>7. queue # <<>> => Head(queue') = Head(queue)
  BY <1>1, SMTT(30) DEF Shapes
<1>8. queue = <<>> => Head(queue') = c
  BY <1>1, SMTT(30) DEF Shapes
<1>9. queue # <<>> => Head(queue) # c
  BY <1>2, SMTT(30) DEF Shapes
<1> QED
  BY <1>1, <1>3, <1>4, <1>5, <1>6, <1>7, <1>8, <1>9 DEF ChainOK, Running

\* The running call leaves the chain, and the next has not begun.
LEMMA Leaves ==
  ASSUME Shapes, ChainOK, NEW c \in Callers, Running(c),
         NEW e \in Call, e.at \in {"idle", "asleep"},
         queue' = Tail(queue), call' = [call EXCEPT ![c] = e]
  PROVE  /\ ChainOK'
         /\ Fresh'
<1>1. /\ Len(queue') = Len(queue) - 1 /\ Len(queue) \in Nat
      /\ \A i \in 1..Len(queue') : queue'[i] = queue[i + 1]
      /\ queue' \in Seq(Callers)
  BY HeadTailProperties DEF Shapes, Running
<1>2. 1 \in 1..Len(queue) /\ queue[1] = c
  BY RunnerIsFirst
<1>3. \A i \in 1..Len(queue) : queue[i] \in Callers
  BY DEF Shapes
<1>4. \A i \in 2..Len(queue) : queue[i] # c
  BY <1>1, <1>2, SMTT(30) DEF ChainOK
<1>5. call'[c] = e /\ \A d \in Callers : d # c => call'[d] = call[d]
  BY DEF Shapes
<1>6. (\A d \in Callers : call[d].at \notin {"idle", "asleep"} <=> \E i \in 1..Len(queue) : queue[i] = d)'
  <2> SUFFICES ASSUME NEW d \in Callers
               PROVE  call'[d].at \notin {"idle", "asleep"} <=> \E i \in 1..Len(queue') : queue'[i] = d
    OBVIOUS
  <2>1. CASE d = c
    BY <1>1, <1>4, <1>5, <2>1, SMTT(30)
  <2>2. CASE d # c
    <3>1. ASSUME NEW i \in 1..Len(queue), queue[i] = d
          PROVE  i - 1 \in 1..Len(queue') /\ queue'[i - 1] = d
      BY <1>1, <1>2, <2>2, <3>1, SMTT(30)
    <3>2. ASSUME NEW i \in 1..Len(queue'), queue'[i] = d
          PROVE  i + 1 \in 1..Len(queue) /\ queue[i + 1] = d
      BY <1>1, <3>2, SMTT(30)
    <3>3. (\E i \in 1..Len(queue') : queue'[i] = d) <=> (\E i \in 1..Len(queue) : queue[i] = d)
      BY <3>1, <3>2
    <3> QED
      BY <3>3, <1>5, <2>2 DEF ChainOK
  <2> QED
    BY <2>1, <2>2
<1>7. (\A i, j \in 1..Len(queue) : queue[i] = queue[j] => i = j)'
  BY <1>1, SMTT(30) DEF ChainOK
<1>8. \A i \in 1..Len(queue') : queue'[i] \in Callers /\ call'[queue'[i]].at = "queued"
  BY <1>1, <1>3, <1>4, <1>5, SMTT(30) DEF ChainOK
<1>9. queue' # <<>> => Head(queue') = queue'[1] /\ 1 \in 1..Len(queue')
  BY <1>1, SMTT(30)
<1> QED
  BY <1>1, <1>6, <1>7, <1>8, <1>9 DEF ChainOK, Running, Fresh

\* The running call goes on and the chain is as it was.
LEMMA GoesOn ==
  ASSUME Shapes, ChainOK, NEW c \in Callers, Running(c), NEW e, e.at \notin {"idle", "asleep"},
         queue' = queue, call' = [call EXCEPT ![c] = e]
  PROVE  ChainOK' /\ Running(c)' /\ call'[c] = e
<1>2. 1 \in 1..Len(queue) /\ queue[1] = c
  BY RunnerIsFirst
<1>3. \A i \in 1..Len(queue) : queue[i] \in Callers
  BY DEF Shapes
<1>4. \A i \in 2..Len(queue) : queue[i] # c /\ i \in 1..Len(queue)
  BY <1>2, SMTT(30) DEF ChainOK, Shapes
<1>5. call'[c] = e /\ \A d \in Callers : d # c => call'[d] = call[d]
  BY DEF Shapes
<1>6. (\A d \in Callers : call[d].at \notin {"idle", "asleep"} <=> \E i \in 1..Len(queue) : queue[i] = d)'
  BY <1>2, <1>5 DEF ChainOK
<1>7. (\A i \in 2..Len(queue) : call[queue[i]].at = "queued")'
  BY <1>3, <1>4, <1>5 DEF ChainOK
<1> QED
  BY <1>5, <1>6, <1>7 DEF ChainOK, Running

----------------------------------------------------------------------------
(***************************** SHAPES AND CHAIN ***************************)

LEMMA ShapesInit == Init => Shapes /\ ChainOK
<1>1. Nothing \in Record /\ Idle \in Call /\ Sane(Idle) /\ Idle.at = "idle"
  BY DEF Nothing, Idle, Record, Call, Sane
<1>2. NotLoaded \in [rec : Record, now : Nat]
  BY <1>1 DEF NotLoaded
<1>3. Init => Shapes
  <2> SUFFICES ASSUME Init PROVE Shapes
    OBVIOUS
  <2>1. clock \in 0..MaxClock
    BY ConstantsAssumption, SMTT(30) DEF Init
  <2>2. store \in Record /\ local \in [rec : Record, now : Nat]
    BY <1>1, <1>2 DEF Init
  <2>3. queue \in Seq(Callers)
    BY DEF Init
  <2>4. call \in [Callers -> Call] /\ \A c \in Callers : Sane(call[c])
    BY <1>1 DEF Init
  <2>5. reader \in [Readers -> Nat] /\ grant \in [Owners -> Nat]
    BY DEF Init
  <2> QED
    BY <2>1, <2>2, <2>3, <2>4, <2>5 DEF Init, Shapes
<1>4. Init => ChainOK
  BY <1>1, SMTT(30) DEF Init, ChainOK
<1> QED
  BY <1>3, <1>4

\* A call that is written back in another stage is still a call.
LEMMA CallUpdate ==
  ASSUME Shapes, NEW c \in Callers, NEW e \in Call, Sane(e), call' = [call EXCEPT ![c] = e]
  PROVE  call' \in [Callers -> Call] /\ (\A d \in Callers : Sane(call'[d]))
BY DEF Shapes

LEMMA StageIsCall ==
  ASSUME NEW e \in Call, Sane(e), e.op # "none",
         NEW at \in {"queued", "loaded", "settled", "written", "asleep"}
  PROVE  LET f == [e EXCEPT !.at = at]
         IN  f \in Call /\ Sane(f) /\ f.at = at /\ f.op = e.op /\ f.owner = e.owner
BY DEF Call, Sane

\* What the running call owns.
LEMMA RunningCall ==
  ASSUME Shapes, ChainOK, NEW c \in Callers, Running(c)
  PROVE  /\ call[c].at \notin {"idle", "asleep"}
         /\ call[c].op # "none" /\ call[c].owner \in Owners /\ call[c].owner # NoOwner
<1>1. 1 \in 1..Len(queue) /\ queue[1] = c
  BY RunnerIsFirst
<1>2. call[c].at \notin {"idle", "asleep"}
  BY <1>1 DEF ChainOK
<1> QED
  BY <1>2, ConstantsAssumption DEF Shapes, Sane

LEMMA LeaveShapes ==
  ASSUME Shapes, ChainOK, NEW c \in Callers, Running(c), NEW e, Leave(c, e),
         e = Idle \/ e = [call[c] EXCEPT !.at = "asleep"],
         grant' \in [Owners -> Nat], misled' \subseteq Owners
  PROVE  Shapes' /\ ChainOK' /\ Fresh'
<1>1. e \in Call /\ Sane(e) /\ e.at \in {"idle", "asleep"}
  <2>1. Idle \in Call /\ Sane(Idle) /\ Idle.at = "idle"
    BY DEF Idle, Call, Sane
  <2>2. call[c] \in Call /\ Sane(call[c]) /\ call[c].op # "none"
    BY RunningCall DEF Shapes
  <2>3. CASE e = [call[c] EXCEPT !.at = "asleep"]
    BY <2>2, <2>3, StageIsCall
  <2> QED
    BY <2>1, <2>3
<1>2. ChainOK' /\ Fresh'
  <2>1. queue' = Tail(queue) /\ call' = [call EXCEPT ![c] = e]
    BY DEF Leave
  <2> HIDE DEF Leave
  <2>2. e \in Call /\ e.at \in {"idle", "asleep"}
    BY <1>1
  <2> QED
    BY <2>1, <2>2, Leaves, Zenon
<1>3. queue' \in Seq(Callers)
  BY HeadTailProperties DEF Leave, Shapes, Running
<1>4. call' \in [Callers -> Call] /\ \A d \in Callers : Sane(call'[d])
  BY <1>1, CallUpdate DEF Leave
<1>5. NotLoaded \in [rec : Record, now : Nat]
  BY DEF NotLoaded, Nothing, Record
<1>6. Shapes'
  BY <1>3, <1>4, <1>5 DEF Shapes, Leave
<1> QED
  BY <1>2, <1>6

LEMMA WriteShapes ==
  ASSUME Shapes, ChainOK, NEW c \in Callers, Running(c), NEW r \in Record, Write(c, r),
         grant' \in [Owners -> Nat], misled' = misled
  PROVE  Shapes' /\ ChainOK' /\ Running(c)' /\ call'[c] = [call[c] EXCEPT !.at = "written"]
<1> DEFINE e == [call[c] EXCEPT !.at = "written"]
<1>1. call[c] \in Call /\ Sane(call[c]) /\ call[c].op # "none"
  BY RunningCall DEF Shapes
<1>2. e \in Call /\ Sane(e) /\ e.at = "written"
  BY <1>1, StageIsCall
<1>3. queue' = queue /\ call' = [call EXCEPT ![c] = e]
  BY DEF Write
<1>5. call' \in [Callers -> Call] /\ \A d \in Callers : Sane(call'[d])
  BY <1>2, <1>3, CallUpdate
<1>6. local' \in [rec : Record, now : Nat]
  BY DEF Write
<1>7. Shapes'
  BY <1>3, <1>5, <1>6 DEF Shapes, Write
<1>4. ChainOK' /\ Running(c)' /\ call'[c] = [call[c] EXCEPT !.at = "written"]
  BY <1>2, <1>3, GoesOn
<1> QED
  BY <1>4, <1>7

LEMMA TakenIsRecord ==
  ASSUME NEW o \in Owners, NEW now \in Nat, NEW lease \in Leases
  PROVE  Taken(o, now, lease) \in Record
BY ConstantsAssumption, SMTT(30) DEF Taken, Record

LEMMA ShapesNext ==
  ASSUME Shapes, ChainOK, [Next]_vars
  PROVE  Shapes' /\ ChainOK'
<1>1. ASSUME NEW c \in Callers, Invoke(c) PROVE Shapes' /\ ChainOK'
  <2>1. PICK op \in {"tryAcquire", "acquire", "renew", "release"}, o \in Owners :
          call' = [call EXCEPT ![c] =
            [op |-> op, owner |-> o, deadline |-> IF op = "acquire" THEN clock + Wait ELSE 0,
             at |-> "queued"]]
    BY <1>1 DEF Invoke
  <2>2. queue' \in Seq(Callers)
    BY <1>1, AppendProperties DEF Invoke, Shapes
  <2>3. clock + Wait \in Nat
    BY ConstantsAssumption, SMTT(30) DEF Shapes
  <2> DEFINE e == [op |-> op, owner |-> o,
                   deadline |-> IF op = "acquire" THEN clock + Wait ELSE 0, at |-> "queued"]
  <2>6. e \in Call /\ Sane(e) /\ e.at = "queued" /\ call' = [call EXCEPT ![c] = e]
    BY <2>1, <2>3 DEF Call, Sane
  <2>7. call' \in [Callers -> Call] /\ \A d \in Callers : Sane(call'[d])
    BY <2>6, CallUpdate
  <2>4. Shapes'
    BY <1>1, <2>2, <2>7 DEF Invoke, Shapes
  <2>8. call[c].at = "idle"
    BY <1>1 DEF Invoke, Shapes, Sane
  <2>5. ChainOK'
    BY <1>1, <2>6, <2>8, Joins DEF Invoke
  <2> QED
    BY <2>4, <2>5
<1>2. ASSUME NEW c \in Callers, Load(c) PROVE Shapes' /\ ChainOK'
  <2> DEFINE e == [call[c] EXCEPT !.at = "loaded"]
  <2>1. Running(c) /\ queue' = queue /\ call' = [call EXCEPT ![c] = e]
    BY <1>2 DEF Load
  <2>2. call[c] \in Call /\ Sane(call[c]) /\ call[c].op # "none"
    BY <2>1, RunningCall DEF Shapes
  <2>3. e \in Call /\ Sane(e) /\ e.at = "loaded"
    BY <2>2, StageIsCall
  <2>4. call' \in [Callers -> Call] /\ \A d \in Callers : Sane(call'[d])
    BY <2>1, <2>3, CallUpdate
  <2>5. local' \in [rec : Record, now : Nat] /\ store' \in Record
    BY <1>2, ConstantsAssumption, SMTT(30) DEF Load, Shapes, Nothing, Record
  <2>6. Shapes'
    BY <1>2, <2>1, <2>4, <2>5 DEF Load, Shapes
  <2>7. ChainOK'
    BY <2>1, <2>3, GoesOn
  <2> QED
    BY <2>6, <2>7
<1>3. ASSUME NEW c \in Callers, Settle(c) PROVE Shapes' /\ ChainOK'
  <2> DEFINE e == [call[c] EXCEPT !.at = "settled"]
  <2>1. Running(c) /\ queue' = queue /\ call' = [call EXCEPT ![c] = e]
    BY <1>3 DEF Settle
  <2>2. call[c] \in Call /\ Sane(call[c]) /\ call[c].op # "none"
    BY <2>1, RunningCall DEF Shapes
  <2>3. e \in Call /\ Sane(e) /\ e.at = "settled"
    BY <2>2, StageIsCall
  <2>4. call' \in [Callers -> Call] /\ \A d \in Callers : Sane(call'[d])
    BY <2>1, <2>3, CallUpdate
  <2>5. local' \in [rec : Record, now : Nat] /\ store' \in Record
    BY <1>3, ConstantsAssumption, SMTT(30) DEF Settle, Shapes, Nothing, Record
  <2>6. Shapes'
    BY <1>3, <2>1, <2>4, <2>5 DEF Settle, Shapes
  <2>7. ChainOK'
    BY <2>1, <2>3, GoesOn
  <2> QED
    BY <2>6, <2>7
<1>4. ASSUME NEW c \in Callers, Acquire(c) PROVE Shapes' /\ ChainOK'
  BY <1>4, WriteShapes, TakenIsRecord, RunningCall DEF Acquire, Loaded, Shapes
<1>5. ASSUME NEW c \in Callers, Renew(c) PROVE Shapes' /\ ChainOK'
  <2>1. clock \in Nat
    BY SMTT(30), ConstantsAssumption DEF Shapes
  <2> QED
    BY <1>5, <2>1, WriteShapes, TakenIsRecord, RunningCall DEF Renew, Loaded, Shapes
<1>6. ASSUME NEW c \in Callers, Release(c) PROVE Shapes' /\ ChainOK'
  <2>1. Nothing \in Record
    BY DEF Nothing, Record
  <2>2. grant' \in [Owners -> Nat]
    BY <1>6 DEF Release, Shapes
  <2> QED
    BY <1>6, <2>1, <2>2, WriteShapes DEF Release, Loaded
<1>7. ASSUME NEW c \in Callers, Answer(c) PROVE Shapes' /\ ChainOK'
  <2>1. grant' \in [Owners -> Nat] /\ misled' \subseteq Owners
    BY <1>7 DEF Answer, Shapes, Record
  <2> QED
    BY <1>7, <2>1, LeaveShapes DEF Answer
<1>8. ASSUME NEW c \in Callers, Conflict(c) PROVE Shapes' /\ ChainOK'
  BY <1>8, LeaveShapes DEF Conflict, Loaded, Shapes
<1>9. ASSUME NEW c \in Callers, Refuse(c) PROVE Shapes' /\ ChainOK'
  BY <1>9, LeaveShapes DEF Refuse, Loaded, Shapes
<1>10. ASSUME NEW c \in Callers, Wake(c) PROVE Shapes' /\ ChainOK'
  <2>1. queue' \in Seq(Callers)
    BY <1>10, AppendProperties DEF Wake, Shapes
  <2> DEFINE e == [call[c] EXCEPT !.at = "queued"]
  <2>4. call[c] \in Call /\ Sane(call[c]) /\ call[c].op # "none"
    BY <1>10 DEF Wake, Shapes, Sane
  <2>5. e \in Call /\ Sane(e) /\ e.at = "queued"
    BY <2>4, StageIsCall
  <2>6. call' = [call EXCEPT ![c] = e]
    BY <1>10 DEF Wake
  <2>7. call' \in [Callers -> Call] /\ \A d \in Callers : Sane(call'[d])
    BY <2>5, <2>6, CallUpdate
  <2>2. Shapes'
    BY <1>10, <2>1, <2>7 DEF Wake, Shapes
  <2>3. ChainOK'
    BY <1>10, <2>5, <2>6, Joins DEF Wake
  <2> QED
    BY <2>2, <2>3
<1>11. ASSUME NEW c \in Callers, Fail(c) PROVE Shapes' /\ ChainOK'
  <2>1. misled' \subseteq Owners
    BY <1>11, RunningCall DEF Fail, Shapes
  <2> QED
    BY <1>11, <2>1, LeaveShapes DEF Fail, Shapes
<1>12. ASSUME NEW r \in Readers, ReadBeside(r) PROVE Shapes' /\ ChainOK'
  <2>1. Shapes'
    BY <1>12, SMTT(30) DEF ReadBeside, Shapes, Record
  <2> QED
    BY <1>12, <2>1 DEF ReadBeside, ChainOK
<1>13. ASSUME NEW r \in Readers, AnswerBeside(r) PROVE Shapes' /\ ChainOK'
  <2>1. Shapes'
    <3>1. Nothing \in Record
      BY DEF Nothing, Record
    <3>2. store' \in Record /\ overwritten' \in BOOLEAN
      BY <1>13, <3>1 DEF AnswerBeside, Shapes, Live, Held
    <3>3. reader' \in [Readers -> Nat]
      BY <1>13 DEF AnswerBeside, Shapes
    <3> QED
      BY <1>13, <3>2, <3>3 DEF AnswerBeside, Shapes
  <2> QED
    BY <1>13, <2>1 DEF AnswerBeside, ChainOK
<1>14. CASE Tick
  <2>1. clock' \in 0..MaxClock
    BY <1>14, ConstantsAssumption, SMTT(30) DEF Tick, Shapes
  <2>2. grant' \in [Owners -> Nat] /\ misled' \subseteq Owners
    BY <1>14 DEF Tick, Shapes
  <2>3. Shapes'
    BY <1>14, <2>1, <2>2 DEF Tick, Shapes
  <2> QED
    BY <1>14, <2>3 DEF Tick, ChainOK
<1>15. CASE UNCHANGED vars
  BY <1>15 DEF vars, Shapes, ChainOK
<1> QED
  BY <1>1, <1>2, <1>3, <1>4, <1>5, <1>6, <1>7, <1>8, <1>9, <1>10, <1>11, <1>12, <1>13, <1>14, <1>15
  DEF Next, Step

----------------------------------------------------------------------------
(***************************** THE LEASES *********************************)

\* The steps of the running call, and of the others, as far as the leases are concerned.
Joining(c) ==
  /\ \A d \in Callers : Running(d)' => (call'[d].at = "queued" \/ (Running(d) /\ call'[d] = call[d]))
  /\ \A d \in Callers : Running(d) => Running(d)' /\ call'[d] = call[d]
  /\ UNCHANGED <<clock, store, local, grant, overwritten, misled>>

LEMMA InvokeJoins ==
  ASSUME Shapes, ChainOK, NEW c \in Callers, Invoke(c)
  PROVE  Joining(c)
<1>1. PICK op \in {"tryAcquire", "acquire", "renew", "release"}, o \in Owners :
        call' = [call EXCEPT ![c] =
          [op |-> op, owner |-> o, deadline |-> IF op = "acquire" THEN clock + Wait ELSE 0,
           at |-> "queued"]]
  BY DEF Invoke
<1>2. call[c].at = "idle"
  BY DEF Invoke, Shapes, Sane
<1> QED
  BY <1>1, <1>2, Joins DEF Invoke, Joining

LEMMA WakeJoins ==
  ASSUME Shapes, ChainOK, NEW c \in Callers, Wake(c)
  PROVE  Joining(c)
<1>1. [call[c] EXCEPT !.at = "queued"].at = "queued"
  BY DEF Shapes, Call
<1> QED
  BY <1>1, Joins DEF Wake, Joining

LEMMA LocalNext ==
  ASSUME IInv, [Next]_vars
  PROVE  LocalInv'
<1> USE DEF IInv
<1>0. clock \in Nat /\ clock' \in Nat /\ local.now \in Nat
  BY ShapesNext, ConstantsAssumption, SMTT(30) DEF Shapes
<1>1. ASSUME NEW c \in Callers, Joining(c) PROVE LocalInv'
  BY <1>1, SMTT(30) DEF Joining, LocalInv, Live, Held
<1>2. ASSUME NEW c \in Callers, Load(c) PROVE LocalInv'
  <2>1. \A d \in Callers : Running(d)' => d = c
    BY <1>2 DEF Load, Running
  <2>2. call'[c].at = "loaded"
    BY <1>2 DEF Load, Shapes, Call
  <2>3. local'.now = clock' /\ local'.rec = store'
    BY <1>2 DEF Load
  <2> QED
    BY <1>0, <2>1, <2>2, <2>3, SMTT(30) DEF LocalInv
<1>3. ASSUME NEW c \in Callers, Settle(c) PROVE LocalInv'
  <2>1. \A d \in Callers : Running(d)' => d = c
    BY <1>3 DEF Settle, Running
  <2>2. call'[c].at = "settled"
    BY <1>3 DEF Settle, Shapes, Call
  <2>3. local'.now = local.now /\ local'.rec = Nothing /\ store' = Nothing /\ clock' = clock
    BY <1>3 DEF Settle, Shapes
  <2>4. local.now <= clock
    BY <1>3 DEF Settle, LocalInv
  <2> QED
    BY <1>0, <2>1, <2>2, <2>3, <2>4, SMTT(30) DEF LocalInv
<1>4. ASSUME NEW c \in Callers, NEW r \in Record, Running(c), Write(c, r),
             IF call[c].op = "release" THEN r = Nothing /\ grant'[call[c].owner] = 0
             ELSE r.owner = call[c].owner
      PROVE LocalInv'
  <2>1. \A d \in Callers : Running(d)' => d = c
    BY <1>4 DEF Write, Running
  <2>2. call'[c].at = "written" /\ call'[c].op = call[c].op /\ call'[c].owner = call[c].owner
    BY <1>4 DEF Write, Shapes, Call
  <2>3. local'.now = 0 /\ local'.rec = r /\ store' = r
    BY <1>4 DEF Write
  <2> QED
    BY <1>0, <1>4, <2>1, <2>2, <2>3, SMTT(30) DEF LocalInv
<1>5. ASSUME NEW c \in Callers, Acquire(c) PROVE LocalInv'
  <2>1. PICK lease \in Leases : Write(c, Taken(call[c].owner, local.now, lease))
    BY <1>5 DEF Acquire
  <2>2. Running(c) /\ call[c].owner \in Owners /\ call[c].op # "release"
    BY <1>5, RunningCall DEF Acquire, Loaded, Acquires
  <2>3. Taken(call[c].owner, local.now, lease) \in Record
    BY <1>0, <2>2, TakenIsRecord
  <2>4. Taken(call[c].owner, local.now, lease).owner = call[c].owner
    BY DEF Taken
  <2> QED
    BY <1>4, <2>1, <2>2, <2>3, <2>4
<1>6. ASSUME NEW c \in Callers, Renew(c) PROVE LocalInv'
  <2>1. PICK lease \in Leases : Write(c, Taken(call[c].owner, clock, lease))
    BY <1>6 DEF Renew
  <2>2. Running(c) /\ call[c].owner \in Owners /\ call[c].op # "release"
    BY <1>6, RunningCall DEF Renew, Loaded
  <2>3. Taken(call[c].owner, clock, lease) \in Record
    BY <1>0, <2>2, TakenIsRecord
  <2>4. Taken(call[c].owner, clock, lease).owner = call[c].owner
    BY DEF Taken
  <2> QED
    BY <1>4, <2>1, <2>2, <2>3, <2>4
<1>7. ASSUME NEW c \in Callers, Release(c) PROVE LocalInv'
  <2>1. Running(c) /\ call[c].owner \in Owners /\ call[c].op = "release" /\ Write(c, Nothing)
    BY <1>7, RunningCall DEF Release, Loaded
  <2>2. grant'[call[c].owner] = 0
    BY <1>7, <2>1 DEF Release, Shapes
  <2>3. Nothing \in Record
    BY DEF Nothing, Record
  <2> QED
    BY <1>4, <2>1, <2>2, <2>3
<1>8. ASSUME Fresh' PROVE LocalInv'
  BY <1>8 DEF LocalInv, Fresh
<1>9. ASSUME NEW c \in Callers, Answer(c) \/ Conflict(c) \/ Refuse(c) \/ Fail(c) PROVE Fresh'
  <2>0. Running(c) /\ call[c] \in Call
    BY <1>9 DEF Answer, Conflict, Refuse, Fail, Loaded, Shapes
  <2>1. PICK e : Leave(c, e) /\ (e = Idle \/ e = [call[c] EXCEPT !.at = "asleep"])
    BY <1>9 DEF Answer, Conflict, Refuse, Fail
  <2>2. grant' \in [Owners -> Nat] /\ misled' \subseteq Owners
    BY <1>9, ShapesNext DEF Shapes
  <2> QED
    BY <2>0, <2>1, <2>2, LeaveShapes
<1>10. ASSUME NEW r \in Readers, ReadBeside(r) PROVE LocalInv'
  BY <1>10 DEF ReadBeside, LocalInv, Running
<1>11. ASSUME NEW r \in Readers, AnswerBeside(r) PROVE LocalInv'
  <2> SUFFICES ASSUME NEW d \in Callers, Running(d), call[d].at \in {"loaded", "settled", "written"}
               PROVE  /\ store' = local.rec \/ ~Live(store', clock)
                      /\ overwritten' \/ store' = local.rec \/ ~Live(local.rec, clock)
    BY <1>11, SMTT(30) DEF AnswerBeside, LocalInv, Running, Live, Held
  <2>1. /\ store = local.rec \/ ~Live(store, clock)
        /\ overwritten \/ store = local.rec \/ ~Live(local.rec, clock)
    BY DEF LocalInv
  <2>2. ~Live(Nothing, clock)
    BY DEF Live, Held, Nothing
  <2> QED
    BY <1>11, <2>1, <2>2 DEF AnswerBeside
<1>12. CASE Tick
  <2>1. clock' = clock + 1 /\ store.until \in Nat /\ local.rec.until \in Nat
    BY <1>12 DEF Tick, Shapes, Record
  <2>2. \A d \in Callers : grant[call[d].owner] = 0 /\ call[d].owner \in Owners => grant'[call[d].owner] = 0
    BY <1>12 DEF Tick
  <2>3. \A d \in Callers : Running(d) => call[d].owner \in Owners
    BY RunningCall
  <2>4. \A d \in Callers : (Running(d)' <=> Running(d)) /\ call' = call
    BY <1>12 DEF Tick, Running
  <2> QED
    BY <1>0, <1>12, <2>1, <2>2, <2>3, <2>4, SMTT(30) DEF Tick, LocalInv, Live, Held
<1>13. CASE UNCHANGED vars
  BY <1>13 DEF vars, LocalInv, Running
<1> QED
  BY <1>1, <1>2, <1>3, <1>5, <1>6, <1>7, <1>8, <1>9, <1>10, <1>11, <1>12, <1>13, InvokeJoins, WakeJoins
  DEF Next, Step

\* The running call has a record that is the store's, or the store has none alive.
LEMMA StoreSeen ==
  ASSUME IInv, NEW c \in Callers, Running(c), call[c].at \in {"loaded", "settled", "written"}
  PROVE  /\ local.now <= clock
         /\ Live(store, clock) => store = local.rec
         /\ ~overwritten /\ Live(local.rec, clock) => store = local.rec
BY DEF IInv, LocalInv

\* A live record when a lease is written is that of the owner who writes.
LEMMA WriterOwns ==
  ASSUME IInv, NEW c \in Callers, Acquire(c) \/ Renew(c) \/ Release(c), Live(store, clock)
  PROVE  store.owner = call[c].owner
<1>0. clock \in Nat /\ local.now \in Nat /\ local.rec.until \in Nat
  BY ConstantsAssumption, SMTT(30) DEF IInv, Shapes, Record
<1>1. Loaded(c) /\ Running(c) /\ call[c].at \in {"loaded", "settled"}
  BY DEF Acquire, Renew, Release, Loaded
<1>2. store = local.rec /\ local.now <= clock
  BY <1>1, StoreSeen
<1>3. CASE Acquire(c)
  BY <1>0, <1>2, <1>3, SMTT(30) DEF Acquire, HeldByOther, Live
<1>4. CASE Renew(c)
  BY <1>2, <1>4 DEF Renew, Renews
<1>5. CASE Release(c)
  BY <1>2, <1>5 DEF Release, Releases
<1> QED
  BY <1>3, <1>4, <1>5

\* Whoever counts on a lease while nothing has been written is the store's live owner.
LEMMA HolderInStore ==
  ASSUME IInv, ~overwritten, NEW o \in Owners \ misled, Holds(o),
         ~\E c \in Callers : Running(c) /\ call[c].at = "written" /\ call[c].op # "release" /\ call[c].owner = o
  PROVE  store.owner = o /\ store.until >= grant[o] /\ Live(store, clock)
<1>0. clock \in Nat /\ store.until \in Nat /\ grant[o] \in Nat /\ o # NoOwner
  BY ConstantsAssumption, SMTT(30) DEF IInv, Shapes, Record
<1>1. store.owner = o /\ store.until >= grant[o]
  BY DEF IInv, GrantInv
<1> QED
  BY <1>0, <1>1, SMTT(30) DEF Live, Held, Holds

LEMMA GrantNext ==
  ASSUME IInv, [Next]_vars
  PROVE  GrantInv'
<1>0. /\ clock \in Nat /\ store.until \in Nat /\ local.rec.until \in Nat
      /\ \A o \in Owners : grant[o] \in Nat
      /\ \A c \in Callers : Running(c) => call[c].owner \in Owners /\ call[c].owner # NoOwner
      /\ \A c \in Callers : call[c] \in Call
  BY RunningCall, ConstantsAssumption, SMTT(30) DEF IInv, Shapes, Record
<1>1. ASSUME NEW c \in Callers, Joining(c) PROVE GrantInv'
  BY <1>1 DEF IInv, Joining, GrantInv, Holds
<1>2. ASSUME NEW c \in Callers, Load(c) PROVE GrantInv'
  <2>1. call'[c].owner = call[c].owner /\ \A d \in Callers : d # c => call'[d] = call[d]
    BY <1>0, <1>2 DEF Load, IInv, Shapes, Call
  <2>2. \A d \in Callers : (Running(d)' <=> Running(d)) /\ (Running(d) => d = c)
    BY <1>2 DEF Load, Running
  <2> QED
    BY <1>2, <2>1, <2>2 DEF Load, IInv, GrantInv, Holds
<1>3. ASSUME NEW c \in Callers, Settle(c) PROVE GrantInv'
  <2>1. ~Live(store, clock)
    <3>1. Live(store, clock) => store = local.rec
      BY <1>3, StoreSeen DEF Settle
    <3> QED
      BY <1>0, <1>3, <3>1, SMTT(30) DEF Settle, Lapsed, Live
  <2>2. \A d \in Callers : Running(d) => call[d].at # "written"
    BY <1>3 DEF Settle, Running
  <2>3. ~overwritten => \A o \in Owners \ misled : ~Holds(o)
    BY <2>1, <2>2, HolderInStore
  <2> QED
    BY <1>3, <2>3 DEF Settle, GrantInv, Holds
<1>4. ASSUME NEW c \in Callers, Acquire(c) \/ Renew(c) PROVE GrantInv'
  <2>1. Running(c) /\ call[c].at # "written" /\ call[c].op # "release"
    BY <1>4 DEF Acquire, Renew, Loaded, Acquires
  <2>2. /\ Running(c)' /\ call'[c].at = "written" /\ call'[c].op # "release"
        /\ call'[c].owner = call[c].owner
    BY <1>0, <1>4, <2>1 DEF Acquire, Renew, Write, Running, IInv, Shapes, Call
  <2>3. \A d \in Callers : Running(d) => call[d].at # "written"
    BY <2>1, OneRuns
  <2>4. ~overwritten => \A o \in Owners \ misled : Holds(o) => o = call[c].owner
    BY <1>4, <2>3, HolderInStore, WriterOwns
  <2>5. UNCHANGED <<clock, grant, misled, overwritten>>
    BY <1>4 DEF Acquire, Renew, Write
  <2> QED
    BY <2>2, <2>4, <2>5 DEF GrantInv, Holds
<1>5. ASSUME NEW c \in Callers, Release(c) PROVE GrantInv'
  <2>1. Running(c) /\ call[c].at # "written"
    BY <1>5 DEF Release, Loaded
  <2>2. \A d \in Callers : Running(d) => call[d].at # "written"
    BY <2>1, OneRuns
  <2>3. ~overwritten => \A o \in Owners \ misled : Holds(o) => o = call[c].owner
    BY <1>5, <2>2, HolderInStore, WriterOwns
  <2>4. /\ UNCHANGED <<clock, misled, overwritten>>
        /\ \A o \in Owners : grant'[o] = IF o = call[c].owner THEN 0 ELSE grant[o]
    BY <1>5 DEF Release, Write, IInv, Shapes
  <2> QED
    BY <1>0, <2>3, <2>4, SMTT(30) DEF GrantInv, Holds
<1>6. ASSUME NEW c \in Callers, Answer(c) PROVE GrantInv'
  <2>1. /\ Running(c) /\ call[c].at = "written"
        /\ UNCHANGED <<clock, store, overwritten>>
    BY <1>6 DEF Answer, Leave
  <2>2. \A d \in Callers : Running(d) => d = c
    BY <2>1, OneRuns
  <2>3. /\ Live(store, clock) => store = local.rec
        /\ ~overwritten /\ Live(local.rec, clock) => store = local.rec
    BY <2>1, StoreSeen
  <2>4. ASSUME ~overwritten, NEW o \in Owners \ misled, Holds(o), o # call[c].owner
        PROVE  store.owner = o /\ store.until >= grant[o] /\ Live(store, clock)
    BY <2>2, <2>4, HolderInStore
  <2>5. CASE call[c].op = "release"
    <3>1. grant[call[c].owner] = 0
      BY <2>1, <2>5 DEF IInv, LocalInv
    <3>2. ~Holds(call[c].owner)
      BY <1>0, <3>1, SMTT(30) DEF Holds
    <3>3. UNCHANGED <<grant, misled>>
      BY <1>6, <2>5 DEF Answer
    <3> QED
      BY <2>1, <2>4, <3>2, <3>3 DEF GrantInv, Holds
  <2>6. CASE call[c].op # "release"
    <3>1. local.rec.owner = call[c].owner
      BY <2>1, <2>6 DEF IInv, LocalInv
    <3>2. /\ \A o \in Owners : grant'[o] = IF o = call[c].owner THEN local.rec.until ELSE grant[o]
          /\ misled' = misled \ {call[c].owner}
      BY <1>6, <2>6 DEF Answer, IInv, Shapes
    <3>3. ASSUME ~overwritten, local.rec.until > clock
          PROVE  store = local.rec
      BY <1>0, <2>1, <2>3, <3>1, <3>3 DEF Live, Held
    <3>4. ASSUME ~overwritten, NEW o \in Owners \ misled', grant'[o] > clock
          PROVE  store.owner = o /\ store.until >= grant'[o]
      <4>1. CASE o = call[c].owner
        BY <1>0, <3>1, <3>2, <3>3, <3>4, <4>1, SMTT(30)
      <4>2. CASE o # call[c].owner
        BY <2>4, <3>2, <3>4, <4>2 DEF Holds
      <4> QED
        BY <4>1, <4>2
    <3> QED
      BY <2>1, <3>4 DEF GrantInv, Holds
  <2> QED
    BY <2>5, <2>6
<1>7. ASSUME NEW c \in Callers, Conflict(c) \/ Refuse(c) PROVE GrantInv'
  <2>1. Running(c) /\ call[c].at # "written" /\ UNCHANGED <<clock, store, overwritten, grant, misled>>
    BY <1>7 DEF Conflict, Refuse, Loaded, Leave
  <2>2. \A d \in Callers : Running(d) => call[d].at # "written"
    BY <2>1, OneRuns
  <2> QED
    BY <2>1, <2>2, HolderInStore DEF GrantInv, Holds
<1>8. ASSUME NEW c \in Callers, Fail(c) PROVE GrantInv'
  <2>1. Running(c) /\ UNCHANGED <<clock, store, overwritten, grant>> /\ misled \subseteq misled'
    BY <1>8 DEF Fail, Leave
  <2>2. \A d \in Callers : Running(d) => d = c
    BY <2>1, OneRuns
  <2>3. ASSUME ~overwritten, NEW o \in Owners \ misled', Holds(o)
        PROVE  store.owner = o /\ store.until >= grant[o]
    <3>1. CASE call[c].at = "written" /\ call[c].op # "release" /\ call[c].owner = o
      <4>1. local.rec.until >= grant[o]
        BY <1>0, <1>8, <2>3, <3>1, SMTT(30) DEF Fail
      <4>2. local.rec.owner = o /\ Live(local.rec, clock)
        BY <1>0, <2>1, <2>3, <3>1, <4>1, SMTT(30) DEF IInv, LocalInv, Live, Held, Holds
      <4>3. store = local.rec
        BY <2>1, <2>3, <3>1, <4>2, StoreSeen
      <4> QED
        BY <4>1, <4>2, <4>3
    <3>2. CASE ~(call[c].at = "written" /\ call[c].op # "release" /\ call[c].owner = o)
      BY <2>1, <2>2, <2>3, <3>2, HolderInStore
    <3> QED
      BY <3>1, <3>2
  <2> QED
    BY <2>1, <2>3 DEF GrantInv, Holds
<1>9. ASSUME NEW r \in Readers, ReadBeside(r) PROVE GrantInv'
  BY <1>9 DEF ReadBeside, IInv, GrantInv, Holds, Running
<1>10. ASSUME NEW r \in Readers, AnswerBeside(r) PROVE GrantInv'
  <2>1. UNCHANGED <<clock, queue, call, grant, misled>>
    BY <1>10 DEF AnswerBeside
  <2>2. ~overwritten' => ~overwritten /\ (store' = store \/ ~Live(store, clock))
    BY <1>10 DEF AnswerBeside
  <2>3. CASE ~overwritten' /\ ~Live(store, clock)
    BY <2>1, <2>2, <2>3, HolderInStore DEF GrantInv, Holds, Running
  <2>4. CASE store' = store /\ ~overwritten'
    BY <2>1, <2>2, <2>4 DEF IInv, GrantInv, Holds, Running
  <2>5. CASE overwritten'
    BY <2>5 DEF GrantInv
  <2> QED
    BY <2>2, <2>3, <2>4, <2>5
<1>11. CASE Tick
  <2>1. UNCHANGED <<store, queue, call, overwritten>>
    BY <1>11 DEF Tick
  <2>2. ASSUME NEW o \in Owners \ misled', grant'[o] > clock'
        PROVE  o \notin misled /\ Holds(o) /\ grant'[o] = grant[o]
    BY <1>0, <1>11, <2>2, SMTT(30) DEF Tick, Holds
  <2> QED
    BY <2>1, <2>2 DEF IInv, GrantInv, Holds, Running
<1>12. CASE UNCHANGED vars
  BY <1>12 DEF vars, IInv, GrantInv, Holds, Running
<1> QED
  BY <1>1, <1>2, <1>3, <1>4, <1>5, <1>6, <1>7, <1>8, <1>9, <1>10, <1>11, <1>12, InvokeJoins, WakeJoins
  DEF Next, Step, IInv

----------------------------------------------------------------------------
(***************************** THE THEOREMS *******************************)

LEMMA InvInit == Init => IInv
<1> SUFFICES ASSUME Init PROVE IInv
  OBVIOUS
<1>1. \A c \in Callers : ~Running(c)
  BY DEF Init, Running
<1>2. \A o \in Owners : ~Holds(o)
  <2> SUFFICES ASSUME NEW o \in Owners PROVE ~Holds(o)
    OBVIOUS
  <2>1. grant[o] = 0 /\ clock = 0
    BY DEF Init
  <2> QED
    BY <2>1, SMTT(30) DEF Holds
<1> QED
  BY <1>1, <1>2, ShapesInit DEF IInv, LocalInv, GrantInv

LEMMA InvNext == IInv /\ [Next]_vars => IInv'
BY ShapesNext, LocalNext, GrantNext DEF IInv

\* The inductive invariant holds at every step.
THEOREM LeaseInvariant == Spec => []IInv
BY InvInit, InvNext, PTL DEF Spec

\* Types of the lock, the chain and the histories.
THEOREM TypeCorrect == Spec => []TypeOK
<1>1. IInv => TypeOK
  BY DEF IInv, Shapes, TypeOK
<1> QED
  BY <1>1, LeaseInvariant, PTL

\* Two owners never count on the lock at once, unless a reader beside the chain
\* has overwritten a live lease or a lost renewal has shortened one.
THEOREM LeasesExclude == Spec => []MutualExclusion
<1>1. IInv => MutualExclusion
  <2> SUFFICES ASSUME IInv, ~overwritten, NEW o1 \in Owners \ misled, NEW o2 \in Owners \ misled,
                      Holds(o1), Holds(o2)
               PROVE  o1 = o2
    BY DEF MutualExclusion
  <2> DEFINE Told(o) == \E c \in Callers :
                 Running(c) /\ call[c].at = "written" /\ call[c].op # "release" /\ call[c].owner = o
  <2>1. ASSUME NEW o \in Owners \ misled, Holds(o), ~Told(o)
        PROVE  store.owner = o /\ Live(store, clock)
    BY <2>1, HolderInStore
  <2>2. ASSUME NEW p \in Owners, NEW q \in Owners, Told(p), store.owner = q, Live(store, clock)
        PROVE  p = q
    <3>1. PICK c \in Callers :
            Running(c) /\ call[c].at = "written" /\ call[c].op # "release" /\ call[c].owner = p
      BY <2>2
    <3>2. store = local.rec /\ local.rec.owner = p
      BY <2>2, <3>1 DEF IInv, LocalInv
    <3> QED
      BY <2>2, <3>2
  <2>3. ASSUME Told(o1), Told(o2) PROVE o1 = o2
    BY <2>3, OneRuns
  <2> HIDE DEF Told
  <2> QED
    BY <2>1, <2>2, <2>3
<1> QED
  BY <1>1, LeaseInvariant, PTL

\* A live lease is changed by its owner's calls only, or by a reader that overwrites it.
THEOREM LiveLeasesAreKept == Spec => LiveLeaseIsItsOwners
<1> DEFINE Kept == Live(store, clock) /\ store' # store
                    => overwritten' \/ \E c \in Callers : Running(c) /\ call[c].owner = store.owner
<1>1. ASSUME IInv, [Next]_vars PROVE Kept
  <2> SUFFICES ASSUME Live(store, clock), store' # store
               PROVE  overwritten' \/ \E c \in Callers : Running(c) /\ call[c].owner = store.owner
    OBVIOUS
  <2>0. clock \in Nat /\ store.until \in Nat
    BY <1>1, ConstantsAssumption, SMTT(30) DEF IInv, Shapes, Record
  <2>1. ASSUME NEW c \in Callers, Acquire(c) \/ Renew(c) \/ Release(c)
        PROVE  Running(c) /\ call[c].owner = store.owner
    BY <1>1, <2>1, WriterOwns DEF Acquire, Renew, Release, Loaded
  <2>2. ASSUME NEW c \in Callers, Settle(c) PROVE FALSE
    <3>1. store = local.rec
      BY <1>1, <2>2, StoreSeen DEF Settle
    <3> QED
      BY <2>0, <2>2, <3>1, SMTT(30) DEF Settle, Lapsed, Live
  <2>3. ASSUME NEW r \in Readers, AnswerBeside(r) PROVE overwritten'
    BY <2>3 DEF AnswerBeside
  <2> QED
    BY <1>1, <2>1, <2>2, <2>3
    DEF Next, Step, Invoke, Load, Answer, Conflict, Refuse, Leave, Wake, Fail, ReadBeside, Tick, vars
<1>2. IInv /\ [Next]_vars => Kept
  BY <1>1
<1> QED
  BY <1>2, LeaseInvariant, PTL DEF Spec, LiveLeaseIsItsOwners

(***************************************************************************)
(*                             THE EVENT BACKBONE                          *)
(***************************************************************************)

\* A relayer has a current event exactly while it publishes; only then has it deliveries.
LoopInv ==
    \A r \in Relayers :
        /\ relay[r] = "publishing" <=> event[r] # Nobody
        /\ \A c \in Consumers : delivery[r][c] # "none" => relay[r] = "publishing"
        /\ r \in Units /\ uow[r] # "over" => relay[r] = "idle"

\* With durable stores whatever can still be published comes from a committed unit.
CommitInv ==
    /\ \A u \in Units : uow[u] = "committed" => u \in committed
    /\ durable => /\ saved \subseteq committed
                  /\ \A r \in Relayers :
                        /\ todo[r] \subseteq committed
                        /\ event[r] \in Units => event[r] \in committed
                  /\ \A c \in Consumers, e \in Units : effects[c][e] > 0 => e \in committed

\* The delivery that runs the handler is the one in flight, and not processed yet.
LockInv ==
    \A r \in Relayers, c \in Consumers :
        /\ delivery[r][c] \in {"check", "handle", "mark"} => inFlight[c][event[r]] = r
        /\ delivery[r][c] \in {"handle", "mark"} => event[r] \notin processed[c]

\* An effect beyond the lapses is recorded, or its delivery is about to record it.
Marking(c, e) == \E r \in Relayers : delivery[r][c] = "mark" /\ event[r] = e
EffectInv ==
    \A c \in Consumers, e \in Units :
        /\ effects[c][e] <= 1 + lapses
        /\ e \notin processed[c] /\ ~Marking(c, e) => effects[c][e] <= lapses

\* What ended well has had its effect, and the rest is dead-lettered.
Concluded(c, e) == effects[c][e] > 0 \/ e \in dlq[c]
HandledInv ==
    \A c \in Consumers :
        /\ \A e \in processed[c] : effects[c][e] > 0
        /\ \A r \in Relayers :
              /\ delivery[r][c] = "mark" => effects[c][event[r]] > 0
              /\ delivery[r][c] = "done" => Concluded(c, event[r])
              /\ \A e \in sent[r] : Concluded(c, e)

MessagingInv ==
    /\ MessagingTypeOK /\ LoopInv /\ CommitInv /\ LockInv
    /\ WaitsForRunner /\ EffectInv /\ HandledInv

\* Every step keeps the types.
LEMMA MessagesTypeStep ==
    ASSUME MessagingAssumption, MessagingTypeOK, LoopInv, [MessagingNext]_messagingVars
    PROVE  MessagingTypeOK'
<1> USE DEF NoAttempts, NothingInFlight, NoDelivery, NoRecords, UowPc, RelayPc,
    DeliveryPc, Start, Conclude, Shared, Joined, Relayers, Unrelayed, outboxVars,
    loopVars, busVars, inboxVars, MessagingAssumption, MessagingTypeOK, LoopInv
<1>1. ASSUME NEW u \in Units, Persist(u) PROVE MessagingTypeOK'
  BY <1>1, SMTT(30) DEF Persist
<1>2. ASSUME NEW u \in Units, CommitUnit(u) PROVE MessagingTypeOK'
  BY <1>2, SMTT(30) DEF CommitUnit
<1>3. ASSUME NEW u \in Units, AbortUnit(u) PROVE MessagingTypeOK'
  BY <1>3, SMTT(30) DEF AbortUnit
<1>4. ASSUME NEW u \in Units, RelayUnit(u) PROVE MessagingTypeOK'
  BY <1>4, SMTT(30) DEF RelayUnit
<1>5. ASSUME NEW p \in Passes, RelayPending(p) PROVE MessagingTypeOK'
  BY <1>5, SMTT(30) DEF RelayPending
<1>6. ASSUME NEW r \in Relayers, Publish(r) PROVE MessagingTypeOK'
  BY <1>6, SMTT(30) DEF Publish
<1>7. ASSUME NEW r \in Relayers, PublishFails(r) PROVE MessagingTypeOK'
  BY <1>7, SMTT(30) DEF PublishFails
<1>8. ASSUME NEW r \in Relayers, PublishEnds(r) PROVE MessagingTypeOK'
  BY <1>8, SMTT(30) DEF PublishEnds
<1>9. ASSUME NEW r \in Relayers, MarkRelayed(r) PROVE MessagingTypeOK'
  BY <1>9, SMTT(30) DEF MarkRelayed
<1>10. ASSUME NEW r \in Relayers, NEW c \in Consumers, Join(r, c) PROVE MessagingTypeOK'
  BY <1>10, SMTT(30) DEF Join
<1>11. ASSUME NEW r \in Relayers, NEW c \in Consumers, Enter(r, c) PROVE MessagingTypeOK'
  BY <1>11, SMTT(30) DEF Enter
<1>12. ASSUME NEW r \in Relayers, NEW c \in Consumers, Skip(r, c) PROVE MessagingTypeOK'
  BY <1>12, SMTT(30) DEF Skip
<1>13. ASSUME NEW r \in Relayers, NEW c \in Consumers, Proceed(r, c) PROVE MessagingTypeOK'
  BY <1>13, SMTT(30) DEF Proceed
<1>14. ASSUME NEW r \in Relayers, NEW c \in Consumers, Handle(r, c) PROVE MessagingTypeOK'
  BY <1>14, SMTT(30) DEF Handle
<1>15. ASSUME NEW r \in Relayers, NEW c \in Consumers, HandlerThrows(r, c) PROVE
    MessagingTypeOK'
  BY <1>15, SMTT(30) DEF HandlerThrows
<1>16. ASSUME NEW r \in Relayers, NEW c \in Consumers, Mark(r, c) PROVE MessagingTypeOK'
  BY <1>16, SMTT(30) DEF Mark
<1>17. ASSUME NEW r \in Relayers, NEW c \in Consumers, MarkFails(r, c) PROVE MessagingTypeOK'
  BY <1>17, SMTT(30) DEF MarkFails
<1>18. ASSUME NEW r \in Relayers, NEW c \in Consumers, Retry(r, c) PROVE MessagingTypeOK'
  BY <1>18, SMTT(30) DEF Retry
<1>19. ASSUME NEW r \in Relayers, NEW c \in Consumers, Park(r, c) PROVE MessagingTypeOK'
  BY <1>19, SMTT(30) DEF Park
<1>20. CASE Restart
  BY <1>20, SMTT(30) DEF Restart
<1>21. CASE UNCHANGED messagingVars
  BY <1>21, SMTT(30) DEF messagingVars
<1> HIDE DEF NoAttempts, NothingInFlight, NoDelivery, NoRecords, UowPc, RelayPc,
    DeliveryPc, Start, Conclude, Shared, Joined, Relayers, Unrelayed, outboxVars,
    loopVars, busVars, inboxVars, MessagingAssumption, MessagingTypeOK, LoopInv
<1> QED
    BY <1>1, <1>2, <1>3, <1>4, <1>5, <1>6, <1>7, <1>8, <1>9, <1>10, <1>11,
     <1>12, <1>13, <1>14, <1>15, <1>16, <1>17, <1>18, <1>19, <1>20, <1>21 DEF
     MessagingNext, UnitStep, RelayStep, DeliveryStep, Rest

\* Every step keeps deliveries to publishing relayers, which have an event.
LEMMA LoopStep ==
    ASSUME MessagingAssumption, MessagingTypeOK, LoopInv, [MessagingNext]_messagingVars
    PROVE  LoopInv'
<1> USE DEF NoAttempts, NothingInFlight, NoDelivery, NoRecords, UowPc, RelayPc,
    DeliveryPc, Start, Conclude, Shared, Joined, Relayers, Unrelayed, outboxVars,
    loopVars, busVars, inboxVars, MessagingAssumption, MessagingTypeOK, LoopInv
<1>1. ASSUME NEW u \in Units, Persist(u) PROVE LoopInv'
  BY <1>1, SMTT(30) DEF Persist
<1>2. ASSUME NEW u \in Units, CommitUnit(u) PROVE LoopInv'
  BY <1>2, SMTT(30) DEF CommitUnit
<1>3. ASSUME NEW u \in Units, AbortUnit(u) PROVE LoopInv'
  BY <1>3, SMTT(30) DEF AbortUnit
<1>4. ASSUME NEW u \in Units, RelayUnit(u) PROVE LoopInv'
  BY <1>4, SMTT(30) DEF RelayUnit
<1>5. ASSUME NEW p \in Passes, RelayPending(p) PROVE LoopInv'
  BY <1>5, SMTT(30) DEF RelayPending
<1>6. ASSUME NEW r \in Relayers, Publish(r) PROVE LoopInv'
  BY <1>6, SMTT(30) DEF Publish
<1>7. ASSUME NEW r \in Relayers, PublishFails(r) PROVE LoopInv'
  BY <1>7, SMTT(30) DEF PublishFails
<1>8. ASSUME NEW r \in Relayers, PublishEnds(r) PROVE LoopInv'
  BY <1>8, SMTT(30) DEF PublishEnds
<1>9. ASSUME NEW r \in Relayers, MarkRelayed(r) PROVE LoopInv'
  BY <1>9, SMTT(30) DEF MarkRelayed
<1>10. ASSUME NEW r \in Relayers, NEW c \in Consumers, Join(r, c) PROVE LoopInv'
  BY <1>10, SMTT(30) DEF Join
<1>11. ASSUME NEW r \in Relayers, NEW c \in Consumers, Enter(r, c) PROVE LoopInv'
  BY <1>11, SMTT(30) DEF Enter
<1>12. ASSUME NEW r \in Relayers, NEW c \in Consumers, Skip(r, c) PROVE LoopInv'
  BY <1>12, SMTT(30) DEF Skip
<1>13. ASSUME NEW r \in Relayers, NEW c \in Consumers, Proceed(r, c) PROVE LoopInv'
  BY <1>13, SMTT(30) DEF Proceed
<1>14. ASSUME NEW r \in Relayers, NEW c \in Consumers, Handle(r, c) PROVE LoopInv'
  BY <1>14, SMTT(30) DEF Handle
<1>15. ASSUME NEW r \in Relayers, NEW c \in Consumers, HandlerThrows(r, c) PROVE
    LoopInv'
  BY <1>15, SMTT(30) DEF HandlerThrows
<1>16. ASSUME NEW r \in Relayers, NEW c \in Consumers, Mark(r, c) PROVE LoopInv'
  BY <1>16, SMTT(30) DEF Mark
<1>17. ASSUME NEW r \in Relayers, NEW c \in Consumers, MarkFails(r, c) PROVE
    LoopInv'
  BY <1>17, SMTT(30) DEF MarkFails
<1>18. ASSUME NEW r \in Relayers, NEW c \in Consumers, Retry(r, c) PROVE LoopInv'
  BY <1>18, SMTT(30) DEF Retry
<1>19. ASSUME NEW r \in Relayers, NEW c \in Consumers, Park(r, c) PROVE LoopInv'
  BY <1>19, SMTT(30) DEF Park
<1>20. CASE Restart
  BY <1>20, SMTT(30) DEF Restart
<1>21. CASE UNCHANGED messagingVars
  BY <1>21, SMTT(30) DEF messagingVars
<1> HIDE DEF NoAttempts, NothingInFlight, NoDelivery, NoRecords, UowPc, RelayPc,
    DeliveryPc, Start, Conclude, Shared, Joined, Relayers, Unrelayed, outboxVars,
    loopVars, busVars, inboxVars, MessagingAssumption, MessagingTypeOK, LoopInv
<1> QED
    BY <1>1, <1>2, <1>3, <1>4, <1>5, <1>6, <1>7, <1>8, <1>9, <1>10, <1>11,
     <1>12, <1>13, <1>14, <1>15, <1>16, <1>17, <1>18, <1>19, <1>20, <1>21 DEF
     MessagingNext, UnitStep, RelayStep, DeliveryStep, Rest

\* With durable stores only committed events get anywhere.
LEMMA CommitStep ==
    ASSUME MessagingAssumption, MessagingTypeOK, LoopInv, CommitInv, [MessagingNext]_messagingVars
    PROVE  CommitInv'
<1> USE DEF NoAttempts, NothingInFlight, NoDelivery, NoRecords, UowPc, RelayPc,
    DeliveryPc, Start, Conclude, Shared, Joined, Relayers, Unrelayed, outboxVars,
    loopVars, busVars, inboxVars, MessagingAssumption, MessagingTypeOK, LoopInv,
    CommitInv
<1>1. ASSUME NEW u \in Units, Persist(u) PROVE CommitInv'
  BY <1>1, SMTT(30) DEF Persist
<1>2. ASSUME NEW u \in Units, CommitUnit(u) PROVE CommitInv'
  BY <1>2, SMTT(30) DEF CommitUnit
<1>3. ASSUME NEW u \in Units, AbortUnit(u) PROVE CommitInv'
  BY <1>3, SMTT(30) DEF AbortUnit
<1>4. ASSUME NEW u \in Units, RelayUnit(u) PROVE CommitInv'
  BY <1>4, SMTT(30) DEF RelayUnit
<1>5. ASSUME NEW p \in Passes, RelayPending(p) PROVE CommitInv'
  BY <1>5, SMTT(30) DEF RelayPending
<1>6. ASSUME NEW r \in Relayers, Publish(r) PROVE CommitInv'
  BY <1>6, SMTT(30) DEF Publish
<1>7. ASSUME NEW r \in Relayers, PublishFails(r) PROVE CommitInv'
  BY <1>7, SMTT(30) DEF PublishFails
<1>8. ASSUME NEW r \in Relayers, PublishEnds(r) PROVE CommitInv'
  BY <1>8, SMTT(30) DEF PublishEnds
<1>9. ASSUME NEW r \in Relayers, MarkRelayed(r) PROVE CommitInv'
  BY <1>9, SMTT(30) DEF MarkRelayed
<1>10. ASSUME NEW r \in Relayers, NEW c \in Consumers, Join(r, c) PROVE CommitInv'
  BY <1>10, SMTT(30) DEF Join
<1>11. ASSUME NEW r \in Relayers, NEW c \in Consumers, Enter(r, c) PROVE CommitInv'
  BY <1>11, SMTT(30) DEF Enter
<1>12. ASSUME NEW r \in Relayers, NEW c \in Consumers, Skip(r, c) PROVE CommitInv'
  BY <1>12, SMTT(30) DEF Skip
<1>13. ASSUME NEW r \in Relayers, NEW c \in Consumers, Proceed(r, c) PROVE
    CommitInv'
  BY <1>13, SMTT(30) DEF Proceed
<1>14. ASSUME NEW r \in Relayers, NEW c \in Consumers, Handle(r, c) PROVE CommitInv'
  BY <1>14, SMTT(30) DEF Handle
<1>15. ASSUME NEW r \in Relayers, NEW c \in Consumers, HandlerThrows(r, c) PROVE
    CommitInv'
  BY <1>15, SMTT(30) DEF HandlerThrows
<1>16. ASSUME NEW r \in Relayers, NEW c \in Consumers, Mark(r, c) PROVE CommitInv'
  BY <1>16, SMTT(30) DEF Mark
<1>17. ASSUME NEW r \in Relayers, NEW c \in Consumers, MarkFails(r, c) PROVE
    CommitInv'
  BY <1>17, SMTT(30) DEF MarkFails
<1>18. ASSUME NEW r \in Relayers, NEW c \in Consumers, Retry(r, c) PROVE CommitInv'
  BY <1>18, SMTT(30) DEF Retry
<1>19. ASSUME NEW r \in Relayers, NEW c \in Consumers, Park(r, c) PROVE CommitInv'
  BY <1>19, SMTT(30) DEF Park
<1>20. CASE Restart
  BY <1>20, SMTT(30) DEF Restart
<1>21. CASE UNCHANGED messagingVars
  BY <1>21, SMTT(30) DEF messagingVars
<1> HIDE DEF NoAttempts, NothingInFlight, NoDelivery, NoRecords, UowPc, RelayPc,
    DeliveryPc, Start, Conclude, Shared, Joined, Relayers, Unrelayed, outboxVars,
    loopVars, busVars, inboxVars, MessagingAssumption, MessagingTypeOK, LoopInv,
    CommitInv
<1> QED
    BY <1>1, <1>2, <1>3, <1>4, <1>5, <1>6, <1>7, <1>8, <1>9, <1>10, <1>11,
     <1>12, <1>13, <1>14, <1>15, <1>16, <1>17, <1>18, <1>19, <1>20, <1>21 DEF
     MessagingNext, UnitStep, RelayStep, DeliveryStep, Rest

\* At most one delivery of an event to a consumer is past the guard.
LEMMA LockStep ==
    ASSUME MessagingAssumption, MessagingTypeOK, LoopInv, LockInv, [MessagingNext]_messagingVars
    PROVE  LockInv'
<1> USE DEF NoAttempts, NothingInFlight, NoDelivery, NoRecords, UowPc, RelayPc,
    DeliveryPc, Start, Conclude, Shared, Joined, Relayers, Unrelayed, outboxVars,
    loopVars, busVars, inboxVars, MessagingAssumption, MessagingTypeOK, LoopInv, LockInv
<1>1. ASSUME NEW u \in Units, Persist(u) PROVE LockInv'
  BY <1>1, SMTT(30) DEF Persist
<1>2. ASSUME NEW u \in Units, CommitUnit(u) PROVE LockInv'
  BY <1>2, SMTT(30) DEF CommitUnit
<1>3. ASSUME NEW u \in Units, AbortUnit(u) PROVE LockInv'
  BY <1>3, SMTT(30) DEF AbortUnit
<1>4. ASSUME NEW u \in Units, RelayUnit(u) PROVE LockInv'
  BY <1>4, SMTT(30) DEF RelayUnit
<1>5. ASSUME NEW p \in Passes, RelayPending(p) PROVE LockInv'
  BY <1>5, SMTT(30) DEF RelayPending
<1>6. ASSUME NEW r \in Relayers, Publish(r) PROVE LockInv'
  BY <1>6, SMTT(30) DEF Publish
<1>7. ASSUME NEW r \in Relayers, PublishFails(r) PROVE LockInv'
  BY <1>7, SMTT(30) DEF PublishFails
<1>8. ASSUME NEW r \in Relayers, PublishEnds(r) PROVE LockInv'
  BY <1>8, SMTT(30) DEF PublishEnds
<1>9. ASSUME NEW r \in Relayers, MarkRelayed(r) PROVE LockInv'
  BY <1>9, SMTT(30) DEF MarkRelayed
<1>10. ASSUME NEW r \in Relayers, NEW c \in Consumers, Join(r, c) PROVE LockInv'
  BY <1>10, SMTT(30) DEF Join
<1>11. ASSUME NEW r \in Relayers, NEW c \in Consumers, Enter(r, c) PROVE LockInv'
  BY <1>11, SMTT(30) DEF Enter
<1>12. ASSUME NEW r \in Relayers, NEW c \in Consumers, Skip(r, c) PROVE LockInv'
  BY <1>12, SMTT(30) DEF Skip
<1>13. ASSUME NEW r \in Relayers, NEW c \in Consumers, Proceed(r, c) PROVE LockInv'
  BY <1>13, SMTT(30) DEF Proceed
<1>14. ASSUME NEW r \in Relayers, NEW c \in Consumers, Handle(r, c) PROVE LockInv'
  BY <1>14, SMTT(30) DEF Handle
<1>15. ASSUME NEW r \in Relayers, NEW c \in Consumers, HandlerThrows(r, c) PROVE
    LockInv'
  BY <1>15, SMTT(30) DEF HandlerThrows
<1>16. ASSUME NEW r \in Relayers, NEW c \in Consumers, Mark(r, c) PROVE LockInv'
  BY <1>16, SMTT(30) DEF Mark
<1>17. ASSUME NEW r \in Relayers, NEW c \in Consumers, MarkFails(r, c) PROVE
    LockInv'
  BY <1>17, SMTT(30) DEF MarkFails
<1>18. ASSUME NEW r \in Relayers, NEW c \in Consumers, Retry(r, c) PROVE LockInv'
  BY <1>18, SMTT(30) DEF Retry
<1>19. ASSUME NEW r \in Relayers, NEW c \in Consumers, Park(r, c) PROVE LockInv'
  BY <1>19, SMTT(30) DEF Park
<1>20. CASE Restart
  BY <1>20, SMTT(30) DEF Restart
<1>21. CASE UNCHANGED messagingVars
  BY <1>21, SMTT(30) DEF messagingVars
<1> HIDE DEF NoAttempts, NothingInFlight, NoDelivery, NoRecords, UowPc, RelayPc,
    DeliveryPc, Start, Conclude, Shared, Joined, Relayers, Unrelayed, outboxVars,
    loopVars, busVars, inboxVars, MessagingAssumption, MessagingTypeOK, LoopInv, LockInv
<1> QED
    BY <1>1, <1>2, <1>3, <1>4, <1>5, <1>6, <1>7, <1>8, <1>9, <1>10, <1>11,
     <1>12, <1>13, <1>14, <1>15, <1>16, <1>17, <1>18, <1>19, <1>20, <1>21 DEF
     MessagingNext, UnitStep, RelayStep, DeliveryStep, Rest

\* A publish that ends has no delivery in flight any more.
LEMMA PublishEndsWait ==
    ASSUME MessagingTypeOK, WaitsForRunner, NEW r \in Relayers, PublishEnds(r)
    PROVE  WaitsForRunner'
<1>1. \A c \in Consumers : delivery[r][c] = "done"
  BY DEF PublishEnds, Delivered
<1>2. /\ inFlight' = inFlight
      /\ \A q \in Relayers : q # r => event'[q] = event[q] /\ delivery'[q] = delivery[q]
      /\ \A c \in Consumers : delivery'[r][c] = "none"
  BY DEF PublishEnds, NoDelivery, MessagingTypeOK
<1>3. ASSUME NEW c \in Consumers, NEW e \in Units, inFlight[c][e] # Nobody
      PROVE  /\ inFlight[c][e] \in Relayers /\ inFlight[c][e] # r
             /\ event[inFlight[c][e]] = e
             /\ delivery[inFlight[c][e]][c] \in {"check", "handle", "mark"}
  <2>1. inFlight[c][e] \in Relayers
    BY <1>3 DEF MessagingTypeOK
  <2>2. /\ event[inFlight[c][e]] = e
        /\ delivery[inFlight[c][e]][c] \in {"check", "handle", "mark"}
    BY <1>3 DEF WaitsForRunner
  <2>3. inFlight[c][e] # r
    BY <1>1, <2>2
  <2> QED
    BY <2>1, <2>2, <2>3
<1>4. ASSUME NEW c \in Consumers, NEW e \in Units, inFlight'[c][e] # Nobody
      PROVE  /\ event'[inFlight'[c][e]] = e
             /\ delivery'[inFlight'[c][e]][c] \in {"check", "handle", "mark"}
  BY <1>2, <1>3, <1>4
<1>5. ASSUME NEW c \in Consumers, NEW q \in Relayers, delivery'[q][c] = "wait"
      PROVE  inFlight'[c][event'[q]] # Nobody
  <2>1. q # r
    BY <1>2, <1>5
  <2>2. delivery[q][c] = "wait" /\ event'[q] = event[q]
    BY <1>2, <1>5, <2>1
  <2> QED
    BY <1>2, <2>2 DEF WaitsForRunner
<1> QED
  BY <1>4, <1>5 DEF WaitsForRunner

\* A duplicate joins a delivery that is in flight.
LEMMA JoinWaits ==
    ASSUME MessagingTypeOK, WaitsForRunner, NEW r \in Relayers, NEW c \in Consumers, Join(r, c)
    PROVE  WaitsForRunner'
<1>1. UNCHANGED <<event, inFlight>>
  BY DEF Join, loopVars
<1>2. /\ delivery[r][c] = "call" /\ inFlight[c][event[r]] # Nobody
      /\ \A q \in Relayers, d \in Consumers :
            delivery'[q][d] = IF q = r /\ d = c THEN "wait" ELSE delivery[q][d]
  BY DEF Join, MessagingTypeOK
<1>3. ASSUME NEW d \in Consumers, NEW e \in Units, inFlight'[d][e] # Nobody
      PROVE  /\ event'[inFlight'[d][e]] = e
             /\ delivery'[inFlight'[d][e]][d] \in {"check", "handle", "mark"}
  <2>1. /\ inFlight[d][e] \in Relayers /\ event[inFlight[d][e]] = e
        /\ delivery[inFlight[d][e]][d] \in {"check", "handle", "mark"}
    BY <1>1, <1>3 DEF WaitsForRunner, MessagingTypeOK
  <2>2. delivery'[inFlight[d][e]][d] = delivery[inFlight[d][e]][d]
    BY <1>2, <2>1
  <2> QED
    BY <1>1, <2>1, <2>2
<1>4. ASSUME NEW q \in Relayers, NEW d \in Consumers, delivery'[q][d] = "wait"
      PROVE  inFlight'[d][event'[q]] # Nobody
  BY <1>1, <1>2, <1>4 DEF WaitsForRunner
<1> QED
  BY <1>3, <1>4 DEF WaitsForRunner

\* Whoever waits, waits for a delivery that runs the handler.
LEMMA WaitStep ==
    ASSUME MessagingAssumption, MessagingTypeOK, LoopInv, LockInv, WaitsForRunner, [MessagingNext]_messagingVars
    PROVE  WaitsForRunner'
<1> USE DEF NoAttempts, NothingInFlight, NoDelivery, NoRecords, UowPc, RelayPc,
    DeliveryPc, Start, Conclude, Shared, Joined, Relayers, Unrelayed, outboxVars,
    loopVars, busVars, inboxVars, MessagingAssumption, MessagingTypeOK, LoopInv, LockInv,
    WaitsForRunner
<1>1. ASSUME NEW u \in Units, Persist(u) PROVE WaitsForRunner'
  BY <1>1, SMTT(30) DEF Persist
<1>2. ASSUME NEW u \in Units, CommitUnit(u) PROVE WaitsForRunner'
  BY <1>2, SMTT(30) DEF CommitUnit
<1>3. ASSUME NEW u \in Units, AbortUnit(u) PROVE WaitsForRunner'
  BY <1>3, SMTT(30) DEF AbortUnit
<1>4. ASSUME NEW u \in Units, RelayUnit(u) PROVE WaitsForRunner'
  BY <1>4, SMTT(30) DEF RelayUnit
<1>5. ASSUME NEW p \in Passes, RelayPending(p) PROVE WaitsForRunner'
  BY <1>5, SMTT(30) DEF RelayPending
<1>6. ASSUME NEW r \in Relayers, Publish(r) PROVE WaitsForRunner'
  BY <1>6, SMTT(30) DEF Publish
<1>7. ASSUME NEW r \in Relayers, PublishFails(r) PROVE WaitsForRunner'
  BY <1>7, SMTT(30) DEF PublishFails
<1>8. ASSUME NEW r \in Relayers, PublishEnds(r) PROVE WaitsForRunner'
  BY <1>8, PublishEndsWait
<1>9. ASSUME NEW r \in Relayers, MarkRelayed(r) PROVE WaitsForRunner'
  BY <1>9, SMTT(30) DEF MarkRelayed
<1>10. ASSUME NEW r \in Relayers, NEW c \in Consumers, Join(r, c) PROVE WaitsForRunner'
  BY <1>10, JoinWaits
<1>11. ASSUME NEW r \in Relayers, NEW c \in Consumers, Enter(r, c) PROVE WaitsForRunner'
  BY <1>11, SMTT(30) DEF Enter
<1>12. ASSUME NEW r \in Relayers, NEW c \in Consumers, Skip(r, c) PROVE WaitsForRunner'
  BY <1>12, SMTT(30) DEF Skip
<1>13. ASSUME NEW r \in Relayers, NEW c \in Consumers, Proceed(r, c) PROVE WaitsForRunner'
  BY <1>13, SMTT(30) DEF Proceed
<1>14. ASSUME NEW r \in Relayers, NEW c \in Consumers, Handle(r, c) PROVE WaitsForRunner'
  BY <1>14, SMTT(30) DEF Handle
<1>15. ASSUME NEW r \in Relayers, NEW c \in Consumers, HandlerThrows(r, c) PROVE
    WaitsForRunner'
  BY <1>15, SMTT(30) DEF HandlerThrows
<1>16. ASSUME NEW r \in Relayers, NEW c \in Consumers, Mark(r, c) PROVE WaitsForRunner'
  BY <1>16, SMTT(30) DEF Mark
<1>17. ASSUME NEW r \in Relayers, NEW c \in Consumers, MarkFails(r, c) PROVE
    WaitsForRunner'
  BY <1>17, SMTT(30) DEF MarkFails
<1>18. ASSUME NEW r \in Relayers, NEW c \in Consumers, Retry(r, c) PROVE WaitsForRunner'
  BY <1>18, SMTT(30) DEF Retry
<1>19. ASSUME NEW r \in Relayers, NEW c \in Consumers, Park(r, c) PROVE WaitsForRunner'
  BY <1>19, SMTT(30) DEF Park
<1>20. CASE Restart
  BY <1>20, SMTT(30) DEF Restart
<1>21. CASE UNCHANGED messagingVars
  BY <1>21, SMTT(30) DEF messagingVars
<1> HIDE DEF NoAttempts, NothingInFlight, NoDelivery, NoRecords, UowPc, RelayPc,
    DeliveryPc, Start, Conclude, Shared, Joined, Relayers, Unrelayed, outboxVars,
    loopVars, busVars, inboxVars, MessagingAssumption, MessagingTypeOK, LoopInv, LockInv,
    WaitsForRunner
<1> QED
    BY <1>1, <1>2, <1>3, <1>4, <1>5, <1>6, <1>7, <1>8, <1>9, <1>10, <1>11,
     <1>12, <1>13, <1>14, <1>15, <1>16, <1>17, <1>18, <1>19, <1>20, <1>21 DEF
     MessagingNext, UnitStep, RelayStep, DeliveryStep, Rest

\* No second effect without a lapse: the lock and the record exclude it.
LEMMA EffectStep ==
    ASSUME MessagingAssumption, MessagingTypeOK, LoopInv, LockInv, EffectInv, [MessagingNext]_messagingVars
    PROVE  EffectInv'
<1> USE DEF NoAttempts, NothingInFlight, NoDelivery, NoRecords, UowPc, RelayPc,
    DeliveryPc, Start, Conclude, Shared, Joined, Relayers, Unrelayed, outboxVars,
    loopVars, busVars, inboxVars, MessagingAssumption, MessagingTypeOK, LoopInv, LockInv,
    EffectInv, Marking
<1>1. ASSUME NEW u \in Units, Persist(u) PROVE EffectInv'
  BY <1>1, SMTT(30) DEF Persist
<1>2. ASSUME NEW u \in Units, CommitUnit(u) PROVE EffectInv'
  BY <1>2, SMTT(30) DEF CommitUnit
<1>3. ASSUME NEW u \in Units, AbortUnit(u) PROVE EffectInv'
  BY <1>3, SMTT(30) DEF AbortUnit
<1>4. ASSUME NEW u \in Units, RelayUnit(u) PROVE EffectInv'
  BY <1>4, SMTT(30) DEF RelayUnit
<1>5. ASSUME NEW p \in Passes, RelayPending(p) PROVE EffectInv'
  BY <1>5, SMTT(30) DEF RelayPending
<1>6. ASSUME NEW r \in Relayers, Publish(r) PROVE EffectInv'
  <2>1. ASSUME NEW b \in Consumers, NEW e \in Units, Marking(b, e)
        PROVE  Marking(b, e)'
    <3>1. PICK q \in Relayers : delivery[q][b] = "mark" /\ event[q] = e
      BY <2>1
    <3>2. relay[q] = "publishing" /\ delivery[r][b] \in DeliveryPc
      BY <3>1
    <3>3. delivery'[q][b] = "mark" /\ event'[q] = e
      <4>1. q # r
        <5>1. relay[r] = "next"
          BY <1>6 DEF Publish, Delivered
        <5> QED
          BY <3>2, <3>1, <5>1
      <4>2. delivery'[q] = delivery[q] /\ event'[q] = event[q]
        BY <1>6, <4>1 DEF Publish
      <4> QED
        BY <3>1, <4>2
    <3> QED
      BY <3>3
  <2>2. UNCHANGED <<effects, lapses, processed>>
    BY <1>6 DEF Publish
  <2> HIDE DEF Marking
  <2> QED
    BY <2>1, <2>2
<1>7. ASSUME NEW r \in Relayers, PublishFails(r) PROVE EffectInv'
  BY <1>7, SMTT(30) DEF PublishFails
<1>8. ASSUME NEW r \in Relayers, PublishEnds(r) PROVE EffectInv'
  <2>1. ASSUME NEW b \in Consumers, NEW e \in Units, Marking(b, e)
        PROVE  Marking(b, e)'
    <3>1. PICK q \in Relayers : delivery[q][b] = "mark" /\ event[q] = e
      BY <2>1
    <3>2. relay[q] = "publishing" /\ delivery[r][b] \in DeliveryPc
      BY <3>1
    <3>3. delivery'[q][b] = "mark" /\ event'[q] = e
      <4>1. q # r
        <5>1. delivery[r][b] = "done"
          BY <1>8 DEF PublishEnds, Delivered
        <5> QED
          BY <3>2, <3>1, <5>1
      <4>2. delivery'[q] = delivery[q] /\ event'[q] = event[q]
        BY <1>8, <4>1 DEF PublishEnds
      <4> QED
        BY <3>1, <4>2
    <3> QED
      BY <3>3
  <2>2. UNCHANGED <<effects, lapses, processed>>
    BY <1>8 DEF PublishEnds
  <2> HIDE DEF Marking
  <2> QED
    BY <2>1, <2>2
<1>9. ASSUME NEW r \in Relayers, MarkRelayed(r) PROVE EffectInv'
  BY <1>9, SMTT(30) DEF MarkRelayed
<1>10. ASSUME NEW r \in Relayers, NEW c \in Consumers, Join(r, c) PROVE EffectInv'
  BY <1>10, SMTT(30) DEF Join
<1>11. ASSUME NEW r \in Relayers, NEW c \in Consumers, Enter(r, c) PROVE EffectInv'
  BY <1>11, SMTT(30) DEF Enter
<1>12. ASSUME NEW r \in Relayers, NEW c \in Consumers, Skip(r, c) PROVE EffectInv'
  <2>1. ASSUME NEW b \in Consumers, NEW e \in Units, Marking(b, e)
        PROVE  Marking(b, e)'
    <3>1. PICK q \in Relayers : delivery[q][b] = "mark" /\ event[q] = e
      BY <2>1
    <3>2. relay[q] = "publishing" /\ delivery[r][b] \in DeliveryPc
      BY <3>1
    <3>3. delivery'[q][b] = "mark" /\ event'[q] = e
      BY <1>12, <3>1, SMTT(30) DEF Skip
    <3> QED
      BY <3>3
  <2>2. UNCHANGED <<effects, lapses, processed>>
    BY <1>12 DEF Skip
  <2> HIDE DEF Marking
  <2> QED
    BY <2>1, <2>2
<1>13. ASSUME NEW r \in Relayers, NEW c \in Consumers, Proceed(r, c) PROVE
    EffectInv'
  BY <1>13, SMTT(30) DEF Proceed
<1>14. ASSUME NEW r \in Relayers, NEW c \in Consumers, Handle(r, c) PROVE EffectInv'
  BY <1>14, SMTT(30) DEF Handle
<1>15. ASSUME NEW r \in Relayers, NEW c \in Consumers, HandlerThrows(r, c) PROVE
    EffectInv'
  <2>1. ASSUME NEW b \in Consumers, NEW e \in Units, Marking(b, e)
        PROVE  Marking(b, e)'
    <3>1. PICK q \in Relayers : delivery[q][b] = "mark" /\ event[q] = e
      BY <2>1
    <3>2. delivery'[q][b] = "mark" /\ event'[q] = e
      BY <1>15, <3>1, SMTT(30) DEF HandlerThrows
    <3> QED
      BY <3>2
  <2>2. UNCHANGED <<effects, lapses, processed>>
    BY <1>15 DEF HandlerThrows
  <2> HIDE DEF Marking
  <2> QED
    BY <2>1, <2>2
<1>16. ASSUME NEW r \in Relayers, NEW c \in Consumers, Mark(r, c) PROVE EffectInv'
  BY <1>16, SMTT(30) DEF Mark
<1>17. ASSUME NEW r \in Relayers, NEW c \in Consumers, MarkFails(r, c) PROVE
    EffectInv'
  BY <1>17, SMTT(30) DEF MarkFails
<1>18. ASSUME NEW r \in Relayers, NEW c \in Consumers, Retry(r, c) PROVE EffectInv'
  BY <1>18, SMTT(30) DEF Retry
<1>19. ASSUME NEW r \in Relayers, NEW c \in Consumers, Park(r, c) PROVE EffectInv'
  BY <1>19, SMTT(30) DEF Park
<1>20. CASE Restart
  BY <1>20, SMTT(30) DEF Restart
<1>21. CASE UNCHANGED messagingVars
  BY <1>21, SMTT(30) DEF messagingVars
<1> HIDE DEF NoAttempts, NothingInFlight, NoDelivery, NoRecords, UowPc, RelayPc,
    DeliveryPc, Start, Conclude, Shared, Joined, Relayers, Unrelayed, outboxVars,
    loopVars, busVars, inboxVars, MessagingAssumption, MessagingTypeOK, LoopInv, LockInv,
    EffectInv, Marking
<1> QED
    BY <1>1, <1>2, <1>3, <1>4, <1>5, <1>6, <1>7, <1>8, <1>9, <1>10, <1>11,
     <1>12, <1>13, <1>14, <1>15, <1>16, <1>17, <1>18, <1>19, <1>20, <1>21 DEF
     MessagingNext, UnitStep, RelayStep, DeliveryStep, Rest

\* A delivery ends only with the effect or in the dead-letter queue.
LEMMA HandledStep ==
    ASSUME MessagingAssumption, MessagingTypeOK, LoopInv, LockInv, HandledInv, [MessagingNext]_messagingVars
    PROVE  HandledInv'
<1> USE DEF NoAttempts, NothingInFlight, NoDelivery, NoRecords, UowPc, RelayPc,
    DeliveryPc, Start, Conclude, Shared, Joined, Relayers, Unrelayed, outboxVars,
    loopVars, busVars, inboxVars, MessagingAssumption, MessagingTypeOK, LoopInv, LockInv,
    HandledInv, Concluded, Delivered
<1>1. ASSUME NEW u \in Units, Persist(u) PROVE HandledInv'
  BY <1>1, SMTT(30) DEF Persist
<1>2. ASSUME NEW u \in Units, CommitUnit(u) PROVE HandledInv'
  BY <1>2, SMTT(30) DEF CommitUnit
<1>3. ASSUME NEW u \in Units, AbortUnit(u) PROVE HandledInv'
  BY <1>3, SMTT(30) DEF AbortUnit
<1>4. ASSUME NEW u \in Units, RelayUnit(u) PROVE HandledInv'
  BY <1>4, SMTT(30) DEF RelayUnit
<1>5. ASSUME NEW p \in Passes, RelayPending(p) PROVE HandledInv'
  BY <1>5, SMTT(30) DEF RelayPending
<1>6. ASSUME NEW r \in Relayers, Publish(r) PROVE HandledInv'
  BY <1>6, SMTT(30) DEF Publish
<1>7. ASSUME NEW r \in Relayers, PublishFails(r) PROVE HandledInv'
  BY <1>7, SMTT(30) DEF PublishFails
<1>8. ASSUME NEW r \in Relayers, PublishEnds(r) PROVE HandledInv'
  BY <1>8, SMTT(30) DEF PublishEnds
<1>9. ASSUME NEW r \in Relayers, MarkRelayed(r) PROVE HandledInv'
  BY <1>9, SMTT(30) DEF MarkRelayed
<1>10. ASSUME NEW r \in Relayers, NEW c \in Consumers, Join(r, c) PROVE HandledInv'
  BY <1>10, SMTT(30) DEF Join
<1>11. ASSUME NEW r \in Relayers, NEW c \in Consumers, Enter(r, c) PROVE HandledInv'
  BY <1>11, SMTT(30) DEF Enter
<1>12. ASSUME NEW r \in Relayers, NEW c \in Consumers, Skip(r, c) PROVE HandledInv'
  BY <1>12, SMTT(30) DEF Skip
<1>13. ASSUME NEW r \in Relayers, NEW c \in Consumers, Proceed(r, c) PROVE
    HandledInv'
  BY <1>13, SMTT(30) DEF Proceed
<1>14. ASSUME NEW r \in Relayers, NEW c \in Consumers, Handle(r, c) PROVE
    HandledInv'
  BY <1>14, SMTT(30) DEF Handle
<1>15. ASSUME NEW r \in Relayers, NEW c \in Consumers, HandlerThrows(r, c) PROVE
    HandledInv'
  BY <1>15, SMTT(30) DEF HandlerThrows
<1>16. ASSUME NEW r \in Relayers, NEW c \in Consumers, Mark(r, c) PROVE HandledInv'
  BY <1>16, SMTT(30) DEF Mark
<1>17. ASSUME NEW r \in Relayers, NEW c \in Consumers, MarkFails(r, c) PROVE
    HandledInv'
  BY <1>17, SMTT(30) DEF MarkFails
<1>18. ASSUME NEW r \in Relayers, NEW c \in Consumers, Retry(r, c) PROVE HandledInv'
  BY <1>18, SMTT(30) DEF Retry
<1>19. ASSUME NEW r \in Relayers, NEW c \in Consumers, Park(r, c) PROVE HandledInv'
  BY <1>19, SMTT(30) DEF Park
<1>20. CASE Restart
  BY <1>20, SMTT(30) DEF Restart
<1>21. CASE UNCHANGED messagingVars
  BY <1>21, SMTT(30) DEF messagingVars
<1> HIDE DEF NoAttempts, NothingInFlight, NoDelivery, NoRecords, UowPc, RelayPc,
    DeliveryPc, Start, Conclude, Shared, Joined, Relayers, Unrelayed, outboxVars,
    loopVars, busVars, inboxVars, MessagingAssumption, MessagingTypeOK, LoopInv, LockInv,
    HandledInv, Concluded, Delivered
<1> QED
    BY <1>1, <1>2, <1>3, <1>4, <1>5, <1>6, <1>7, <1>8, <1>9, <1>10, <1>11,
     <1>12, <1>13, <1>14, <1>15, <1>16, <1>17, <1>18, <1>19, <1>20, <1>21 DEF
     MessagingNext, UnitStep, RelayStep, DeliveryStep, Rest

\* The invariant holds of every reachable state.
THEOREM MessagingInvariant == MessagingSpec => []MessagingInv
<1>1. MessagingInit => MessagingInv
  BY MessagingAssumption DEF MessagingInit, MessagingInv, MessagingTypeOK, LoopInv, CommitInv, LockInv,
     WaitsForRunner, EffectInv, HandledInv, NoAttempts, NothingInFlight, NoDelivery, NoRecords, UowPc, RelayPc,
     DeliveryPc, MessagingAssumption, Relayers
<1>2. MessagingInv /\ [MessagingNext]_messagingVars => MessagingInv'
  BY MessagingAssumption, MessagesTypeStep, LoopStep, CommitStep, LockStep, WaitStep,
     EffectStep, HandledStep DEF MessagingInv
<1> QED
  BY <1>1, <1>2, PTL DEF MessagingSpec

\* Types of the outbox, the relay loops, the deliveries and the inbox.
THEOREM MessagesTyped == MessagingSpec => []MessagingTypeOK
<1>1. MessagingInv => MessagingTypeOK
  BY DEF MessagingInv
<1> QED
  BY <1>1, MessagingInvariant, PTL

\* With durable stores nothing is published, or handled, before its commit.
THEOREM NoPhantoms == MessagingSpec => []NoPhantom
<1>1. MessagingInv => NoPhantom
  BY MessagingAssumption DEF MessagingInv, MessagingTypeOK, CommitInv, NoPhantom, Announced,
     MessagingAssumption, Relayers
<1> QED
  BY <1>1, MessagingInvariant, PTL

\* No duplicate waits for a delivery that has ended, and no ended delivery is in the map.
THEOREM NobodyWaitsInVain == MessagingSpec => []WaitsForRunner
<1>1. MessagingInv => WaitsForRunner
  BY DEF MessagingInv
<1> QED
  BY <1>1, MessagingInvariant, PTL

\* A handler has its effect once, and once more at most per lapse, however many
\* relayers publish the event and however often a delivery is tried.
THEOREM EffectsAreBounded == MessagingSpec => []EffectsBounded
<1>1. MessagingInv => EffectsBounded
  BY DEF MessagingInv, EffectInv, EffectsBounded
<1> QED
  BY <1>1, MessagingInvariant, PTL

\* A row is marked relayed only when every consumer has handled or parked its event.
THEOREM MarkedRowsAreHandled == MessagingSpec => MarkedIsHandled
<1> DEFINE Safe == \A e \in relayed' \ relayed : \A c \in Consumers :
                      effects[c][e] > 0 \/ e \in dlq[c]
<1>1. MessagingInv /\ [MessagingNext]_messagingVars => [Safe]_messagingVars
  <2> SUFFICES ASSUME MessagingInv, [MessagingNext]_messagingVars, NEW e \in relayed' \ relayed,
                      NEW c \in Consumers
               PROVE  Concluded(c, e)
    BY DEF Concluded
  <2>1. ASSUME NEW r \in Relayers, MarkRelayed(r) PROVE Concluded(c, e)
    BY <2>1 DEF MessagingInv, HandledInv, MarkRelayed
  <2>2. CASE Restart
    BY <2>2 DEF Restart
  <2>3. ASSUME relayed' = relayed PROVE FALSE
    BY <2>3
  <2>4. ASSUME NEW u \in Units, UnitStep(u) PROVE relayed' = relayed
    BY <2>4 DEF UnitStep, Persist, CommitUnit, AbortUnit, RelayUnit, outboxVars
  <2>5. ASSUME NEW p \in Passes, RelayPending(p) PROVE relayed' = relayed
    BY <2>5 DEF RelayPending, outboxVars
  <2>6. ASSUME NEW r \in Relayers, Publish(r) \/ PublishFails(r) \/ PublishEnds(r)
        PROVE  relayed' = relayed
    BY <2>6 DEF Publish, PublishFails, PublishEnds, outboxVars
  <2>7. ASSUME NEW r \in Relayers, NEW b \in Consumers, DeliveryStep(r, b)
        PROVE  relayed' = relayed
    BY <2>7 DEF DeliveryStep, Join, Enter, Skip, Proceed, Handle, HandlerThrows, Mark,
       MarkFails, Retry, Park, outboxVars
  <2>8. CASE UNCHANGED messagingVars
    BY <2>3, <2>8 DEF messagingVars, outboxVars
  <2> QED
    BY <2>1, <2>2, <2>3, <2>4, <2>5, <2>6, <2>7, <2>8 DEF MessagingNext, RelayStep, Rest
<1> QED
  BY <1>1, MessagingInvariant, PTL DEF MessagingSpec, MarkedIsHandled
=============================================================================
