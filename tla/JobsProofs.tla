----------------------------- MODULE JobsProofs -----------------------------
(***************************************************************************)
(* Jobs for any number of jobs, ticks, cancels and rejected writes: a job    *)
(* has one attempt at a time, a dedupKey one live job, a finished job is     *)
(* never run again, nor one whose completion was stored, and a retry waits   *)
(* for its delay unless ticks overlap.                                       *)
(***************************************************************************)
EXTENDS Jobs, FiniteSetTheorems, TLAPS

Model == [status : Statuses, attempts : 0..MaxAttempts, due : BOOLEAN]
Pass == [at : {"none", "recover", "run", "handler"}, todo : SUBSET Ids, job : Ids \cup {NoId}, sees : SUBSET Ids]
Asking == [at : {"idle", "check", "persist", "done", "failed"}, found : BOOLEAN]

\* A job that may be run has an attempt left, and a job that is not stored has had none.
AttemptsInv ==
  \A i \in Ids : /\ stored[i].status \in Runnable => stored[i].attempts < MaxAttempts
                 /\ Has(i, "absent") => stored[i].attempts = 0
                 /\ enq[i].at \in {"idle", "check", "persist"} => Has(i, "absent")

\* While a handler runs the store says so.
HandlerInv == \A t \in Ticks, i \in Ids : InHandler(t, i) => Has(i, "running")

\* A completion that was stored is still there.
DoneInv == \A i \in inTime \ lost : Has(i, "completed")

\* Unless two enqueues with the key have raced: one of them at most is in progress, and the key is held by
\* the one job that is live or is about to be written.
Pending(e, k) == enq[e].at \in {"check", "persist"} /\ DedupKey[e] = k
Holds(i, k) == Live(i) /\ DedupKey[i] = k
KeyInv ==
  \A k \in Keys \ raced :
    /\ \A e, f \in Ids : Pending(e, k) /\ Pending(f, k) => e = f
    /\ \A i \in Ids : Holds(i, k) => dedup[k] = i
    /\ \A e \in Ids : Pending(e, k) /\ enq[e].at = "persist" =>
                        dedup[k] = e /\ \A i \in Ids : ~Holds(i, k)
    /\ \A e \in Ids : Pending(e, k) /\ enq[e].at = "check" /\ ~enq[e].found => \A i \in Ids : ~Holds(i, k)

\* A job that a tick has seen due, or has collected, is due unless it has been worked on since: by the tick
\* itself, which has struck it off its list, or by one that overlaps with it.
SeesInv ==
  \A t \in Ticks : \A i \in tick[t].sees : ~Has(i, "absent") /\ (stored[i].status \in Runnable => stored[i].due)
OneTick == ~overlap => \A t, u \in Ticks : Active(t) /\ Active(u) => t = u
Collected(t, i) ==
  \/ tick[t].at \in {"run", "handler"} /\ i \in tick[t].todo
  \/ tick[t].at = "run" /\ tick[t].job = i
RunInv ==
  \A t \in Ticks :
    /\ tick[t].at \in {"run", "handler"} => tick[t].job \notin tick[t].todo
    /\ \A i \in Ids : Collected(t, i) /\ Has(i, "retrying") => stored[i].due \/ overlap

IInv ==
  /\ TypeOK /\ AttemptsInv /\ HandlerInv /\ DoneInv /\ KeyInv
  /\ SeesInv /\ OneTick /\ RunInv

----------------------------------------------------------------------------
(******************************* PIECES ***********************************)

LEMMA Typed ==
  TypeOK => /\ stored \in [Ids -> Model] /\ enq \in [Ids -> Asking] /\ tick \in [Ticks -> Pass]
            /\ \A i \in Ids : stored[i] \in Model /\ enq[i] \in Asking
            /\ \A t \in Ticks : tick[t] \in Pass
BY DEF TypeOK, Model, Asking, Pass

LEMMA KindsOfStatus ==
  /\ "absent" \notin Runnable /\ "running" \notin Runnable /\ Runnable \cap Terminal = {}
  /\ "running" \notin Terminal /\ "absent" \notin Terminal
  /\ Runnable \subseteq Statuses /\ Terminal \subseteq Statuses /\ {"absent", "running"} \subseteq Statuses
  /\ "retrying" \in Runnable /\ "queued" \in Runnable /\ "scheduled" \in Runnable
  /\ "dead_letter" \in Terminal /\ "completed" \in Terminal /\ "cancelled" \in Terminal
BY DEF Runnable, Terminal, Statuses

\* The model of one job is written.
LEMMA Written ==
  ASSUME TypeOK, NEW i \in Ids, NEW m \in Model, stored' = [stored EXCEPT ![i] = m]
  PROVE  stored' \in [Ids -> Model] /\ stored'[i] = m /\ \A j \in Ids : j # i => stored'[j] = stored[j]
BY Typed

\* A failed attempt: the retry or the dead letter.
LEMMA FailureParts ==
  ASSUME TypeOK, NEW i \in Ids, Failure(i)
  PROVE  /\ stored' \in [Ids -> Model] /\ \A j \in Ids : j # i => stored'[j] = stored[j]
         /\ stored'[i].status \in {"retrying", "dead_letter"} /\ stored'[i].due = FALSE
         /\ stored'[i].attempts = stored[i].attempts
         /\ stored'[i].status = "retrying" => stored[i].attempts < MaxAttempts
<1> DEFINE m == [stored[i] EXCEPT !.status = IF stored[i].attempts < MaxAttempts THEN "retrying" ELSE "dead_letter",
                                  !.due = FALSE]
<1>1. stored[i] \in Model
  BY Typed
<1>2. m \in Model /\ m.due = FALSE /\ m.attempts = stored[i].attempts
      /\ m.status = IF stored[i].attempts < MaxAttempts THEN "retrying" ELSE "dead_letter"
  BY <1>1, KindsOfStatus DEF Model
<1>3. stored' = [stored EXCEPT ![i] = m]
  BY Typed DEF Failure
<1> HIDE DEF m
<1>4. stored' \in [Ids -> Model] /\ stored'[i] = m /\ \A j \in Ids : j # i => stored'[j] = stored[j]
  BY <1>2, <1>3, Written
<1> QED
  BY <1>2, <1>4

\* A job that was worked on is not seen as due by any tick.
LEMMA UnseenParts ==
  ASSUME NEW i \in Ids, NEW ticks \in [Ticks -> Pass], tick' = Unseen(i, ticks)
  PROVE  /\ tick' \in [Ticks -> Pass]
         /\ \A u \in Ticks : /\ tick'[u].at = ticks[u].at /\ tick'[u].todo = ticks[u].todo
                             /\ tick'[u].job = ticks[u].job /\ tick'[u].sees = ticks[u].sees \ {i}
<1>1. \A u \in Ticks : tick'[u] = [ticks[u] EXCEPT !.sees = @ \ {i}]
  BY DEF Unseen
<1>2. \A u \in Ticks : ticks[u] \in Pass
  OBVIOUS
<1>3. \A u \in Ticks : [ticks[u] EXCEPT !.sees = @ \ {i}] \in Pass
  BY <1>2 DEF Pass
<1> QED
  BY <1>1, <1>2, <1>3 DEF Unseen, Pass

\* One call of tick goes on, and the others are where they were.
LEMMA TickParts ==
  ASSUME TypeOK, NEW t \in Ticks, NEW p \in Pass
  PROVE  /\ [tick EXCEPT ![t] = p] \in [Ticks -> Pass] /\ [tick EXCEPT ![t] = p][t] = p
         /\ \A u \in Ticks : u # t => [tick EXCEPT ![t] = p][u] = tick[u]
BY Typed

LEMMA NoTickIsPass == NoTick \in Pass
BY DEF NoTick, Pass

\* A chain that is joined keeps its head.
LEMMA JoinParts ==
  ASSUME TypeOK, NEW i \in Ids, NEW p \in Ticks \cup Cancels, Join(i, p)
  PROVE  /\ chain' \in [Ids -> Seq(Ticks \cup Cancels)]
         /\ \A j \in Ids : \A q : First(j, q) => First(j, q)'
<1>1. chain \in [Ids -> Seq(Ticks \cup Cancels)]
  BY DEF TypeOK
<1>2. chain' \in [Ids -> Seq(Ticks \cup Cancels)]
  BY <1>1 DEF Join
<1>3. \A j \in Ids : chain[j] # <<>> => chain'[j] # <<>> /\ Head(chain'[j]) = Head(chain[j])
  <2> SUFFICES ASSUME NEW j \in Ids, chain[j] # <<>> PROVE chain'[j] # <<>> /\ Head(chain'[j]) = Head(chain[j])
    OBVIOUS
  <2>1. chain[j] \in Seq(Ticks \cup Cancels)
    BY <1>1
  <2>2. Append(chain[j], p) # <<>> /\ Head(Append(chain[j], p)) = Head(chain[j])
    BY <2>1, SMTT(30)
  <2>3. chain'[j] \in {chain[j], Append(chain[j], p)}
    BY <1>1 DEF Join
  <2> QED
    BY <2>2, <2>3
<1> QED
  BY <1>2, <1>3 DEF First

\* The first of a chain leaves it.
LEMMA LeaveParts ==
  ASSUME TypeOK, NEW i \in Ids, chain[i] # <<>>, Leave(i)
  PROVE  /\ chain' \in [Ids -> Seq(Ticks \cup Cancels)]
         /\ \A j \in Ids : j # i => chain'[j] = chain[j]
<1>1. chain \in [Ids -> Seq(Ticks \cup Cancels)] /\ chain[i] \in Seq(Ticks \cup Cancels)
  BY DEF TypeOK
<1>2. Tail(chain[i]) \in Seq(Ticks \cup Cancels)
  BY <1>1, SMTT(30)
<1> QED
  BY <1>1, <1>2 DEF Leave

----------------------------------------------------------------------------
(******************************* STEPS ************************************)

\* A call of tick takes its step, and the lists of the others stay what they are.
Same(u) == /\ tick'[u].at = tick[u].at /\ tick'[u].todo = tick[u].todo /\ tick'[u].job = tick[u].job
           /\ tick'[u].sees \subseteq tick[u].sees
Others(t) == tick' \in [Ticks -> Pass] /\ \A u \in Ticks : u # t => Same(u)

LEMMA MovesTick ==
  ASSUME TypeOK, NEW t \in Ticks, NEW p \in Pass, tick' = [tick EXCEPT ![t] = p]
  PROVE  Others(t) /\ tick'[t] = p
BY TickParts DEF Others, Same

LEMMA MovesUnseen ==
  ASSUME TypeOK, NEW t \in Ticks, NEW p \in Pass, NEW i \in Ids, tick' = Unseen(i, [tick EXCEPT ![t] = p])
  PROVE  /\ Others(t) /\ tick'[t].at = p.at /\ tick'[t].todo = p.todo /\ tick'[t].job = p.job
         /\ tick'[t].sees \subseteq p.sees /\ \A u \in Ticks : i \notin tick'[u].sees
<1> DEFINE ticks == [tick EXCEPT ![t] = p]
<1>1. ticks \in [Ticks -> Pass] /\ ticks[t] = p /\ \A u \in Ticks : u # t => ticks[u] = tick[u]
  BY TickParts
<1>2. tick' = Unseen(i, ticks)
  OBVIOUS
<1> HIDE DEF ticks
<1>3. /\ tick' \in [Ticks -> Pass]
      /\ \A u \in Ticks : /\ tick'[u].at = ticks[u].at /\ tick'[u].todo = ticks[u].todo
                          /\ tick'[u].job = ticks[u].job /\ tick'[u].sees = ticks[u].sees \ {i}
  <2>1. ticks \in [Ticks -> Pass] /\ i \in Ids
    BY <1>1
  <2> QED
    BY ONLY <1>2, <2>1, UnseenParts, ZenonT(60)
<1>4. Others(t)
  <2>1. ASSUME NEW u \in Ticks, u # t PROVE Same(u)
    <3>1. ticks[u] = tick[u]
      BY <1>1, <2>1
    <3>2. /\ tick'[u].at = ticks[u].at /\ tick'[u].todo = ticks[u].todo
          /\ tick'[u].job = ticks[u].job /\ tick'[u].sees = ticks[u].sees \ {i}
      BY <1>3
    <3> QED
      BY <3>1, <3>2 DEF Same
  <2> QED
    BY <1>3, <2>1 DEF Others
<1>5. /\ tick'[t].at = p.at /\ tick'[t].todo = p.todo /\ tick'[t].job = p.job /\ tick'[t].sees \subseteq p.sees
  BY <1>1, <1>3
<1>6. \A u \in Ticks : i \notin tick'[u].sees
  BY <1>3
<1> QED
  BY <1>4, <1>5, <1>6

LEMMA TickCallParts ==
  ASSUME TypeOK, NEW t \in Ticks, TickCall(t)
  PROVE  /\ Others(t) /\ tick'[t].at = "recover" /\ tick'[t].job = NoId
         /\ tick'[t].sees = {i \in Ids : stored[i].status \in Runnable /\ stored[i].due}
<1> DEFINE p == [at |-> "recover", todo |-> {i \in Ids : Has(i, "running") /\ stored[i].due}, job |-> NoId,
                 sees |-> {i \in Ids : stored[i].status \in Runnable /\ stored[i].due}]
<1>1. p \in Pass /\ p.at = "recover" /\ p.job = NoId
      /\ p.sees = {i \in Ids : stored[i].status \in Runnable /\ stored[i].due}
  BY DEF Pass
<1>2. tick' = [tick EXCEPT ![t] = p]
  BY DEF TickCall
<1> HIDE DEF p
<1> QED
  BY <1>1, <1>2, MovesTick

LEMMA RecoverNextParts ==
  ASSUME TypeOK, NEW t \in Ticks, RecoverNext(t)
  PROVE  /\ Others(t) /\ tick[t].at = "recover" /\ tick'[t].at = "recover" /\ tick'[t].sees = tick[t].sees
         /\ UNCHANGED chain \/ \E i \in Ids : Join(i, t)
<1>1. PICK i \in tick[t].todo :
        IF Has(i, "running")
        THEN tick' = [tick EXCEPT ![t].todo = @ \ {i}, ![t].job = i] /\ Join(i, t)
        ELSE tick' = [tick EXCEPT ![t].todo = @ \ {i}] /\ UNCHANGED chain
  BY DEF RecoverNext
<1>2. tick[t] \in Pass /\ tick[t].at = "recover" /\ i \in Ids
  BY <1>1, Typed DEF RecoverNext, Pass
<1> DEFINE p == [tick[t] EXCEPT !.todo = @ \ {i}]
<1> DEFINE q == [p EXCEPT !.job = i]
<1>3. p \in Pass /\ p.at = "recover" /\ p.sees = tick[t].sees
  BY <1>2 DEF Pass
<1>4. q \in Pass /\ q.at = "recover" /\ q.sees = tick[t].sees
  BY <1>2, <1>3 DEF Pass
<1>5. CASE Has(i, "running")
  <2>1. tick' = [tick EXCEPT ![t] = q]
    BY <1>1, <1>5, Typed
  <2> QED
    BY <1>1, <1>2, <1>4, <1>5, <2>1, MovesTick
<1>6. CASE ~Has(i, "running")
  <2>1. tick' = [tick EXCEPT ![t] = p]
    BY <1>1, <1>6, Typed
  <2> QED
    BY <1>1, <1>2, <1>3, <1>6, <2>1, MovesTick
<1> QED
  BY <1>5, <1>6

LEMMA CollectParts ==
  ASSUME TypeOK, NEW t \in Ticks, Collect(t)
  PROVE  /\ Others(t) /\ tick[t].at = "recover" /\ tick'[t].at = "run" /\ tick'[t].sees = {} /\ tick'[t].job = NoId
         /\ tick'[t].todo = {i \in Ids : stored[i].status \in Runnable /\ (Has(i, "queued") \/ i \in tick[t].sees)}
<1> DEFINE due == {i \in Ids : stored[i].status \in Runnable /\ (Has(i, "queued") \/ i \in tick[t].sees)}
<1>1. tick[t] \in Pass /\ tick[t].at = "recover" /\ tick[t].job = NoId
  BY Typed DEF Collect
<1> DEFINE p == [tick[t] EXCEPT !.at = "run"]
<1> DEFINE q == [p EXCEPT !.sees = {}]
<1> DEFINE r == [q EXCEPT !.todo = due]
<1>2. p \in Pass /\ p.at = "run" /\ p.job = NoId
  BY <1>1 DEF Pass
<1>3. q \in Pass /\ q.at = "run" /\ q.job = NoId /\ q.sees = {}
  BY <1>2 DEF Pass
<1>4. r \in Pass /\ r.at = "run" /\ r.job = NoId /\ r.sees = {} /\ r.todo = due
  BY <1>3 DEF Pass
<1>5. tick' = [tick EXCEPT ![t] = r]
  BY Typed DEF Collect
<1> HIDE DEF p, q, r
<1> QED
  BY <1>1, <1>4, <1>5, MovesTick

LEMMA RunNextParts ==
  ASSUME TypeOK, NEW t \in Ticks, RunNext(t)
  PROVE  /\ Others(t) /\ tick[t].at = "run" /\ tick'[t].sees \subseteq tick[t].sees
         /\ \/ tick'[t].at = "none" /\ tick'[t].job = NoId /\ tick'[t].todo = {} /\ UNCHANGED chain
            \/ \E i \in tick[t].todo : /\ i \in Ids /\ tick'[t].at = "run" /\ tick'[t].job = i
                                       /\ tick'[t].todo = tick[t].todo \ {i} /\ Join(i, t)
<1>1. tick[t] \in Pass /\ tick[t].at = "run"
  BY Typed DEF RunNext
<1>2. CASE tick[t].todo = {}
  <2>1. tick' = [tick EXCEPT ![t] = NoTick] /\ UNCHANGED chain
    BY <1>2 DEF RunNext
  <2>2. Others(t) /\ tick'[t] = NoTick
    BY <2>1, MovesTick, NoTickIsPass
  <2> QED
    BY <1>1, <2>1, <2>2 DEF NoTick
<1>3. CASE tick[t].todo # {}
  <2>1. PICK i \in tick[t].todo : tick' = [tick EXCEPT ![t].todo = @ \ {i}, ![t].job = i] /\ Join(i, t)
    BY <1>3 DEF RunNext
  <2> DEFINE p == [tick[t] EXCEPT !.todo = @ \ {i}]
  <2> DEFINE q == [p EXCEPT !.job = i]
  <2>2. i \in Ids
    BY <1>1 DEF Pass
  <2>3. p \in Pass /\ p.at = "run" /\ p.sees = tick[t].sees /\ p.todo = tick[t].todo \ {i}
    BY <1>1 DEF Pass
  <2>4. q \in Pass /\ q.at = "run" /\ q.sees = tick[t].sees /\ q.todo = tick[t].todo \ {i} /\ q.job = i
    BY <2>2, <2>3 DEF Pass
  <2>5. tick' = [tick EXCEPT ![t] = q]
    BY <2>1, Typed
  <2> HIDE DEF p, q
  <2>6. Others(t) /\ tick'[t] = q
    BY <2>4, <2>5, MovesTick
  <2>7. /\ tick'[t].at = "run" /\ tick'[t].job = i /\ tick'[t].todo = tick[t].todo \ {i}
        /\ tick'[t].sees \subseteq tick[t].sees
    BY <2>4, <2>6
  <2> QED
    BY <1>1, <2>1, <2>2, <2>6, <2>7
<1> QED
  BY <1>2, <1>3

\* A tick is through with a job: it goes on with its list, or its promise rejects.
Left(t) ==
  /\ Others(t) /\ tick'[t].job = NoId /\ tick'[t].at # "handler"
  /\ tick'[t].todo \subseteq tick[t].todo /\ tick'[t].sees \subseteq tick[t].sees
  /\ tick[t].at = "recover" => tick'[t].at \in {"recover", "none"}
  /\ tick[t].at \in {"run", "handler"} => tick'[t].at \in {"run", "none"}

LEMMA RejectsParts ==
  ASSUME TypeOK, NEW t \in Ticks, NEW i \in Ids, Rejects(t, i)
  PROVE  Left(t) /\ Leave(i)
<1>1. Others(t) /\ tick'[t] = NoTick
  BY MovesTick, NoTickIsPass DEF Rejects
<1> QED
  BY <1>1 DEF Rejects, Left, NoTick

LEMMA NoJob ==
  ASSUME TypeOK, NEW t \in Ticks
  PROVE  LET p == [tick[t] EXCEPT !.job = NoId]
         IN  /\ p \in Pass /\ p.at = tick[t].at /\ p.todo = tick[t].todo /\ p.job = NoId /\ p.sees = tick[t].sees
             /\ [tick EXCEPT ![t].job = NoId] = [tick EXCEPT ![t] = p]
<1>1. tick[t] \in Pass
  BY Typed
<1> QED
  BY <1>1, Typed DEF Pass

LEMMA OnwardParts ==
  ASSUME TypeOK, NEW t \in Ticks, NEW i \in Ids, Onward(t, i), tick[t].at # "handler"
  PROVE  Left(t) /\ Leave(i)
<1> DEFINE p == [tick[t] EXCEPT !.job = NoId]
<1>1. p \in Pass /\ p.at = tick[t].at /\ p.todo = tick[t].todo /\ p.job = NoId /\ p.sees = tick[t].sees
  BY NoJob
<1>2. tick' = [tick EXCEPT ![t] = p] /\ Leave(i)
  BY NoJob DEF Onward
<1> HIDE DEF p
<1>3. Others(t) /\ tick'[t] = p
  BY <1>1, <1>2, MovesTick
<1> QED
  BY <1>1, <1>2, <1>3 DEF Left

LEMMA GoesOnParts ==
  ASSUME TypeOK, NEW t \in Ticks, tick[t].at = "handler"
  PROVE  \E p \in Pass : /\ GoesOn(t) = [tick EXCEPT ![t] = p]
                         /\ p.at = "run" /\ p.todo = tick[t].todo /\ p.job = NoId /\ p.sees = tick[t].sees
<1> DEFINE p == [tick[t] EXCEPT !.at = "run"]
<1> DEFINE q == [p EXCEPT !.job = NoId]
<1>1. tick[t] \in Pass
  BY Typed
<1>2. p \in Pass /\ p.at = "run" /\ p.todo = tick[t].todo /\ p.sees = tick[t].sees
  BY <1>1 DEF Pass
<1>3. q \in Pass /\ q.at = "run" /\ q.todo = tick[t].todo /\ q.sees = tick[t].sees /\ q.job = NoId
  BY <1>2 DEF Pass
<1>4. GoesOn(t) = [tick EXCEPT ![t] = q]
  BY Typed DEF GoesOn
<1> HIDE DEF p, q
<1> QED
  BY <1>3, <1>4

\* The recovery pass fails a job it finds running, or leaves it.
LEMMA RecoverParts ==
  ASSUME TypeOK, NEW t \in Ticks, Recover(t)
  PROVE  \E i \in Ids :
           /\ First(i, t) /\ tick[t].at = "recover" /\ Left(t) /\ Leave(i)
           /\ \/ UNCHANGED stored
              \/ Has(i, "running") /\ Failure(i) /\ \A u \in Ticks : i \notin tick'[u].sees
<1>0. PICK i \in Ids : i = tick[t].job
  BY Typed DEF Recover, Pass
<1>1. tick[t].at = "recover" /\ First(i, t)
  BY <1>0 DEF Recover
<1>2. CASE Onward(t, i) /\ UNCHANGED stored
  BY <1>1, <1>2, OnwardParts
<1>3. CASE Has(i, "running") /\ Failure(i) /\ Leave(i) /\ tick' = Unseen(i, [tick EXCEPT ![t].job = NoId])
  <2> DEFINE p == [tick[t] EXCEPT !.job = NoId]
  <2>1. p \in Pass /\ p.at = tick[t].at /\ p.todo = tick[t].todo /\ p.job = NoId /\ p.sees = tick[t].sees
    BY NoJob
  <2>2. tick' = Unseen(i, [tick EXCEPT ![t] = p])
    BY <1>3, NoJob
  <2> HIDE DEF p
  <2>3. /\ Others(t) /\ tick'[t].at = p.at /\ tick'[t].todo = p.todo /\ tick'[t].job = p.job
        /\ tick'[t].sees \subseteq p.sees /\ \A u \in Ticks : i \notin tick'[u].sees
    BY <1>1, <2>1, <2>2, MovesUnseen
  <2> QED
    BY <1>1, <1>3, <2>1, <2>3 DEF Left
<1>4. CASE Rejects(t, i) /\ UNCHANGED stored
  BY <1>1, <1>4, RejectsParts
<1> QED
  BY <1>0, <1>2, <1>3, <1>4 DEF Recover

\* A job begins its attempt when it may still be run.
LEMMA BeginParts ==
  ASSUME TypeOK, AttemptsInv, NEW t \in Ticks, Begin(t)
  PROVE  \E i \in Ids :
           /\ First(i, t) /\ tick[t].at = "run" /\ tick[t].job = i
           /\ \/ UNCHANGED stored /\ Left(t) /\ Leave(i)
              \/ /\ stored[i].status \in Runnable
                 /\ stored' \in [Ids -> Model] /\ \A j \in Ids : j # i => stored'[j] = stored[j]
                 /\ stored'[i].status = "running" /\ stored'[i].attempts = stored[i].attempts + 1
                 /\ Others(t) /\ tick'[t].at = "handler" /\ tick'[t].todo = tick[t].todo /\ tick'[t].job = i
                 /\ tick'[t].sees \subseteq tick[t].sees /\ \A u \in Ticks : i \notin tick'[u].sees
                 /\ UNCHANGED chain
<1>0. PICK i \in Ids : i = tick[t].job
  BY Typed DEF Begin, Pass
<1>1. tick[t].at = "run" /\ First(i, t)
  BY <1>0 DEF Begin
<1>2. CASE Onward(t, i) /\ UNCHANGED stored
  BY <1>0, <1>1, <1>2, OnwardParts
<1>3. CASE Rejects(t, i) /\ UNCHANGED stored
  BY <1>0, <1>1, <1>3, RejectsParts
<1>4. ASSUME stored[i].status \in Runnable, NEW over \in BOOLEAN,
             stored' = [stored EXCEPT ![i] = [status |-> "running", attempts |-> @.attempts + 1, due |-> over]],
             tick' = Unseen(i, [tick EXCEPT ![t].at = "handler"]), UNCHANGED chain
      PROVE  /\ stored' \in [Ids -> Model] /\ \A j \in Ids : j # i => stored'[j] = stored[j]
             /\ stored'[i].status = "running" /\ stored'[i].attempts = stored[i].attempts + 1
             /\ Others(t) /\ tick'[t].at = "handler" /\ tick'[t].todo = tick[t].todo /\ tick'[t].job = i
             /\ tick'[t].sees \subseteq tick[t].sees /\ \A u \in Ticks : i \notin tick'[u].sees
  <2> DEFINE m == [status |-> "running", attempts |-> stored[i].attempts + 1, due |-> over]
  <2>1. stored[i].attempts + 1 \in 0..MaxAttempts
    <3>1. stored[i].attempts < MaxAttempts /\ stored[i].attempts \in 0..MaxAttempts
      BY <1>1, <1>4, Typed DEF AttemptsInv, Model
    <3> QED
      BY <3>1, ConstantsAssumption, SMTT(30)
  <2>2. m \in Model /\ m.status = "running" /\ m.attempts = stored[i].attempts + 1
    BY <2>1, KindsOfStatus DEF Model
  <2>3. stored' = [stored EXCEPT ![i] = m]
    BY <1>1, <1>4, Typed
  <2>4. PICK p \in Pass : /\ [tick EXCEPT ![t].at = "handler"] = [tick EXCEPT ![t] = p]
                          /\ p.at = "handler" /\ p.todo = tick[t].todo /\ p.job = i /\ p.sees = tick[t].sees
    <3> DEFINE q == [tick[t] EXCEPT !.at = "handler"]
    <3>1. tick[t] \in Pass
      BY Typed
    <3>2. q \in Pass /\ q.at = "handler" /\ q.todo = tick[t].todo /\ q.job = i /\ q.sees = tick[t].sees
      BY <1>0, <3>1 DEF Pass
    <3>3. [tick EXCEPT ![t].at = "handler"] = [tick EXCEPT ![t] = q]
      BY Typed
    <3> HIDE DEF q
    <3> QED
      BY <3>2, <3>3
  <2>5. tick' = Unseen(i, [tick EXCEPT ![t] = p])
    BY <1>4, <2>4
  <2> HIDE DEF m
  <2>6. stored' \in [Ids -> Model] /\ stored'[i] = m /\ \A j \in Ids : j # i => stored'[j] = stored[j]
    BY <1>1, <2>2, <2>3, Written
  <2>7. /\ Others(t) /\ tick'[t].at = p.at /\ tick'[t].todo = p.todo /\ tick'[t].job = p.job
        /\ tick'[t].sees \subseteq p.sees /\ \A u \in Ticks : i \notin tick'[u].sees
    BY <2>5, MovesUnseen
  <2> QED
    BY <2>2, <2>4, <2>6, <2>7
<1> QED
  BY <1>0, <1>1, <1>2, <1>3, <1>4 DEF Begin

\* A handler ends: the job is completed, has failed, or is left as it was.
LEMMA HandlerEndsParts ==
  ASSUME TypeOK, NEW t \in Ticks, NEW i \in Ids, Complete(t, i) \/ Fail(t, i) \/ CompletionLost(t, i) \/ Orphan(t, i)
  PROVE  /\ InHandler(t, i) /\ First(i, t) /\ Left(t) /\ Leave(i)
         /\ \/ /\ Complete(t, i) /\ stored' \in [Ids -> Model] /\ \A j \in Ids : j # i => stored'[j] = stored[j]
               /\ stored'[i].status = "completed" /\ stored'[i].attempts = stored[i].attempts
            \/ Failure(i) /\ \A u \in Ticks : i \notin tick'[u].sees
            \/ UNCHANGED stored
<1>1. InHandler(t, i) /\ First(i, t) /\ tick[t].at = "handler" /\ Leave(i)
  BY DEF Complete, Fail, CompletionLost, Orphan, InHandler, TypeOK, Rejects
<1>2. PICK p \in Pass : /\ GoesOn(t) = [tick EXCEPT ![t] = p]
                        /\ p.at = "run" /\ p.todo = tick[t].todo /\ p.job = NoId /\ p.sees = tick[t].sees
  BY <1>1, GoesOnParts
<1>3. CASE Complete(t, i)
  <2> DEFINE m == [stored[i] EXCEPT !.status = "completed"]
  <2>1. stored[i] \in Model
    BY Typed
  <2>2. m \in Model /\ m.status = "completed" /\ m.attempts = stored[i].attempts
    BY <2>1, KindsOfStatus DEF Model
  <2>3. stored' = [stored EXCEPT ![i] = m]
    BY <1>3, Typed DEF Complete
  <2> HIDE DEF m
  <2>4. stored' \in [Ids -> Model] /\ stored'[i] = m /\ \A j \in Ids : j # i => stored'[j] = stored[j]
    BY <2>2, <2>3, Written
  <2>5. Others(t) /\ tick'[t] = p
    BY <1>2, <1>3, MovesTick DEF Complete
  <2> QED
    BY <1>1, <1>2, <1>3, <2>2, <2>4, <2>5 DEF Left
<1>4. CASE Fail(t, i) \/ CompletionLost(t, i)
  <2>1. Failure(i) /\ tick' = Unseen(i, [tick EXCEPT ![t] = p])
    BY <1>2, <1>4 DEF Fail, CompletionLost
  <2>2. /\ Others(t) /\ tick'[t].at = p.at /\ tick'[t].todo = p.todo /\ tick'[t].job = p.job
        /\ tick'[t].sees \subseteq p.sees /\ \A u \in Ticks : i \notin tick'[u].sees
    BY <2>1, MovesUnseen
  <2> QED
    BY <1>1, <1>2, <2>1, <2>2 DEF Left
<1>5. CASE Orphan(t, i)
  BY <1>1, <1>5, RejectsParts DEF Orphan
<1> QED
  BY <1>3, <1>4, <1>5

\* What a step does to one job.
JobStep(i) ==
  \/ stored'[i] = stored[i]
  \/ /\ enq[i].at = "persist" /\ enq'[i].at = "done"
     /\ stored'[i].status \in {"queued", "scheduled"} /\ stored'[i].attempts = stored[i].attempts
  \/ /\ Live(i) /\ stored'[i].status = stored[i].status /\ stored'[i].attempts = stored[i].attempts
     /\ stored'[i].due = TRUE
  \/ /\ Has(i, "running") /\ stored'[i].status \in {"retrying", "dead_letter"}
     /\ stored'[i].attempts = stored[i].attempts
     /\ stored'[i].status = "retrying" => stored[i].attempts < MaxAttempts
     /\ \A u \in Ticks : i \notin tick'[u].sees
  \/ /\ stored[i].status \in Runnable /\ stored'[i].status = "running"
     /\ stored'[i].attempts = stored[i].attempts + 1
     /\ \E t \in Ticks : tick[t].at = "run" /\ tick[t].job = i
     /\ \A u \in Ticks : i \notin tick'[u].sees
  \/ Has(i, "running") /\ stored'[i].status = "completed" /\ stored'[i].attempts = stored[i].attempts
  \/ stored[i].status \in Runnable /\ stored'[i].status = "cancelled" /\ stored'[i].attempts = stored[i].attempts

LEMMA JobSteps ==
  ASSUME TypeOK, AttemptsInv, HandlerInv, [Next]_vars
  PROVE  stored' \in [Ids -> Model] /\ \A i \in Ids : JobStep(i)
<1> DEFINE Goal == stored' \in [Ids -> Model] /\ \A i \in Ids : JobStep(i)
<1>1. ASSUME UNCHANGED stored PROVE Goal
  BY <1>1, Typed DEF JobStep
<1>2. ASSUME NEW i \in Ids, stored' \in [Ids -> Model], \A j \in Ids : j # i => stored'[j] = stored[j], JobStep(i)
      PROVE  Goal
  BY <1>2 DEF JobStep
<1>3. ASSUME NEW i \in Ids, Enqueue(i) \/ Check(i) PROVE Goal
  BY <1>1, <1>3 DEF Enqueue, Check
<1>4. ASSUME NEW i \in Ids, Persist(i) PROVE Goal
  <2>1. CASE UNCHANGED stored
    BY <1>1, <2>1
  <2>2. ASSUME NEW s \in {"queued", "scheduled"},
               stored' = [stored EXCEPT ![i].status = s, ![i].due = (s = "queued")], enq' = [enq EXCEPT ![i].at = "done"]
        PROVE  Goal
    <3> DEFINE p == [stored[i] EXCEPT !.status = s]
    <3> DEFINE m == [p EXCEPT !.due = (s = "queued")]
    <3>1. p \in Model /\ p.status = s /\ p.attempts = stored[i].attempts
      <4>1. stored[i] \in Model /\ s \in Statuses
        BY Typed, KindsOfStatus
      <4> QED
        BY <4>1 DEF Model
    <3>2. m \in Model /\ m.status = s /\ m.attempts = stored[i].attempts
      BY <3>1 DEF Model
    <3>3. stored' = [stored EXCEPT ![i] = m]
      BY <2>2, Typed
    <3>4. enq[i].at = "persist" /\ enq'[i].at = "done"
      BY <1>4, <2>2, Typed DEF Persist, Asking
    <3> HIDE DEF m, p
    <3>5. stored' \in [Ids -> Model] /\ stored'[i] = m /\ \A j \in Ids : j # i => stored'[j] = stored[j]
      BY <3>2, <3>3, Written
    <3> QED
      BY <1>2, <3>2, <3>4, <3>5 DEF JobStep
  <2> QED
    BY <1>4, <2>1, <2>2 DEF Persist
<1>5. ASSUME NEW i \in Ids, Elapse(i) PROVE Goal
  <2> DEFINE m == [stored[i] EXCEPT !.due = TRUE]
  <2>1. stored[i] \in Model
    BY Typed
  <2>2. m \in Model /\ m.status = stored[i].status /\ m.attempts = stored[i].attempts /\ m.due = TRUE
    BY <2>1 DEF Model
  <2>3. stored' = [stored EXCEPT ![i] = m] /\ Live(i)
    BY <1>5, Typed DEF Elapse
  <2> HIDE DEF m
  <2>4. stored' \in [Ids -> Model] /\ stored'[i] = m /\ \A j \in Ids : j # i => stored'[j] = stored[j]
    BY <2>2, <2>3, Written
  <2> QED
    BY <1>2, <2>2, <2>3, <2>4 DEF JobStep
<1>6. ASSUME NEW t \in Ticks, TickCall(t) \/ RecoverNext(t) \/ Collect(t) \/ RunNext(t) PROVE Goal
  BY <1>1, <1>6 DEF TickCall, RecoverNext, Collect, RunNext
<1>7. ASSUME NEW i \in Ids, Has(i, "running"), Failure(i), \A u \in Ticks : i \notin tick'[u].sees PROVE Goal
  BY <1>2, <1>7, FailureParts DEF JobStep
<1>8. ASSUME NEW t \in Ticks, Recover(t) PROVE Goal
  BY <1>1, <1>7, <1>8, RecoverParts
<1>9. ASSUME NEW t \in Ticks, Begin(t) PROVE Goal
  <2>1. CASE UNCHANGED stored
    BY <1>1, <2>1
  <2>2. CASE ~UNCHANGED stored
    <3>1. PICK i \in Ids :
              /\ tick[t].at = "run" /\ tick[t].job = i /\ stored[i].status \in Runnable
              /\ stored' \in [Ids -> Model] /\ \A j \in Ids : j # i => stored'[j] = stored[j]
              /\ stored'[i].status = "running" /\ stored'[i].attempts = stored[i].attempts + 1
              /\ \A u \in Ticks : i \notin tick'[u].sees
      BY <1>9, <2>2, BeginParts
    <3> QED
      BY <1>2, <3>1 DEF JobStep
  <2> QED
    BY <2>1, <2>2
<1>10. ASSUME NEW t \in Ticks, HandlerEnds(t) PROVE Goal
  <2>1. PICK i \in Ids : Complete(t, i) \/ Fail(t, i) \/ CompletionLost(t, i) \/ Orphan(t, i)
    BY <1>10 DEF HandlerEnds
  <2>2. Has(i, "running")
    BY <2>1, HandlerEndsParts DEF HandlerInv
  <2>3. CASE UNCHANGED stored
    BY <1>1, <2>3
  <2>4. CASE Failure(i) /\ \A u \in Ticks : i \notin tick'[u].sees
    BY <1>7, <2>2, <2>4
  <2>5. CASE /\ stored' \in [Ids -> Model] /\ \A j \in Ids : j # i => stored'[j] = stored[j]
             /\ stored'[i].status = "completed" /\ stored'[i].attempts = stored[i].attempts
    BY <1>2, <2>2, <2>5 DEF JobStep
  <2> QED
    BY <2>1, <2>3, <2>4, <2>5, HandlerEndsParts
<1>11. ASSUME NEW c \in Cancels, Cancel(c) PROVE Goal
  <2>1. CASE UNCHANGED stored
    BY <1>1, <2>1
  <2>2. CASE ~UNCHANGED stored
    <3>0. PICK i \in Ids : i = cancel[c]
      BY <1>11 DEF Cancel, TypeOK
    <3>1. /\ stored[i].status \in Runnable
          /\ stored' = [stored EXCEPT ![i].status = "cancelled", ![i].due = FALSE]
      BY <1>11, <2>2, <3>0 DEF Cancel
    <3> DEFINE p == [stored[i] EXCEPT !.status = "cancelled"]
    <3> DEFINE m == [p EXCEPT !.due = FALSE]
    <3>2. p \in Model /\ p.status = "cancelled" /\ p.attempts = stored[i].attempts
      <4>1. stored[i] \in Model
        BY Typed
      <4> QED
        BY <4>1, KindsOfStatus DEF Model
    <3>3. m \in Model /\ m.status = "cancelled" /\ m.attempts = stored[i].attempts
      BY <3>2 DEF Model
    <3>4. stored' = [stored EXCEPT ![i] = m]
      BY <3>1, Typed
    <3> HIDE DEF m, p
    <3>5. stored' \in [Ids -> Model] /\ stored'[i] = m /\ \A j \in Ids : j # i => stored'[j] = stored[j]
      BY <3>3, <3>4, Written
    <3> QED
      BY <1>2, <3>1, <3>3, <3>5 DEF JobStep
  <2> QED
    BY <2>1, <2>2
<1>12. ASSUME NEW c \in Cancels, NEW i \in Ids, CancelCall(c, i) PROVE Goal
  BY <1>1, <1>12 DEF CancelCall
<1>13. CASE UNCHANGED vars
  BY <1>1, <1>13 DEF vars
<1> QED
  BY <1>3, <1>4, <1>5, <1>6, <1>8, <1>9, <1>10, <1>11, <1>12, <1>13 DEF Next, Step

----------------------------------------------------------------------------
(******************************* TYPES ************************************)

\* Whoever works on a job is first on its chain, and no other is.
LEMMA WorkNext ==
  ASSUME TypeOK, AttemptsInv, HandlerInv, [Next]_vars
  PROVE  /\ chain' \in [Ids -> Seq(Ticks \cup Cancels)] /\ tick' \in [Ticks -> Pass]
         /\ \A t \in Ticks, i \in Ids : InHandler(t, i)' => First(i, t)' /\ Has(i, "running")'
<1> DEFINE Works(t, i) == InHandler(t, i)' => First(i, t)' /\ Has(i, "running")'
<1> DEFINE Goal == /\ chain' \in [Ids -> Seq(Ticks \cup Cancels)] /\ tick' \in [Ticks -> Pass]
                   /\ \A t \in Ticks, i \in Ids : Works(t, i)
<1>1. \A t \in Ticks, i \in Ids : InHandler(t, i) => First(i, t) /\ Has(i, "running")
  BY DEF TypeOK, HandlerInv
<1>2. ASSUME UNCHANGED chain \/ (\E i \in Ids, p \in Ticks \cup Cancels : Join(i, p)),
             tick' \in [Ticks -> Pass],
             \A t \in Ticks, i \in Ids : InHandler(t, i)' => InHandler(t, i),
             \A i \in Ids : Has(i, "running") => Has(i, "running")'
      PROVE  Goal
  <2>1. chain' \in [Ids -> Seq(Ticks \cup Cancels)] /\ \A i \in Ids : \A q : First(i, q) => First(i, q)'
    BY <1>2, JoinParts DEF TypeOK, First
  <2> QED
    BY <1>1, <1>2, <2>1
<1>3. UNCHANGED tick => tick' \in [Ticks -> Pass] /\ \A t \in Ticks, i \in Ids : InHandler(t, i)' => InHandler(t, i)
  BY Typed DEF InHandler
<1>4. UNCHANGED stored => \A i \in Ids : Has(i, "running") => Has(i, "running")'
  BY DEF Has
<1>5. ASSUME NEW i \in Ids, Enqueue(i) \/ Check(i) PROVE Goal
  BY <1>2, <1>3, <1>4, <1>5 DEF Enqueue, Check
<1>6. ASSUME NEW i \in Ids, Persist(i) \/ Elapse(i) PROVE Goal
  <2>1. Persist(i) => ~Has(i, "running")
    BY DEF Persist, AttemptsInv, Has
  <2>2. \A j \in Ids : Has(j, "running") => Has(j, "running")'
    <3>1. CASE Persist(i)
      BY <2>1, <3>1, Typed, SMTT(30) DEF Persist, Has, Model
    <3>2. CASE Elapse(i)
      BY <3>2, Typed, SMTT(30) DEF Elapse, Has, Model
    <3> QED
      BY <1>6, <3>1, <3>2
  <2> QED
    BY <1>2, <1>3, <1>6, <2>2 DEF Persist, Elapse
<1>7. ASSUME NEW t \in Ticks, Others(t), tick'[t].at # "handler"
      PROVE  tick' \in [Ticks -> Pass] /\ \A u \in Ticks, i \in Ids : InHandler(u, i)' => u # t /\ InHandler(u, i)
  BY <1>7 DEF Others, Same, InHandler
<1>8. ASSUME NEW t \in Ticks, TickCall(t) \/ RecoverNext(t) \/ Collect(t) \/ RunNext(t) PROVE Goal
  <2>1. Others(t) /\ tick'[t].at # "handler"
    BY <1>8, TickCallParts, RecoverNextParts, CollectParts, RunNextParts
  <2>2. UNCHANGED chain \/ (\E i \in Ids : Join(i, t))
    BY <1>8, RecoverNextParts, RunNextParts DEF TickCall, Collect
  <2>3. UNCHANGED stored
    BY <1>8 DEF TickCall, RecoverNext, Collect, RunNext
  <2> QED
    BY <1>2, <1>4, <1>7, <2>1, <2>2, <2>3
<1>9. ASSUME NEW t \in Ticks, NEW i \in Ids, First(i, t), Left(t), Leave(i),
             \A j \in Ids : j # i => stored'[j] = stored[j]
      PROVE  Goal
  <2>1. Others(t) /\ tick'[t].at # "handler"
    BY <1>9 DEF Left
  <2>2. chain' \in [Ids -> Seq(Ticks \cup Cancels)] /\ \A j \in Ids : j # i => chain'[j] = chain[j]
    BY <1>9, LeaveParts DEF First
  <2>3. ASSUME NEW u \in Ticks, NEW j \in Ids, InHandler(u, j)' PROVE First(j, u)' /\ Has(j, "running")'
    <3>1. u # t /\ InHandler(u, j)
      BY <1>7, <2>1, <2>3
    <3>2. j # i
      BY <1>1, <1>9, <3>1 DEF First
    <3> QED
      BY <1>1, <1>9, <2>2, <3>1, <3>2 DEF First, Has
  <2> QED
    BY <1>7, <2>1, <2>2, <2>3
<1>10. ASSUME NEW t \in Ticks, Recover(t) PROVE Goal
  <2>1. PICK i \in Ids : First(i, t) /\ Left(t) /\ Leave(i) /\ (UNCHANGED stored \/ Failure(i))
    BY <1>10, RecoverParts
  <2>2. \A j \in Ids : j # i => stored'[j] = stored[j]
    BY <2>1, FailureParts
  <2> QED
    BY <1>9, <2>1, <2>2
<1>11. ASSUME NEW t \in Ticks, Begin(t) PROVE Goal
  <2>1. PICK i \in Ids :
           /\ First(i, t) /\ tick[t].at = "run" /\ tick[t].job = i
           /\ \/ UNCHANGED stored /\ Left(t) /\ Leave(i)
              \/ /\ \A j \in Ids : j # i => stored'[j] = stored[j]
                 /\ stored'[i].status = "running"
                 /\ Others(t) /\ tick'[t].job = i
                 /\ UNCHANGED chain
    BY <1>11, BeginParts
  <2>2. CASE UNCHANGED stored /\ Left(t) /\ Leave(i)
    BY <1>9, <2>1, <2>2
  <2>3. CASE /\ \A j \in Ids : j # i => stored'[j] = stored[j]
             /\ stored'[i].status = "running"
             /\ Others(t) /\ tick'[t].job = i
             /\ UNCHANGED chain
    <3>1. ASSUME NEW u \in Ticks, NEW j \in Ids, InHandler(u, j)' PROVE First(j, u)' /\ Has(j, "running")'
      <4>1. CASE u = t
        BY <2>1, <2>3, <3>1, <4>1 DEF InHandler, First, Has
      <4>2. CASE u # t
        <5>1. InHandler(u, j)
          BY <2>3, <3>1, <4>2 DEF Others, Same, InHandler
        <5>2. j # i
          BY <1>1, <2>1, <4>2, <5>1 DEF First
        <5> QED
          BY <1>1, <2>3, <5>1, <5>2 DEF First, Has
      <4> QED
        BY <4>1, <4>2
    <3> QED
      BY <2>3, <3>1 DEF Others, TypeOK
  <2> QED
    BY <2>1, <2>2, <2>3
<1>12. ASSUME NEW t \in Ticks, HandlerEnds(t) PROVE Goal
  <2>1. PICK i \in Ids : Complete(t, i) \/ Fail(t, i) \/ CompletionLost(t, i) \/ Orphan(t, i)
    BY <1>12 DEF HandlerEnds
  <2>2. First(i, t) /\ Left(t) /\ Leave(i) /\ \A j \in Ids : j # i => stored'[j] = stored[j]
    BY <2>1, HandlerEndsParts, FailureParts
  <2> QED
    BY <1>9, <2>2
<1>13. ASSUME NEW c \in Cancels, Cancel(c) PROVE Goal
  <2>1. PICK i \in Ids : i = cancel[c]
    BY <1>13 DEF Cancel, TypeOK
  <2>2. First(i, c) /\ Leave(i) /\ UNCHANGED tick
    BY <1>13, <2>1 DEF Cancel
  <2>3. \A j \in Ids : j # i => stored'[j] = stored[j]
    BY <1>13, <2>1 DEF Cancel, TypeOK
  <2>4. chain' \in [Ids -> Seq(Ticks \cup Cancels)] /\ \A j \in Ids : j # i => chain'[j] = chain[j]
    BY <2>2, LeaveParts DEF First
  <2>5. ASSUME NEW u \in Ticks, NEW j \in Ids, InHandler(u, j)' PROVE First(j, u)' /\ Has(j, "running")'
    <3>1. InHandler(u, j)
      BY <1>3, <2>2, <2>5
    <3>2. j # i
      BY <1>1, <2>2, <3>1, ConstantsAssumption DEF First
    <3> QED
      BY <1>1, <2>3, <2>4, <3>1, <3>2 DEF First, Has
  <2> QED
    BY <1>3, <2>2, <2>4, <2>5
<1>14. ASSUME NEW c \in Cancels, NEW i \in Ids, CancelCall(c, i) PROVE Goal
  BY <1>2, <1>3, <1>4, <1>14 DEF CancelCall
<1>15. CASE UNCHANGED vars
  BY <1>2, <1>3, <1>4, <1>15 DEF vars
<1> QED
  BY <1>5, <1>6, <1>8, <1>10, <1>11, <1>12, <1>13, <1>14, <1>15 DEF Next, Step

LEMMA TypesInit == Init => TypeOK
<1> SUFFICES ASSUME Init PROVE TypeOK
  OBVIOUS
<1>1. Absent \in Model /\ NoEnq \in Asking /\ NoTick \in Pass
  <2>1. 0 \in 0..MaxAttempts
    BY ConstantsAssumption, SMTT(30)
  <2> QED
    BY <2>1, KindsOfStatus, NoTickIsPass DEF Absent, Model, NoEnq, Asking
<1>2. stored \in [Ids -> Model] /\ enq \in [Ids -> Asking] /\ tick \in [Ticks -> Pass]
  BY <1>1 DEF Init
<1>3. faults \in 0..MaxFaults
  BY ConstantsAssumption, SMTT(30) DEF Init
<1>4. \A t \in Ticks, i \in Ids : ~InHandler(t, i)
  BY DEF Init, InHandler, NoTick
<1>5. /\ chain \in [Ids -> Seq(Ticks \cup Cancels)] /\ dedup \in [Keys -> Ids \cup {NoId}]
      /\ cancel \in [Cancels -> Ids \cup {NoId}]
  BY DEF Init
<1> QED
  BY <1>2, <1>3, <1>4, <1>5 DEF Init, TypeOK, Model, Asking, Pass

\* Only enqueues touch their own bookkeeping, each its own.
LEMMA EnqSteps ==
  ASSUME TypeOK, AttemptsInv, [Next]_vars
  PROVE  /\ enq' \in [Ids -> Asking] /\ dedup' \in [Keys -> Ids \cup {NoId}] /\ raced' \subseteq Keys \cup {NoKey}
         /\ \A i \in Ids : enq'[i].at \in {"idle", "check", "persist"} => enq[i].at \in {"idle", "check", "persist"}
<1> DEFINE Goal == /\ enq' \in [Ids -> Asking] /\ dedup' \in [Keys -> Ids \cup {NoId}] /\ raced' \subseteq Keys \cup {NoKey}
                   /\ \A i \in Ids : enq'[i].at \in {"idle", "check", "persist"} =>
                                       enq[i].at \in {"idle", "check", "persist"}
<1>0. enq \in [Ids -> Asking] /\ dedup \in [Keys -> Ids \cup {NoId}] /\ \A i \in Ids : enq[i] \in Asking
  BY Typed DEF TypeOK
<1>1. ASSUME UNCHANGED enq, UNCHANGED dedup, UNCHANGED raced PROVE Goal
  BY <1>0, <1>1 DEF TypeOK
<1>2. ASSUME NEW i \in Ids, NEW e \in Asking, enq' = [enq EXCEPT ![i] = e], UNCHANGED raced,
             UNCHANGED dedup \/ dedup' = [dedup EXCEPT ![DedupKey[i]] = i],
             enq[i].at \in {"idle", "check", "persist"}
      PROVE  Goal
  <2>1. enq' \in [Ids -> Asking] /\ \A j \in Ids : j # i => enq'[j] = enq[j]
    BY <1>0, <1>2
  <2>2. raced' \subseteq Keys \cup {NoKey}
    BY <1>2 DEF TypeOK
  <2>3. dedup' \in [Keys -> Ids \cup {NoId}]
    <3>1. CASE UNCHANGED dedup
      BY <1>0, <3>1
    <3>2. CASE dedup' = [dedup EXCEPT ![DedupKey[i]] = i]
      BY <1>0, <3>2
    <3> QED
      BY <1>2, <3>1, <3>2
  <2> QED
    BY <1>2, <2>1, <2>2, <2>3
<1>3. ASSUME NEW i \in Ids, Enqueue(i) PROVE Goal
  <2> DEFINE k == DedupKey[i]
  <2> DEFINE holder == IF k = NoKey THEN NoId ELSE dedup[k]
  <2> DEFINE e == [at |-> IF holder = NoId THEN "persist" ELSE "check", found |-> holder # NoId /\ Live(holder)]
  <2>1. e \in Asking
    <3>1. (holder # NoId /\ Live(holder)) \in BOOLEAN
      BY DEF Live
    <3> QED
      BY <3>1 DEF Asking
  <2>2. enq' = [enq EXCEPT ![i] = e] /\ enq[i].at = "idle"
    BY <1>3 DEF Enqueue
  <2>3. dedup' \in [Keys -> Ids \cup {NoId}] /\ raced' \subseteq Keys \cup {NoKey}
    <3>1. DedupKey[i] \in Keys \cup {NoKey}
      BY ConstantsAssumption
    <3>2. raced' \in {raced, raced \cup {DedupKey[i]}} /\ dedup' \in {dedup, [dedup EXCEPT ![DedupKey[i]] = i]}
      BY <1>3 DEF Enqueue
    <3>3. raced' \subseteq Keys \cup {NoKey}
      BY <3>1, <3>2 DEF TypeOK
    <3>4. CASE dedup' = dedup
      BY <1>0, <3>3, <3>4
    <3>5. CASE dedup' = [dedup EXCEPT ![DedupKey[i]] = i]
      <4>1. dedup' \in [Keys -> Ids \cup {NoId}]
        BY <1>0, <3>5
      <4> QED
        BY <3>3, <4>1
    <3> QED
      BY <3>2, <3>4, <3>5
  <2> HIDE DEF e
  <2> QED
    BY <1>0, <2>1, <2>2, <2>3
<1>4. ASSUME NEW i \in Ids, Check(i) PROVE Goal
  <2>1. NoEnq \in Asking /\ [enq[i] EXCEPT !.at = "persist"] \in Asking
    BY <1>0 DEF NoEnq, Asking
  <2>2. enq[i].at = "check" /\ UNCHANGED raced
    BY <1>4 DEF Check, ghosts
  <2>3. \/ enq' = [enq EXCEPT ![i] = NoEnq] /\ UNCHANGED dedup
        \/ enq' = [enq EXCEPT ![i] = [enq[i] EXCEPT !.at = "persist"]] /\ dedup' = [dedup EXCEPT ![DedupKey[i]] = i]
    BY <1>0, <1>4 DEF Check
  <2> QED
    BY <1>2, <2>1, <2>2, <2>3
<1>5. ASSUME NEW i \in Ids, Persist(i) PROVE Goal
  <2>1. [enq[i] EXCEPT !.at = "done"] \in Asking /\ [enq[i] EXCEPT !.at = "failed"] \in Asking
    BY <1>0 DEF Asking
  <2>2. enq[i].at = "persist" /\ UNCHANGED <<dedup, raced>>
    BY <1>5 DEF Persist, ghosts
  <2>3. \/ enq' = [enq EXCEPT ![i] = [enq[i] EXCEPT !.at = "done"]]
        \/ enq' = [enq EXCEPT ![i] = [enq[i] EXCEPT !.at = "failed"]]
    BY <1>0, <1>5 DEF Persist
  <2> QED
    BY <1>2, <2>1, <2>2, <2>3
<1>6. ASSUME NEW t \in Ticks, TickCall(t) \/ Step(t) PROVE Goal
  BY <1>1, <1>6 DEF TickCall, Step, RecoverNext, Collect, RunNext, Recover, Begin, HandlerEnds, Complete, Fail,
    CompletionLost, Orphan, ghosts
<1>7. ASSUME NEW c \in Cancels, Cancel(c) \/ \E i \in Ids : CancelCall(c, i) PROVE Goal
  BY <1>1, <1>7 DEF Cancel, CancelCall, ghosts
<1>8. ASSUME NEW i \in Ids, Elapse(i) PROVE Goal
  BY <1>1, <1>8 DEF Elapse, ghosts
<1>9. CASE UNCHANGED vars
  BY <1>1, <1>9 DEF vars
<1> QED
  BY <1>3, <1>4, <1>5, <1>6, <1>7, <1>8, <1>9 DEF Next

\* The bounded count of rejected writes and the history.
LEMMA CountTypes ==
  ASSUME TypeOK, [Next]_vars
  PROVE  /\ faults' \in 0..MaxFaults /\ cancel' \in [Cancels -> Ids \cup {NoId}]
         /\ inTime' \subseteq Ids /\ lost' \subseteq Ids /\ overlap' \in BOOLEAN
<1>1. Fault => faults' \in 0..MaxFaults
  BY ConstantsAssumption, SMTT(30) DEF Fault, TypeOK
<1>2. faults' \in 0..MaxFaults
  BY <1>1, ZenonT(60) DEF TypeOK, Next, Step, Enqueue, Check, Persist, Elapse, TickCall, RecoverNext, Collect, RunNext, Recover,
    Begin, HandlerEnds, Complete, Fail, CompletionLost, Orphan, CancelCall, Cancel, vars
<1>3. cancel' \in [Cancels -> Ids \cup {NoId}]
  BY ZenonT(60) DEF TypeOK, Next, Step, Enqueue, Check, Persist, Elapse, TickCall, RecoverNext, Collect, RunNext, Recover,
    Begin, HandlerEnds, Complete, Fail, CompletionLost, Orphan, CancelCall, Cancel, vars
<1>4. inTime' \subseteq Ids /\ lost' \subseteq Ids
  BY ZenonT(60) DEF TypeOK, Next, Step, Enqueue, Check, Persist, Elapse, TickCall, RecoverNext, Collect, RunNext, Recover,
    Begin, HandlerEnds, Complete, Fail, CompletionLost, Orphan, CancelCall, Cancel, vars, ghosts
<1>5. overlap' \in BOOLEAN
  BY ZenonT(60) DEF TypeOK, Next, Step, Enqueue, Check, Persist, Elapse, TickCall, RecoverNext, Collect, RunNext, Recover,
    Begin, HandlerEnds, Complete, Fail, CompletionLost, Orphan, CancelCall, Cancel, vars, ghosts
<1> QED
  BY <1>2, <1>3, <1>4, <1>5

LEMMA TypesNext ==
  ASSUME TypeOK, AttemptsInv, HandlerInv, [Next]_vars
  PROVE  TypeOK' /\ HandlerInv'
<1>1. stored' \in [Ids -> Model]
  BY JobSteps
<1> QED
  BY <1>1, WorkNext, EnqSteps, CountTypes DEF TypeOK, HandlerInv, Model, Asking, Pass, InHandler, First, Has

----------------------------------------------------------------------------
(******************************* INVARIANTS *******************************)

LEMMA AttemptsNext ==
  ASSUME TypeOK, AttemptsInv, HandlerInv, [Next]_vars
  PROVE  AttemptsInv'
<1> SUFFICES ASSUME NEW i \in Ids
             PROVE  /\ stored'[i].status \in Runnable => stored'[i].attempts < MaxAttempts
                    /\ stored'[i].status = "absent" => stored'[i].attempts = 0
                    /\ enq'[i].at \in {"idle", "check", "persist"} => stored'[i].status = "absent"
  BY DEF AttemptsInv, Has
<1>1. JobStep(i)
  BY JobSteps
<1>2. /\ stored[i].status \in Runnable => stored[i].attempts < MaxAttempts
      /\ stored[i].status = "absent" => stored[i].attempts = 0
      /\ enq[i].at \in {"idle", "check", "persist"} => stored[i].status = "absent"
      /\ enq'[i].at \in {"idle", "check", "persist"} => enq[i].at \in {"idle", "check", "persist"}
  BY EnqSteps DEF AttemptsInv, Has
<1>3. 0 < MaxAttempts
  BY ConstantsAssumption
<1> QED
  BY <1>1, <1>2, <1>3, KindsOfStatus DEF JobStep, Has, Live

\* A completion that was stored stays, and one in time is stored or lost.
LEMMA DoneNext ==
  ASSUME TypeOK, AttemptsInv, HandlerInv, DoneInv, [Next]_vars
  PROVE  DoneInv'
<1>1. \A i \in Ids : Has(i, "completed") => Has(i, "completed")'
  <2> SUFFICES ASSUME NEW i \in Ids, Has(i, "completed") PROVE Has(i, "completed")'
    OBVIOUS
  <2>1. JobStep(i)
    BY JobSteps
  <2>2. enq[i].at # "persist"
    BY DEF AttemptsInv, Has
  <2> QED
    BY <2>1, <2>2, KindsOfStatus DEF JobStep, Has, Live
<1>2. ASSUME UNCHANGED inTime, lost \subseteq lost' PROVE DoneInv'
  BY <1>1, <1>2 DEF DoneInv, TypeOK
<1>3. ASSUME NEW t \in Ticks, NEW i \in Ids, Complete(t, i) \/ Fail(t, i) \/ CompletionLost(t, i) \/ Orphan(t, i)
      PROVE  DoneInv'
  <2>1. CASE Complete(t, i)
    <3>1. Has(i, "completed")' /\ inTime' = inTime \cup {i} /\ lost' = lost
      BY <2>1, Typed DEF Complete, Has, Model
    <3> QED
      BY <1>1, <3>1 DEF DoneInv, TypeOK
  <2>2. CASE CompletionLost(t, i)
    <3>1. inTime' = inTime \cup {i} /\ lost' = lost \cup {i}
      BY <2>2 DEF CompletionLost
    <3> QED
      BY <1>1, <3>1 DEF DoneInv, TypeOK
  <2>3. CASE Fail(t, i) \/ Orphan(t, i)
    BY <1>2, <2>3 DEF Fail, Orphan, ghosts
  <2> QED
    BY <1>3, <2>1, <2>2, <2>3
<1> QED
  BY <1>2, <1>3 DEF Next, Step, Enqueue, Check, Persist, Elapse, TickCall, RecoverNext, Collect, RunNext, Recover,
    Begin, HandlerEnds, CancelCall, Cancel, vars, ghosts

\* What the invariant says of one key.
KeyHolds(k) ==
  /\ \A e, f \in Ids : Pending(e, k) /\ Pending(f, k) => e = f
  /\ \A i \in Ids : Holds(i, k) => dedup[k] = i
  /\ \A e \in Ids : Pending(e, k) /\ enq[e].at = "persist" =>
                      dedup[k] = e /\ \A i \in Ids : ~Holds(i, k)
  /\ \A e \in Ids : Pending(e, k) /\ enq[e].at = "check" /\ ~enq[e].found => \A i \in Ids : ~Holds(i, k)

\* A step that leaves the enqueues of a key alone, and its jobs, or ends them.
LEMMA KeyKept ==
  ASSUME NEW k \in Keys, KeyHolds(k), dedup'[k] = dedup[k],
         \A e \in Ids : Pending(e, k)' => Pending(e, k) /\ enq'[e] = enq[e],
         \A i \in Ids : Holds(i, k)' => Holds(i, k)
  PROVE  KeyHolds(k)'
BY DEF KeyHolds, Pending

LEMMA KeyNext ==
  ASSUME TypeOK, AttemptsInv, HandlerInv, KeyInv, [Next]_vars
  PROVE  KeyInv'
<1>0. /\ \A k \in Keys \ raced : KeyHolds(k)
      /\ \A i \in Ids : enq[i] \in Asking /\ DedupKey[i] \in Keys \cup {NoKey}
      /\ enq \in [Ids -> Asking] /\ dedup \in [Keys -> Ids \cup {NoId}]
  BY Typed, ConstantsAssumption DEF KeyInv, KeyHolds, TypeOK
<1>1. SUFFICES ASSUME NEW k \in Keys \ raced' PROVE KeyHolds(k)'
  BY DEF KeyInv, KeyHolds
<1>2. ASSUME UNCHANGED <<enq, dedup, raced>> PROVE KeyHolds(k)'
  <2>1. \A i \in Ids : Live(i)' => Live(i)
    <3> SUFFICES ASSUME NEW i \in Ids, Live(i)' PROVE Live(i)
      OBVIOUS
    <3>1. JobStep(i)
      BY JobSteps
    <3> QED
      BY <1>2, <3>1, KindsOfStatus DEF JobStep, Live, Has, Terminal, Runnable
  <2>2. KeyHolds(k)
    BY <1>0, <1>1, <1>2
  <2> QED
    BY <1>2, <2>1, <2>2, KeyKept DEF Pending, Holds
<1>3. ASSUME NEW i \in Ids, Enqueue(i) PROVE KeyHolds(k)'
  <2> DEFINE key == DedupKey[i]
  <2> DEFINE holder == IF key = NoKey THEN NoId ELSE dedup[key]
  <2>1. /\ enq' = [enq EXCEPT ![i] = [at |-> IF holder = NoId THEN "persist" ELSE "check",
                                      found |-> holder # NoId /\ Live(holder)]]
        /\ dedup' = IF key # NoKey /\ holder = NoId THEN [dedup EXCEPT ![key] = i] ELSE dedup
        /\ raced' = IF \E e \in Ids : enq[e].at \in {"check", "persist"} /\ DedupKey[e] = key
                    THEN raced \cup {key} ELSE raced
        /\ UNCHANGED stored /\ Has(i, "absent") /\ enq[i].at = "idle"
    BY <1>3 DEF Enqueue
  <2>2. \A j \in Ids : Holds(j, k)' <=> Holds(j, k)
    BY <2>1 DEF Holds, Live
  <2>3. KeyHolds(k)
    BY <1>0, <1>1, <2>1
  <2>4. \A e \in Ids : e # i => enq'[e] = enq[e]
    BY <1>0, <2>1
  <2>5. /\ enq'[i].at = IF holder = NoId THEN "persist" ELSE "check"
        /\ enq'[i].found <=> holder # NoId /\ Live(holder)
    BY <1>0, <2>1
  <2>6. CASE k # key
    <3>1. dedup'[k] = dedup[k]
      BY <1>0, <1>1, <2>1, <2>6
    <3>2. \A e \in Ids : Pending(e, k)' => Pending(e, k) /\ enq'[e] = enq[e]
      BY <2>4, <2>6 DEF Pending
    <3> QED
      BY <1>1, <2>2, <2>3, <3>1, <3>2, KeyKept
  <2>7. CASE k = key
    <3>1. \A e \in Ids : ~Pending(e, k)
      BY <1>1, <2>1, <2>7 DEF Pending
    <3>2. \A e \in Ids : Pending(e, k)' => e = i
      BY <2>4, <3>1 DEF Pending
    <3>3. key # NoKey /\ holder = dedup[k]
      BY <1>1, <2>7, ConstantsAssumption
    <3>4. CASE holder = NoId
      <4>1. \A j \in Ids : ~Holds(j, k)
        BY <2>3, <3>3, <3>4, ConstantsAssumption DEF KeyHolds
      <4>2. dedup'[k] = i
        BY <1>0, <1>1, <2>1, <2>7, <3>3, <3>4
      <4>3. enq'[i].at = "persist"
        BY <2>5, <3>4
      <4> QED
        BY <2>2, <3>2, <4>1, <4>2, <4>3 DEF KeyHolds
    <3>5. CASE holder # NoId
      <4>1. dedup'[k] = dedup[k] /\ enq'[i].at = "check" /\ (enq'[i].found <=> Live(holder))
        BY <2>1, <2>5, <3>5
      <4>2. ~Live(holder) => \A j \in Ids : ~Holds(j, k)
        BY <2>3, <3>3 DEF KeyHolds, Holds
      <4> QED
        BY <2>2, <2>3, <3>2, <4>1, <4>2 DEF KeyHolds
    <3> QED
      BY <3>4, <3>5
  <2> QED
    BY <2>6, <2>7
<1>4. ASSUME NEW i \in Ids, Check(i) PROVE KeyHolds(k)'
  <2>1. enq[i].at = "check" /\ UNCHANGED <<stored, raced>>
    BY <1>4 DEF Check, ghosts
  <2>2. KeyHolds(k) /\ \A j \in Ids : Holds(j, k)' <=> Holds(j, k)
    BY <1>0, <1>1, <2>1 DEF Holds, Live
  <2>3. CASE enq[i].found
    <3>1. enq' = [enq EXCEPT ![i] = NoEnq] /\ UNCHANGED dedup
      BY <1>4, <2>3 DEF Check
    <3>2. \A e \in Ids : Pending(e, k)' => Pending(e, k) /\ enq'[e] = enq[e]
      BY <1>0, <3>1 DEF Pending, NoEnq
    <3> QED
      BY <1>1, <2>2, <3>1, <3>2, KeyKept
  <2>4. CASE ~enq[i].found
    <3>1. enq' = [enq EXCEPT ![i].at = "persist"] /\ dedup' = [dedup EXCEPT ![DedupKey[i]] = i]
      BY <1>4, <2>4 DEF Check
    <3>2. enq'[i].at = "persist" /\ \A e \in Ids : e # i => enq'[e] = enq[e]
      BY <1>0, <3>1 DEF Asking
    <3>3. CASE DedupKey[i] # k
      <4>1. dedup'[k] = dedup[k] /\ \A e \in Ids : Pending(e, k)' => Pending(e, k) /\ enq'[e] = enq[e]
        BY <1>0, <1>1, <3>1, <3>2, <3>3 DEF Pending
      <4> QED
        BY <1>1, <2>2, <4>1, KeyKept
    <3>4. CASE DedupKey[i] = k
      <4>1. Pending(i, k) /\ \A j \in Ids : ~Holds(j, k)
        BY <2>1, <2>2, <2>4, <3>4 DEF Pending, KeyHolds
      <4>2. \A e \in Ids : Pending(e, k)' => e = i
        BY <2>2, <3>2, <4>1 DEF Pending, KeyHolds
      <4>3. dedup'[k] = i
        BY <1>0, <1>1, <3>1, <3>4
      <4> QED
        BY <2>2, <3>2, <4>1, <4>2, <4>3 DEF KeyHolds
    <3> QED
      BY <3>3, <3>4
  <2> QED
    BY <2>3, <2>4
<1>5. ASSUME NEW i \in Ids, Persist(i) PROVE KeyHolds(k)'
  <2>1. enq[i].at = "persist" /\ UNCHANGED <<dedup, raced>>
    BY <1>5 DEF Persist, ghosts
  <2>2. KeyHolds(k)
    BY <1>0, <1>1, <2>1
  <2>3. enq'[i].at \in {"done", "failed"} /\ \A e \in Ids : e # i => enq'[e] = enq[e]
    BY <1>0, <1>5 DEF Persist, Asking
  <2>4. \A j \in Ids : j # i => stored'[j] = stored[j]
    BY <1>5, Typed DEF Persist
  <2>5. \A e \in Ids : Pending(e, k)' => Pending(e, k) /\ enq'[e] = enq[e] /\ e # i
    BY <2>3 DEF Pending
  <2>6. \A j \in Ids : j # i => (Holds(j, k)' => Holds(j, k))
    BY <2>4 DEF Holds, Live
  <2>7. CASE DedupKey[i] = k
    <3>1. Pending(i, k) /\ dedup[k] = i /\ \A j \in Ids : ~Holds(j, k)
      BY <2>1, <2>2, <2>7 DEF Pending, KeyHolds
    <3>2. \A e \in Ids : ~Pending(e, k)'
      BY <2>2, <2>5, <3>1 DEF KeyHolds
    <3> QED
      BY <2>1, <2>6, <3>1, <3>2 DEF KeyHolds
  <2>8. CASE DedupKey[i] # k
    <3>1. ~Holds(i, k)'
      BY <2>8 DEF Holds
    <3> QED
      BY <1>1, <2>1, <2>2, <2>5, <2>6, <3>1, KeyKept
  <2> QED
    BY <2>7, <2>8
<1>6. ASSUME NEW t \in Ticks, TickCall(t) \/ Step(t) PROVE KeyHolds(k)'
  BY <1>2, <1>6 DEF TickCall, Step, RecoverNext, Collect, RunNext, Recover, Begin, HandlerEnds, Complete, Fail,
    CompletionLost, Orphan, ghosts
<1>7. ASSUME NEW c \in Cancels, Cancel(c) \/ \E i \in Ids : CancelCall(c, i) PROVE KeyHolds(k)'
  BY <1>2, <1>7 DEF Cancel, CancelCall, ghosts
<1>8. ASSUME NEW i \in Ids, Elapse(i) PROVE KeyHolds(k)'
  BY <1>2, <1>8 DEF Elapse, ghosts
<1>9. CASE UNCHANGED vars
  BY <1>2, <1>9 DEF vars
<1> QED
  BY <1>3, <1>4, <1>5, <1>6, <1>7, <1>8, <1>9 DEF Next

\* A tick that is at work was called, and its list of jobs seen due shrinks.
LEMMA StepOfTick ==
  ASSUME TypeOK, AttemptsInv, NEW t \in Ticks, Step(t)
  PROVE  Active(t) /\ Others(t) /\ tick'[t].sees \subseteq tick[t].sees /\ overlap' = overlap
<1>1. CASE RecoverNext(t)
  BY <1>1, RecoverNextParts DEF RecoverNext, Active, ghosts
<1>2. CASE Collect(t)
  BY <1>2, CollectParts DEF Collect, Active, ghosts
<1>3. CASE RunNext(t)
  BY <1>3, RunNextParts DEF RunNext, Active, ghosts
<1>4. CASE Recover(t)
  BY <1>4, RecoverParts DEF Recover, Active, ghosts, Left
<1>5. CASE Begin(t)
  BY <1>5, BeginParts DEF Begin, Active, ghosts, Left
<1>6. CASE HandlerEnds(t)
  BY <1>6, HandlerEndsParts DEF HandlerEnds, Complete, Fail, CompletionLost, Orphan, InHandler, Active, ghosts, Left
<1> QED
  BY <1>1, <1>2, <1>3, <1>4, <1>5, <1>6 DEF Step

LEMMA SeesNext ==
  ASSUME TypeOK, AttemptsInv, HandlerInv, SeesInv, [Next]_vars
  PROVE  SeesInv'
<1>1. ASSUME NEW u \in Ticks, NEW i \in tick[u].sees, i \in tick'[u].sees
      PROVE  ~Has(i, "absent")' /\ (stored'[i].status \in Runnable => stored'[i].due)
  <2>1. i \in Ids
    BY Typed DEF Pass
  <2>2. JobStep(i)
    BY <2>1, JobSteps
  <2>3. ~Has(i, "absent") /\ (stored[i].status \in Runnable => stored[i].due) /\ enq[i].at # "persist"
    BY <2>1 DEF SeesInv, AttemptsInv
  <2> QED
    BY <1>1, <2>2, <2>3, KindsOfStatus DEF JobStep, Has, Live
<1>2. ASSUME \A u \in Ticks : tick'[u].sees \subseteq tick[u].sees PROVE SeesInv'
  BY <1>1, <1>2 DEF SeesInv
<1>3. ASSUME NEW t \in Ticks, TickCall(t) PROVE SeesInv'
  <2>1. /\ \A u \in Ticks : u # t => tick'[u].sees \subseteq tick[u].sees
        /\ tick'[t].sees = {i \in Ids : stored[i].status \in Runnable /\ stored[i].due}
    BY <1>3, TickCallParts DEF Others, Same
  <2>2. UNCHANGED stored
    BY <1>3 DEF TickCall
  <2> QED
    BY <2>1, <2>2, KindsOfStatus DEF SeesInv, Has
<1>4. ASSUME NEW t \in Ticks, Step(t) PROVE SeesInv'
  BY <1>2, <1>4, StepOfTick DEF Others, Same
<1>5. CASE UNCHANGED tick
  BY <1>2, <1>5
<1> QED
  BY <1>3, <1>4, <1>5 DEF Next, Enqueue, Check, Persist, Elapse, Cancel, CancelCall, vars

LEMMA OneTickNext ==
  ASSUME TypeOK, AttemptsInv, OneTick, [Next]_vars
  PROVE  OneTick'
<1>1. ASSUME NEW t \in Ticks, TickCall(t) PROVE OneTick'
  <2>1. overlap' = \E u \in Ticks : Active(u)
    BY <1>1 DEF TickCall
  <2>2. \A u \in Ticks : u # t => (Active(u)' <=> Active(u))
    BY <1>1, TickCallParts DEF Others, Same, Active
  <2> QED
    BY <2>1, <2>2 DEF OneTick
<1>2. ASSUME NEW t \in Ticks, Step(t) PROVE OneTick'
  <2>1. \A u \in Ticks : Active(u)' => Active(u)
    BY <1>2, StepOfTick DEF Others, Same, Active
  <2> QED
    BY <1>2, <2>1, StepOfTick DEF OneTick
<1>3. CASE UNCHANGED <<tick, overlap>>
  BY <1>3 DEF OneTick, Active
<1> QED
  BY <1>1, <1>2, <1>3 DEF Next, Enqueue, Check, Persist, Elapse, Cancel, CancelCall, vars, ghosts

LEMMA RunNextInv ==
  ASSUME TypeOK, AttemptsInv, HandlerInv, SeesInv, OneTick, RunInv, [Next]_vars
  PROVE  RunInv'
<1> DEFINE Apart(u) == tick'[u].at \in {"run", "handler"} => tick'[u].job \notin tick'[u].todo
<1> DEFINE Waits(u, i) == Collected(u, i)' /\ Has(i, "retrying")' => stored'[i].due \/ overlap'
<1>0. SUFFICES \A u \in Ticks : Apart(u) /\ \A i \in Ids : Waits(u, i)
  BY DEF RunInv
<1>1. \A u \in Ticks : /\ tick[u].at \in {"run", "handler"} => tick[u].job \notin tick[u].todo
                       /\ \A i \in Ids : Collected(u, i) /\ Has(i, "retrying") => stored[i].due \/ overlap
  BY DEF RunInv
<1>2. \A i \in Ids : Has(i, "retrying")' /\ ~Has(i, "running") =>
                       Has(i, "retrying") /\ (stored[i].due => stored'[i].due)
  <2> SUFFICES ASSUME NEW i \in Ids, Has(i, "retrying")', ~Has(i, "running")
               PROVE  Has(i, "retrying") /\ (stored[i].due => stored'[i].due)
    OBVIOUS
  <2>1. JobStep(i)
    BY JobSteps
  <2> QED
    BY <2>1 DEF JobStep, Has
<1>3. ASSUME NEW t \in Ticks, Others(t), NEW u \in Ticks, u # t
      PROVE  Apart(u) /\ \A i \in Ids : Collected(u, i)' => Collected(u, i) /\ Active(u)
  BY <1>1, <1>3 DEF Others, Same, Collected, Active
<1>4. ASSUME UNCHANGED <<tick, overlap>>, \A i \in Ids : Has(i, "retrying")' => ~Has(i, "running")
      PROVE  \A u \in Ticks : Apart(u) /\ \A i \in Ids : Waits(u, i)
  BY <1>1, <1>2, <1>4 DEF Collected
<1>5. ASSUME NEW i \in Ids, Enqueue(i) \/ Check(i) \/ Persist(i) \/ Elapse(i)
      PROVE  \A u \in Ticks : Apart(u) /\ \A j \in Ids : Waits(u, j)
  <2>1. \A j \in Ids : Has(j, "retrying")' => ~Has(j, "running")
    <3>1. CASE UNCHANGED stored
      BY <3>1 DEF Has
    <3>2. CASE Persist(i)
      <4>1. Has(i, "absent")
        BY <3>2 DEF Persist, AttemptsInv
      <4> QED
        BY <3>2, <4>1, Typed DEF Persist, Has, Model
    <3>3. CASE Elapse(i)
      BY <3>3, Typed DEF Elapse, Has, Model
    <3> QED
      BY <1>5, <3>1, <3>2, <3>3 DEF Enqueue, Check
  <2> QED
    BY <1>4, <1>5, <2>1 DEF Enqueue, Check, Persist, Elapse, ghosts
<1>6. ASSUME NEW c \in Cancels, Cancel(c) \/ \E i \in Ids : CancelCall(c, i)
      PROVE  \A u \in Ticks : Apart(u) /\ \A j \in Ids : Waits(u, j)
  <2>1. \A j \in Ids : Has(j, "retrying")' => ~Has(j, "running")
    BY <1>6, Typed DEF Cancel, CancelCall, Has, Model
  <2> QED
    BY <1>4, <1>6, <2>1 DEF Cancel, CancelCall, ghosts
<1>7. ASSUME NEW t \in Ticks, TickCall(t) PROVE \A u \in Ticks : Apart(u) /\ \A i \in Ids : Waits(u, i)
  <2>1. Others(t) /\ tick'[t].at = "recover" /\ UNCHANGED stored /\ overlap' = \E u \in Ticks : Active(u)
    BY <1>7, TickCallParts DEF TickCall
  <2>2. Apart(t) /\ \A i \in Ids : ~Collected(t, i)'
    BY <2>1 DEF Collected
  <2> QED
    BY <1>3, <2>1, <2>2
<1>8. ASSUME NEW t \in Ticks, Step(t), \A i \in Ids : Has(i, "retrying")' => ~Has(i, "running"),
             Apart(t), \A i \in Ids : Collected(t, i)' => Collected(t, i)
      PROVE  \A u \in Ticks : Apart(u) /\ \A i \in Ids : Waits(u, i)
  BY <1>1, <1>2, <1>3, <1>8, StepOfTick
<1>9. UNCHANGED stored => \A i \in Ids : Has(i, "retrying")' => ~Has(i, "running")
  BY DEF Has
<1>10. ASSUME NEW t \in Ticks, Left(t), Active(t) PROVE Apart(t) /\ \A i \in Ids : Collected(t, i)' => Collected(t, i)
  <2>1. tick'[t] \in Pass /\ tick'[t].job = NoId
    BY <1>10 DEF Left, Others
  <2>2. Apart(t)
    BY <2>1, ConstantsAssumption DEF Pass
  <2>3. tick[t].at \in {"none", "recover", "run", "handler"}
    BY Typed DEF Pass
  <2> QED
    BY <1>10, <2>1, <2>2, <2>3, ConstantsAssumption DEF Left, Collected, Active
<1>11. ASSUME NEW t \in Ticks, NEW i \in Ids, Left(t), Active(t), overlap' = overlap, Failure(i), ~Collected(t, i)'
       PROVE  \A u \in Ticks : Apart(u) /\ \A j \in Ids : Waits(u, j)
  <2>1. \A j \in Ids : j # i => stored'[j] = stored[j]
    BY <1>11, FailureParts
  <2>2. ASSUME NEW u \in Ticks, NEW j \in Ids, Collected(u, j)', Has(j, "retrying")' PROVE stored'[j].due \/ overlap'
    <3>1. Collected(u, j)
      BY <1>3, <1>10, <1>11, <2>2 DEF Left
    <3>2. CASE j # i
      BY <1>1, <1>11, <2>1, <2>2, <3>1, <3>2 DEF Has
    <3>3. CASE j = i
      <4>1. u # t
        BY <1>11, <2>2, <3>3
      <4>2. Active(u)
        BY <1>3, <1>11, <2>2, <4>1 DEF Left
      <4> QED
        BY <1>11, <4>1, <4>2 DEF OneTick
    <3> QED
      BY <3>2, <3>3
  <2> QED
    BY <1>3, <1>10, <1>11, <2>2 DEF Left
<1>12. ASSUME NEW t \in Ticks, RecoverNext(t) PROVE \A u \in Ticks : Apart(u) /\ \A i \in Ids : Waits(u, i)
  <2>1. tick'[t].at = "recover" /\ UNCHANGED stored
    BY <1>12, RecoverNextParts DEF RecoverNext
  <2> QED
    BY <1>8, <1>9, <1>12, <2>1 DEF Collected, Step
<1>13. ASSUME NEW t \in Ticks, Collect(t) PROVE \A u \in Ticks : Apart(u) /\ \A i \in Ids : Waits(u, i)
  <2>1. /\ Others(t) /\ tick'[t].at = "run" /\ tick'[t].job = NoId
        /\ tick'[t].todo = {i \in Ids : stored[i].status \in Runnable /\ (Has(i, "queued") \/ i \in tick[t].sees)}
        /\ UNCHANGED <<stored, overlap>>
    BY <1>13, CollectParts DEF Collect, ghosts
  <2>2. Apart(t)
    BY <2>1, ConstantsAssumption
  <2>3. \A i \in Ids : Waits(t, i)
    BY <2>1, KindsOfStatus, ConstantsAssumption DEF Collected, Has, SeesInv
  <2>4. \A u \in Ticks : u # t => \A i \in Ids : Waits(u, i)
    BY <1>1, <1>3, <2>1 DEF Has
  <2> QED
    BY <1>3, <2>1, <2>2, <2>3, <2>4
<1>14. ASSUME NEW t \in Ticks, RunNext(t) PROVE \A u \in Ticks : Apart(u) /\ \A i \in Ids : Waits(u, i)
  <2>1. UNCHANGED stored /\ tick[t].at = "run"
    BY <1>14 DEF RunNext
  <2>2. Apart(t) /\ \A i \in Ids : Collected(t, i)' => Collected(t, i)
    <3>1. CASE tick'[t].at = "none"
      BY <3>1 DEF Collected
    <3>2. ASSUME NEW i \in tick[t].todo, tick'[t].at = "run", tick'[t].job = i, tick'[t].todo = tick[t].todo \ {i}
          PROVE  Apart(t) /\ \A j \in Ids : Collected(t, j)' => Collected(t, j)
      BY <2>1, <3>2 DEF Collected
    <3> QED
      BY <1>14, <3>1, <3>2, RunNextParts
  <2> QED
    BY <1>8, <1>9, <1>14, <2>1, <2>2 DEF Step
<1>15. ASSUME NEW t \in Ticks, Recover(t) PROVE \A u \in Ticks : Apart(u) /\ \A i \in Ids : Waits(u, i)
  <2>1. PICK i \in Ids : tick[t].at = "recover" /\ Left(t) /\ (UNCHANGED stored \/ Failure(i))
    BY <1>15, RecoverParts
  <2>2. Active(t) /\ overlap' = overlap /\ Step(t)
    BY <1>15, StepOfTick DEF Step
  <2>3. ~Collected(t, i)'
    BY <2>1 DEF Left, Collected
  <2> QED
    BY <1>8, <1>9, <1>10, <1>11, <2>1, <2>2, <2>3
<1>16. ASSUME NEW t \in Ticks, Begin(t) PROVE \A u \in Ticks : Apart(u) /\ \A i \in Ids : Waits(u, i)
  <2>0. Active(t) /\ Step(t)
    BY <1>16, StepOfTick DEF Step
  <2>1. CASE UNCHANGED stored /\ Left(t)
    BY <1>8, <1>9, <1>10, <2>0, <2>1
  <2>2. CASE ~(UNCHANGED stored /\ Left(t))
    <3>1. PICK i \in Ids :
            /\ tick[t].at = "run" /\ tick[t].job = i
            /\ \A j \in Ids : j # i => stored'[j] = stored[j]
            /\ stored'[i].status = "running"
            /\ tick'[t].at = "handler" /\ tick'[t].todo = tick[t].todo /\ tick'[t].job = i
      BY <1>16, <2>2, BeginParts
    <3>2. \A j \in Ids : Has(j, "retrying")' => ~Has(j, "running")
      BY <3>1 DEF Has
    <3>3. Apart(t) /\ \A j \in Ids : Collected(t, j)' => Collected(t, j)
      BY <1>1, <3>1 DEF Collected
    <3> QED
      BY <1>8, <2>0, <3>2, <3>3
  <2> QED
    BY <2>1, <2>2
<1>17. ASSUME NEW t \in Ticks, HandlerEnds(t) PROVE \A u \in Ticks : Apart(u) /\ \A i \in Ids : Waits(u, i)
  <2>0. Active(t) /\ Step(t) /\ overlap' = overlap
    BY <1>17, StepOfTick DEF Step
  <2>1. PICK i \in Ids : Complete(t, i) \/ Fail(t, i) \/ CompletionLost(t, i) \/ Orphan(t, i)
    BY <1>17 DEF HandlerEnds
  <2>2. InHandler(t, i) /\ Left(t)
    BY <2>1, HandlerEndsParts
  <2>3. ~Collected(t, i)'
    <3>1. i \notin tick[t].todo /\ i # NoId
      BY <1>1, <2>2, ConstantsAssumption DEF InHandler
    <3> QED
      BY <2>2, <3>1 DEF Left, Collected
  <2>4. CASE UNCHANGED stored
    BY <1>8, <1>9, <1>10, <2>0, <2>2, <2>4
  <2>5. CASE Failure(i)
    BY <1>11, <2>0, <2>2, <2>3, <2>5
  <2>6. CASE \A j \in Ids : (j # i => stored'[j] = stored[j]) /\ stored'[i].status = "completed"
    <3>1. \A j \in Ids : Has(j, "retrying")' => ~Has(j, "running")
      BY <2>6 DEF Has
    <3> QED
      BY <1>8, <1>10, <2>0, <2>2, <3>1
  <2> QED
    BY <2>1, <2>4, <2>5, <2>6, HandlerEndsParts
<1>18. CASE UNCHANGED vars
  BY <1>4, <1>9, <1>18 DEF vars
<1> QED
  BY <1>0, <1>5, <1>6, <1>7, <1>12, <1>13, <1>14, <1>15, <1>16, <1>17, <1>18 DEF Next, Step

LEMMA InitInv == Init => IInv
<1> SUFFICES ASSUME Init PROVE IInv
  OBVIOUS
<1>1. \A i \in Ids : /\ stored[i].status = "absent" /\ stored[i].attempts = 0 /\ enq[i].at = "idle"
  BY DEF Init, Absent, NoEnq
<1>2. \A t \in Ticks : tick[t] = NoTick
  BY DEF Init
<1>3. AttemptsInv
  BY <1>1, KindsOfStatus DEF AttemptsInv, Has
<1>4. HandlerInv /\ SeesInv /\ OneTick /\ RunInv
  BY <1>2 DEF HandlerInv, SeesInv, OneTick, RunInv, InHandler, Active, Collected, NoTick
<1>5. KeyInv
  <2>1. \A i \in Ids : \A k : ~Pending(i, k) /\ ~Holds(i, k)
    BY <1>1, KindsOfStatus DEF Pending, Holds, Live
  <2> QED
    BY <2>1 DEF KeyInv
<1>6. DoneInv
  BY DEF Init, DoneInv
<1> QED
  BY TypesInit, <1>3, <1>4, <1>5, <1>6 DEF IInv

----------------------------------------------------------------------------
(******************************* THEOREMS *********************************)

\* Every step keeps the invariant: who works on a job is first on its chain, an unraced key is held by the one
\* job that is live or about to be written, and what one tick alone has collected is due.
THEOREM JobsInvariant == Spec => []IInv
<1>1. IInv /\ [Next]_vars => IInv'
  <2> SUFFICES ASSUME IInv, [Next]_vars PROVE IInv'
    OBVIOUS
  <2>1. TypeOK' /\ HandlerInv' /\ AttemptsInv' /\ DoneInv'
    BY TypesNext, AttemptsNext, DoneNext DEF IInv
  <2>2. KeyInv' /\ SeesInv' /\ OneTick' /\ RunInv'
    BY KeyNext, SeesNext, OneTickNext, RunNextInv DEF IInv
  <2> QED
    BY <2>1, <2>2 DEF IInv
<1> QED
  BY InitInv, <1>1, PTL DEF Spec

\* Overlapping ticks, cancels and rejected writes never give a job two attempts at once, and enqueues that do
\* not race never give a dedupKey two live jobs.
THEOREM JobsSound == Spec => []JobsAreSound
<1>1. ASSUME IInv PROVE OneAttemptAtATime
  BY <1>1 DEF IInv, TypeOK, HandlerInv, OneAttemptAtATime, First
<1>2. ASSUME IInv PROVE DedupHolds
  <2> SUFFICES ASSUME NEW k \in Keys \ raced
               PROVE  Cardinality({i \in Ids : DedupKey[i] = k /\ Live(i)}) <= 1
    BY DEF DedupHolds
  <2> DEFINE live == {i \in Ids : DedupKey[i] = k /\ Live(i)}
  <2>1. \A i, j \in live : i = j
    BY <1>2 DEF IInv, KeyInv, Holds
  <2>2. CASE live = {}
    BY <2>2, FS_EmptySet
  <2>3. CASE live # {}
    <3>1. PICK i \in live : live = {i}
      BY <2>1, <2>3
    <3>2. Cardinality({i}) = 1
      BY FS_Singleton
    <3> QED
      BY <3>1, <3>2
  <2> QED
    BY <2>2, <2>3
<1>3. IInv => JobsAreSound
  BY <1>1, <1>2 DEF IInv, JobsAreSound
<1> QED
  BY JobsInvariant, <1>3, PTL

\* A job that is completed, cancelled or in the dead letter keeps its status, whatever ticks had it on their
\* lists: each of them looks at the status again inside the job's chain.
THEOREM FinishedStaysFinished == Spec => TerminalIsFinal
<1> DEFINE Stays == \A i \in Ids : stored[i].status \in Terminal => stored'[i].status = stored[i].status
<1>1. ASSUME IInv, [Next]_vars PROVE [Stays]_vars
  <2> SUFFICES ASSUME NEW i \in Ids, stored[i].status \in Terminal PROVE stored'[i].status = stored[i].status
    OBVIOUS
  <2>1. JobStep(i)
    BY <1>1, JobSteps DEF IInv
  <2>2. enq[i].at # "persist"
    BY <1>1, KindsOfStatus DEF IInv, AttemptsInv, Has
  <2> QED
    BY <2>1, <2>2, KindsOfStatus DEF JobStep, Has, Live
<1> QED
  BY JobsInvariant, <1>1, PTL DEF Spec, TerminalIsFinal

\* A handler that has returned in time is run again only when the store has lost its completion.
THEOREM WorkIsDoneOnce == Spec => WorkIsNotRepeated
<1> DEFINE Once == \A i \in Ids : i \in inTime /\ stored'[i].attempts > stored[i].attempts => i \in lost
<1>1. ASSUME IInv, [Next]_vars PROVE [Once]_vars
  <2> SUFFICES ASSUME NEW i \in Ids, i \in inTime, stored'[i].attempts > stored[i].attempts, i \notin lost PROVE FALSE
    OBVIOUS
  <2>1. JobStep(i)
    BY <1>1, JobSteps DEF IInv
  <2>2. Has(i, "completed")
    BY <1>1 DEF IInv, DoneInv
  <2>3. stored[i].attempts \in Nat
    BY <1>1, Typed, ConstantsAssumption DEF IInv, Model
  <2> QED
    BY <2>1, <2>2, <2>3, KindsOfStatus DEF JobStep, Has
<1> QED
  BY JobsInvariant, <1>1, PTL DEF Spec, WorkIsNotRepeated

\* A retry starts after its delay, unless calls of tick have overlapped.
THEOREM RetriesWait == Spec => RetryWaits
<1> DEFINE Wait == \A i \in Ids : Has(i, "retrying") /\ stored'[i].status = "running" => stored[i].due \/ overlap
<1>1. ASSUME IInv, [Next]_vars PROVE [Wait]_vars
  <2> SUFFICES ASSUME NEW i \in Ids, Has(i, "retrying"), stored'[i].status = "running" PROVE stored[i].due \/ overlap
    OBVIOUS
  <2>1. JobStep(i)
    BY <1>1, JobSteps DEF IInv
  <2>2. \E t \in Ticks : tick[t].at = "run" /\ tick[t].job = i
    BY <2>1 DEF JobStep, Has
  <2> QED
    BY <1>1, <2>2 DEF IInv, RunInv, Collected
<1> QED
  BY JobsInvariant, <1>1, PTL DEF Spec, RetryWaits
=============================================================================
