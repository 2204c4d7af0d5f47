---------------------------- MODULE SerialStore ----------------------------
(***************************************************************************)
(* What dbTransaction promises its callers, whatever it does inside: the   *)
(* calls are decided one at a time in the order they were made, each       *)
(* either applied as a whole or refused, and a decision is final.  A       *)
(* restart of the process refuses whatever is still waiting.               *)
(***************************************************************************)
EXTENDS Naturals, Sequences

CONSTANTS Calls      \* calls of dbTransaction

VARIABLES
  place,      \* the order the calls were made in
  last,       \* the last place given out
  outcome,    \* what has become of each call
  log         \* the transactions applied, in order

storeVars == <<place, last, outcome, log>>

Init ==
  /\ place = [c \in Calls |-> 0]
  /\ last = 0
  /\ outcome = [c \in Calls |-> "none"]
  /\ log = <<>>

Submit(c) ==
  /\ outcome[c] = "none"
  /\ outcome' = [outcome EXCEPT ![c] = "waiting"]
  /\ last' = last + 1
  /\ place' = [place EXCEPT ![c] = last + 1]
  /\ UNCHANGED log

\* It is c's turn: it waits, and no call made before it still does.
Turn(c) ==
  /\ outcome[c] = "waiting"
  /\ \A d \in Calls : outcome[d] = "waiting" => place[c] <= place[d]

Apply(c) ==
  /\ Turn(c)
  /\ outcome' = [outcome EXCEPT ![c] = "applied"]
  /\ log' = Append(log, c)
  /\ UNCHANGED <<place, last>>

Refuse(c) ==
  /\ Turn(c)
  /\ outcome' = [outcome EXCEPT ![c] = "refused"]
  /\ UNCHANGED <<place, last, log>>

LoseAll ==
  /\ outcome' = [c \in Calls |->
                   IF outcome[c] = "waiting" THEN "refused" ELSE outcome[c]]
  /\ UNCHANGED <<place, last, log>>

Next ==
  \/ \E c \in Calls : Submit(c) \/ Apply(c) \/ Refuse(c)
  \/ LoseAll

Spec == Init /\ [][Next]_storeVars
============================================================================
