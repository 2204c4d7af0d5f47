------------------------------ MODULE Sessions ------------------------------
(***************************************************************************)
(* The sessions of one driver: login, refresh with rotation, logout and       *)
(* logout-all (application/identity/useCases.js over middleware/auth.js), and  *)
(* the approval transitions of application/drivers/useCases.js, which end the  *)
(* sessions of a suspended driver.  Requests interleave at every await; a      *)
(* statement may fail and the process may stop.  One-time codes are left out:  *)
(* a login starts where its code has been accepted.  Time is left out: expiry   *)
(* only removes, and of the access tokens only their revocation is kept.       *)
(***************************************************************************)
EXTENDS Naturals, FiniteSets

CONSTANTS
  Calls,       \* requests in progress at one time
  MaxTokens,   \* bound: refresh tokens issued
  MaxChanges,  \* bound: approval requests
  MaxFailures  \* bound: failing statements and stops of the process

ASSUME BoundsAssumption ==
  /\ MaxTokens \in Nat /\ MaxChanges \in Nat
  /\ MaxFailures \in Nat

Tokens == 1..MaxTokens
Statuses == {"pending", "approved", "rejected", "suspended"}
Changes == {"approve", "reject", "suspend", "reactivate"}
Steps == {"none", "verify", "gate", "issue", "block", "rotate", "insert", "logout", "decide",
          "revoke", "close"}

VARIABLES
  status,     \* drivers.approval_status
  rows,       \* refresh_tokens: per token none, live or revoked
  spent,      \* tokens for which a successor was issued
  inMap,      \* REVOKED_TOKENS holds the last revocation of access tokens
  saved,      \* revoked_tokens holds it
  saving,     \* the write of it is under way
  call,       \* per request its next step, the change it asks for, its token
  changes, failures,  \* bounded counts
  revoked,    \* access tokens have been revoked
  closed,     \* all sessions have been ended and no login has succeeded since
  stale,      \* the requests that were under way when they were
  escaped,    \* one of these has issued a token
  blocked,    \* the requests during which the driver has never been approved
  ended,      \* tokens ended by a logout, the end of all sessions or a refused refresh
  broken      \* tokens whose rotation was cut off between its two writes

vars == <<status, rows, spent, inMap, saved, saving, call, changes, failures,
          revoked, closed, stale, escaped, blocked, ended, broken>>
table == <<rows, spent>>
revocation == <<inMap, saved, saving, revoked>>
counts == <<changes, failures>>
marks == <<closed, escaped, ended, broken>>

Idle == [at |-> "none", change |-> "none", tok |-> 0]
At(c, step) == call[c].at = step
Active == {c \in Calls : ~At(c, "none")}
Live == {t \in Tokens : rows[t] = "live"}
Issued == {t \in Tokens : rows[t] # "none"}

Init ==
  /\ status \in {"pending", "approved"}
  /\ rows = [t \in Tokens |-> "none"] /\ spent = {}
  /\ inMap = FALSE /\ saved = FALSE /\ saving = FALSE /\ revoked = FALSE
  /\ call = [c \in Calls |-> Idle]
  /\ changes = 0 /\ failures = 0
  /\ closed = FALSE /\ stale = {} /\ escaped = FALSE /\ blocked = {}
  /\ ended = {} /\ broken = {}

(******************************* REQUESTS **********************************)

Begins(c, entry) ==
  /\ At(c, "none")
  /\ call' = [call EXCEPT ![c] = entry]
  /\ blocked' = IF status = "approved" THEN blocked ELSE blocked \cup {c}
  /\ UNCHANGED stale
GoesTo(c, step) == call' = [call EXCEPT ![c].at = step] /\ UNCHANGED <<blocked, stale>>
Answers(c) ==
  /\ call' = [call EXCEPT ![c] = Idle]
  /\ blocked' = blocked \ {c} /\ stale' = stale \ {c}

\* revokeTokens: the map at once, the row by a write nobody waits for
Revokes ==
  /\ inMap' = TRUE /\ saving' = TRUE /\ revoked' = TRUE /\ saved' = FALSE

Login(c) ==
  /\ Begins(c, [at |-> "gate", change |-> "none", tok |-> 0])
  /\ UNCHANGED <<status, table, revocation, counts, marks>>

Refresh(c) ==
  /\ \E t \in Issued : Begins(c, [at |-> "verify", change |-> "none", tok |-> t])
  /\ UNCHANGED <<status, table, revocation, counts, marks>>

\* logout: access tokens first, when the client still has a valid one
Logout(c) ==
  /\ \E t \in Issued : Begins(c, [at |-> "logout", change |-> "none", tok |-> t])
  /\ Revokes \/ UNCHANGED revocation
  /\ UNCHANGED <<status, table, counts, marks>>

LogoutAll(c) ==
  /\ Issued # {}
  /\ Begins(c, [at |-> "close", change |-> "none", tok |-> 0])
  /\ Revokes
  /\ UNCHANGED <<status, table, counts, marks>>

Change(c) ==
  /\ changes < MaxChanges /\ changes' = changes + 1
  /\ \E change \in Changes : Begins(c, [at |-> "decide", change |-> change, tok |-> 0])
  /\ UNCHANGED <<status, table, revocation, failures, marks>>

(******************************** STEPS ************************************)

\* Faulty variant of Verify: a revoked token is found as well.
VerifyAny(c) ==
  /\ At(c, "verify") /\ GoesTo(c, "gate")
  /\ UNCHANGED <<status, table, revocation, counts, marks>>

\* verifyRefreshToken
Verify(c) ==
  /\ At(c, "verify")
  /\ IF call[c].tok \in Live THEN GoesTo(c, "gate") ELSE Answers(c)
  /\ UNCHANGED <<status, table, revocation, counts, marks>>

\* Faulty variant of Gate: a refresh does not look at the approval.
GateLoginOnly(c) ==
  /\ At(c, "gate")
  /\ LET login == call[c].tok = 0 IN
     \/ login /\ status = "approved" /\ GoesTo(c, "issue")
     \/ login /\ status # "approved" /\ Answers(c)
     \/ ~login /\ GoesTo(c, "rotate")
  /\ UNCHANGED <<status, table, revocation, counts, marks>>

\* driverLoginGate and driverRefreshGate
Gate(c) ==
  /\ At(c, "gate")
  /\ LET login == call[c].tok = 0 IN
     \/ login /\ status = "approved" /\ GoesTo(c, "issue")
     \/ login /\ status # "approved" /\ Answers(c)
     \/ ~login /\ status = "approved" /\ GoesTo(c, "rotate")
     \/ ~login /\ status # "approved" /\ GoesTo(c, "block")
  /\ UNCHANGED <<status, table, revocation, counts, marks>>

\* a login writes the driver's presence before it issues its tokens
Issue(c) ==
  /\ At(c, "issue") /\ GoesTo(c, "insert")
  /\ UNCHANGED <<status, table, revocation, counts, marks>>

RevokeRow(c) == rows' = [rows EXCEPT ![call[c].tok] = "revoked"] /\ UNCHANGED spent

\* a refused refresh and a logout revoke the token they were given
EndToken(c) ==
  /\ At(c, "block") \/ At(c, "logout")
  /\ RevokeRow(c) /\ Answers(c)
  /\ ended' = ended \cup {call[c].tok}
  /\ UNCHANGED <<status, revocation, counts, closed, escaped, broken>>

\* Faulty variant of Rotate: the old token is left as it is.
RotateKeeping(c) ==
  /\ At(c, "rotate") /\ GoesTo(c, "insert")
  /\ UNCHANGED <<status, table, revocation, counts, marks>>

\* rotation: the old token is revoked, then the new one inserted
Rotate(c) ==
  /\ At(c, "rotate")
  /\ RevokeRow(c) /\ GoesTo(c, "insert")
  /\ UNCHANGED <<status, revocation, counts, marks>>

\* generateRefreshToken, and the answer with both tokens.  Bound: MaxTokens
Insert(c) ==
  /\ At(c, "insert")
  /\ Issued # Tokens
  /\ LET t == Cardinality(Issued) + 1 IN
     /\ rows' = [rows EXCEPT ![t] = "live"]
     /\ spent' = spent \cup ({call[c].tok} \ {0})
  /\ closed' = (closed /\ (c \in stale \/ call[c].tok # 0))
  /\ escaped' = (closed /\ (escaped \/ c \in stale))
  /\ Answers(c)
  /\ UNCHANGED <<status, revocation, counts, ended, broken>>

\* the decisions of driverPolicies.js
Allowed(change) ==
  \/ change = "approve" /\ status # "approved"
  \/ change = "reject" /\ status # "rejected"
  \/ change = "suspend" /\ status # "suspended"
  \/ change = "reactivate" /\ status \in {"rejected", "suspended"}
Outcome == [approve |-> "approved", reject |-> "rejected", suspend |-> "suspended", reactivate |-> "approved"]

\* transition: the decision and its write are one transaction; only a suspension goes on
Decide(c) ==
  /\ At(c, "decide")
  /\ LET change == call[c].change IN
     IF Allowed(change)
     THEN /\ status' = Outcome[change]
          /\ IF change = "suspend"
             THEN call' = [call EXCEPT ![c].at = "revoke"] /\ UNCHANGED stale
             ELSE call' = [call EXCEPT ![c] = Idle] /\ stale' = stale \ {c}
          /\ blocked' = IF Outcome[change] = "approved" THEN {}
                        ELSE IF change = "suspend" THEN blocked ELSE blocked \ {c}
     ELSE Answers(c) /\ UNCHANGED status
  /\ UNCHANGED <<table, revocation, counts, marks>>

\* Faulty variant of RevokeAccess: the refresh tokens are forgotten.
RevokeAccessOnly(c) ==
  /\ At(c, "revoke") /\ Revokes /\ Answers(c)
  /\ UNCHANGED <<status, table, counts, marks>>

\* revokeAccess, when the driver has been read again
RevokeAccess(c) ==
  /\ At(c, "revoke")
  /\ Revokes /\ GoesTo(c, "close")
  /\ UNCHANGED <<status, table, counts, marks>>

\* revokeAllRefreshTokens
Close(c) ==
  /\ At(c, "close")
  /\ rows' = [t \in Tokens |-> IF rows[t] = "live" THEN "revoked" ELSE rows[t]]
  /\ ended' = ended \cup Live
  /\ closed' = TRUE /\ escaped' = FALSE
  /\ call' = [call EXCEPT ![c] = Idle]
  /\ blocked' = blocked \ {c} /\ stale' = Active \ {c}
  /\ UNCHANGED <<status, spent, revocation, counts, broken>>

(******************************** FAULTS ***********************************)

Failure == failures < MaxFailures /\ failures' = failures + 1

\* what is left when a request breaks off: a rotation between its writes has revoked and not issued
CutOff(cs) == {call[c].tok : c \in {d \in cs : At(d, "insert")}} \ {0}

\* the statement fails and the request with it
StatementFails(c) ==
  /\ ~At(c, "none") /\ Failure
  /\ Answers(c)
  /\ broken' = broken \cup CutOff({c})
  /\ UNCHANGED <<status, table, revocation, changes, closed, escaped, ended>>

\* the write of a revocation succeeds, or fails without a word
Saved ==
  /\ saving /\ saving' = FALSE
  /\ \/ saved' = TRUE /\ UNCHANGED counts
     \/ Failure /\ UNCHANGED <<saved, changes>>
  /\ UNCHANGED <<status, table, inMap, revoked, call, marks, stale, blocked>>

\* the process stops and starts: initRevocationStore loads what was saved
Restart ==
  /\ Failure
  /\ call' = [c \in Calls |-> Idle] /\ stale' = {} /\ blocked' = {}
  /\ inMap' = saved /\ saving' = FALSE
  /\ broken' = broken \cup CutOff(Calls)
  /\ UNCHANGED <<status, table, saved, revoked, changes, closed, escaped, ended>>

Step(c) ==
  \/ Verify(c) \/ Gate(c) \/ Issue(c) \/ EndToken(c) \/ Rotate(c) \/ Insert(c)
  \/ Decide(c) \/ RevokeAccess(c) \/ Close(c)
Next ==
  \/ \E c \in Calls :
       Login(c) \/ Refresh(c) \/ Logout(c) \/ LogoutAll(c) \/ Change(c) \/ Step(c) \/ StatementFails(c)
  \/ Saved \/ Restart

Spec == Init /\ [][Next]_vars
\* the database answers every statement
LiveSpec == Spec /\ \A c \in Calls : WF_vars(Step(c))

(******************************* PROPERTIES ********************************)

\* The variables keep their shapes.
TypeOK ==
  /\ status \in Statuses
  /\ rows \in [Tokens -> {"none", "live", "revoked"}] /\ spent \subseteq Issued
  /\ {inMap, saved, saving, revoked} \subseteq BOOLEAN
  /\ call \in [Calls -> [at : Steps, change : Changes \cup {"none"}, tok : 0..MaxTokens]]
  /\ changes \in 0..MaxChanges /\ failures \in 0..MaxFailures
  /\ closed \in BOOLEAN /\ escaped \in BOOLEAN /\ stale \subseteq Active /\ blocked \subseteq Active
  /\ ended \subseteq Tokens /\ broken \subseteq Tokens

\* When a suspension or a logout-all has revoked the refresh tokens, no session of the driver is left and
\* none can be refreshed, until he logs in again: except through a login or refresh that was under way.
ClosedStaysClosed == closed /\ ~escaped => Live = {}

\* A request during which the driver was never approved issues no token, whatever tokens it was given and
\* whichever approval requests ran beside it.  ("No token may ever be issued for a non-approved driver",
\* loginPolicy.js:35, holds to this extent: the gate is read some statements before the token is issued.)
NoTokenForBlocked ==
  [][ \A c \in Calls : At(c, "insert") /\ rows' # rows /\ call'[c] = Idle => c \notin blocked ]_vars

\* A refresh token that has been exchanged for a successor is never accepted again.  (Two refreshes that
\* have both verified a token before either revokes it do get a successor each.)
ExchangedOnce ==
  [][ \A c \in Calls : At(c, "verify") /\ call'[c].at = "gate" => call[c].tok \notin spent ]_vars

\* A client whose token is revoked was logged out, suspended or refused, or has got a successor, or its
\* refresh is about to insert it: only a failure between the two writes of a rotation loses a session.
NoSessionLost ==
  \A t \in Issued \ (Live \cup ended \cup broken \cup spent) :
    \E c \in Calls : At(c, "insert") /\ call[c].tok = t

\* An access token revoked by a logout or a suspension stays rejected after a restart, unless the write
\* that nobody waits for had not been made.
RevocationOutlivesRestart == revoked => inMap \/ ~saved

\* The invariants above together: at every step of logins, refreshes, logouts, approval changes and
\* restarts what was closed stays closed, and nothing else is.
SessionsAreSound == TypeOK /\ ClosedStaysClosed /\ NoSessionLost /\ RevocationOutlivesRestart

\* A suspended driver ends up without a live refresh token, if no statement fails, the process does not
\* stop, and no login or refresh was under way.
SuspensionEndsSessions ==
  []<>(status # "suspended" \/ Live = {} \/ escaped \/ failures > 0)

=============================================================================
