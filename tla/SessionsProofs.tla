--------------------------- MODULE SessionsProofs ---------------------------
(***************************************************************************)
(* Sessions for any number of requests, tokens, changes and failures: what  *)
(* was closed stays closed, no session is lost, a revocation outlives a      *)
(* restart, a driver who was never approved gets no token, and a token that  *)
(* has been exchanged is not accepted again.                                 *)
(***************************************************************************)
EXTENDS Sessions, FiniteSetTheorems, TLAPS

Entry == [at : Steps, change : Changes \cup {"none"}, tok : 0..MaxTokens]

\* Tokens are issued in order, requests carry issued tokens, and the token of a rotation between its two
\* writes is revoked for good, as is every token that has a successor.
Numbered == \E k \in 0..MaxTokens : Issued = 1..k
Carries(e, issued, r) ==
  /\ e.tok \in issued \cup {0}
  /\ e.at \in {"verify", "rotate", "block", "logout"} => e.tok # 0
  /\ e.at = "issue" => e.tok = 0
  /\ e.at = "insert" /\ e.tok # 0 => r[e.tok] = "revoked"
Carried == \A c \in Calls : Carries(call[c], Issued, rows)
SpentInv == \A t \in spent : rows[t] # "live"

\* A request that has passed the gate has seen the driver approved.
Unblocked ==
  /\ status = "approved" => blocked = {}
  /\ \A c \in Calls : call[c].at \in {"issue", "rotate", "insert"} => c \notin blocked

\* After the end of all sessions only a refresh that was under way is past the look at its token.
UnderWay ==
  closed /\ ~escaped =>
    \A c \in Calls : call[c].at \in {"gate", "issue", "rotate", "insert"} /\ call[c].tok # 0 => c \in stale

\* What is being saved is in the map.
SavingInv == saving => inMap

IInv ==
  /\ TypeOK /\ Numbered /\ Carried /\ SpentInv /\ Unblocked /\ UnderWay /\ SavingInv
  /\ ClosedStaysClosed /\ NoSessionLost /\ RevocationOutlivesRestart

----------------------------------------------------------------------------
(******************************* REQUESTS *********************************)

LEMMA IdleIsEntry == Idle \in Entry /\ Idle.at = "none" /\ Idle.tok = 0
BY BoundsAssumption DEF Idle, Entry, Steps, Changes

\* One request takes a step and the others stay where they are.
LEMMA OneCall ==
  ASSUME TypeOK, NEW c \in Calls, NEW e \in Entry, call' = [call EXCEPT ![c] = e]
  PROVE  /\ call' \in [Calls -> Entry] /\ call'[c] = e
         /\ \A d \in Calls : d # c => call'[d] = call[d]
BY DEF TypeOK, Entry

LEMMA GoesToParts ==
  ASSUME TypeOK, NEW c \in Calls, NEW step \in Steps \ {"none"}, GoesTo(c, step)
  PROVE  /\ call' \in [Calls -> Entry]
         /\ call'[c].at = step /\ call'[c].tok = call[c].tok
         /\ \A d \in Calls : d # c => call'[d] = call[d]
         /\ stale' \subseteq Active' /\ blocked' \subseteq Active'
         /\ stale' = stale /\ blocked' = blocked
<1> DEFINE e == [call[c] EXCEPT !.at = step]
<1>1. call \in [Calls -> Entry]
  BY DEF TypeOK, Entry
<1>2. e \in Entry /\ e.at = step /\ e.tok = call[c].tok
  BY <1>1 DEF Entry
<1>3. call' = [call EXCEPT ![c] = e]
  BY DEF GoesTo
<1> HIDE DEF e
<1>4. call' \in [Calls -> Entry] /\ call'[c] = e /\ \A d \in Calls : d # c => call'[d] = call[d]
  BY <1>2, <1>3, OneCall
<1>5. Active \subseteq Active'
  BY <1>2, <1>4 DEF Active, At
<1> QED
  BY <1>2, <1>4, <1>5 DEF GoesTo, TypeOK

LEMMA BeginsParts ==
  ASSUME TypeOK, NEW c \in Calls, NEW e \in Entry, e.at # "none", Begins(c, e)
  PROVE  /\ call' \in [Calls -> Entry] /\ call'[c] = e
         /\ \A d \in Calls : d # c => call'[d] = call[d]
         /\ stale' \subseteq Active' /\ blocked' \subseteq Active'
         /\ stale' = stale /\ blocked' \subseteq blocked \cup {c}
         /\ status = "approved" => blocked' = blocked
<1>1. call' \in [Calls -> Entry] /\ call'[c] = e /\ \A d \in Calls : d # c => call'[d] = call[d]
  BY OneCall DEF Begins
<1>2. Active \subseteq Active' /\ c \in Active'
  BY <1>1 DEF Active, At
<1> QED
  BY <1>1, <1>2 DEF Begins, TypeOK

LEMMA AnswersParts ==
  ASSUME TypeOK, NEW c \in Calls, Answers(c)
  PROVE  /\ call' \in [Calls -> Entry] /\ call'[c] = Idle
         /\ \A d \in Calls : d # c => call'[d] = call[d]
         /\ stale' \subseteq Active' /\ blocked' \subseteq Active'
         /\ stale' = stale \ {c} /\ blocked' = blocked \ {c}
<1>1. call' \in [Calls -> Entry] /\ call'[c] = Idle /\ \A d \in Calls : d # c => call'[d] = call[d]
  BY OneCall, IdleIsEntry DEF Answers
<1>2. Active \ {c} \subseteq Active'
  BY <1>1 DEF Active, At
<1> QED
  BY <1>1, <1>2 DEF Answers, TypeOK

\* The entries the requests begin with.
LEMMA Entries ==
  /\ \A s \in Steps, x \in Changes \cup {"none"} : [at |-> s, change |-> x, tok |-> 0] \in Entry
  /\ \A s \in Steps, t \in Tokens : [at |-> s, change |-> "none", tok |-> t] \in Entry /\ t # 0
<1>1. 0 \in 0..MaxTokens /\ \A t \in Tokens : t \in 0..MaxTokens /\ t # 0
  BY BoundsAssumption, SMTT(30) DEF Tokens
<1> QED
  BY <1>1 DEF Entry

----------------------------------------------------------------------------
(******************************* TOKENS ***********************************)

\* The number of the next token.
LEMMA NextToken ==
  ASSUME TypeOK, Numbered, Issued # Tokens
  PROVE  /\ Cardinality(Issued) + 1 \in Tokens \ Issued
         /\ \E k \in 0..MaxTokens : Issued \cup {Cardinality(Issued) + 1} = 1..k
<1>1. PICK k \in 0..MaxTokens : Issued = 1..k
  BY DEF Numbered
<1>2. k \in Nat /\ MaxTokens \in Nat
  BY <1>1, BoundsAssumption, SMTT(30)
<1>3. Cardinality(Issued) = k
  <2>1. Cardinality(1..k) = IF 1 > k THEN 0 ELSE k - 1 + 1
    BY <1>2, FS_Interval
  <2> QED
    BY <1>1, <1>2, <2>1, SMTT(30)
<1>4. k < MaxTokens
  BY <1>1, <1>2, SMTT(30) DEF Tokens
<1>5. k + 1 \in 0..MaxTokens /\ k + 1 \in Tokens \ (1..k)
  BY <1>2, <1>4, SMTT(30) DEF Tokens
<1>6. 1..k \cup {k + 1} = 1..(k + 1)
  BY <1>2, SMTT(30)
<1> QED
  BY <1>1, <1>3, <1>5, <1>6

\* A token is revoked: none is issued and none becomes live.
LEMMA RevokeRowParts ==
  ASSUME TypeOK, Carried, NEW c \in Calls, call[c].tok # 0, RevokeRow(c)
  PROVE  /\ call[c].tok \in Issued /\ rows'[call[c].tok] = "revoked"
         /\ rows' \in [Tokens -> {"none", "live", "revoked"}] /\ Issued' = Issued /\ spent' = spent
         /\ \A t \in Tokens : t # call[c].tok => rows'[t] = rows[t]
<1>1. call[c].tok \in Issued
  BY DEF Carried, Carries
<1>2. call[c].tok \in Tokens /\ rows[call[c].tok] # "none"
  BY <1>1 DEF Issued
<1>3. rows' = [rows EXCEPT ![call[c].tok] = "revoked"] /\ spent' = spent
  BY DEF RevokeRow
<1>4. /\ rows' \in [Tokens -> {"none", "live", "revoked"}] /\ rows'[call[c].tok] = "revoked"
      /\ \A t \in Tokens : t # call[c].tok => rows'[t] = rows[t]
  BY <1>2, <1>3 DEF TypeOK
<1>5. Issued' = Issued
  BY <1>2, <1>4 DEF Issued
<1> QED
  BY <1>1, <1>3, <1>4, <1>5

LEMMA CloseParts ==
  ASSUME TypeOK, NEW c \in Calls, Close(c)
  PROVE  /\ rows' \in [Tokens -> {"none", "live", "revoked"}] /\ Issued' = Issued /\ Live' = {} /\ spent' = spent
         /\ \A t \in Tokens : rows'[t] = IF rows[t] = "live" THEN "revoked" ELSE rows[t]
<1>1. rows' = [t \in Tokens |-> IF rows[t] = "live" THEN "revoked" ELSE rows[t]] /\ spent' = spent
  BY DEF Close
<1>2. /\ rows' \in [Tokens -> {"none", "live", "revoked"}]
      /\ \A t \in Tokens : rows'[t] = IF rows[t] = "live" THEN "revoked" ELSE rows[t]
  BY <1>1 DEF TypeOK
<1> QED
  BY <1>1, <1>2 DEF Issued, Live

LEMMA InsertParts ==
  ASSUME TypeOK, Numbered, Carried, NEW c \in Calls, Insert(c)
  PROVE  \E t \in Tokens \ Issued :
           /\ rows' \in [Tokens -> {"none", "live", "revoked"}] /\ Issued' = Issued \cup {t} /\ Numbered'
           /\ rows'[t] = "live" /\ \A u \in Tokens : u # t => rows'[u] = rows[u]
           /\ spent' = spent \cup ({call[c].tok} \ {0})
<1> DEFINE t == Cardinality(Issued) + 1
<1>1. t \in Tokens \ Issued /\ \E k \in 0..MaxTokens : Issued \cup {t} = 1..k
  BY NextToken DEF Insert
<1>2. rows' = [rows EXCEPT ![t] = "live"] /\ spent' = spent \cup ({call[c].tok} \ {0})
  BY DEF Insert
<1> HIDE DEF t
<1>3. /\ rows' \in [Tokens -> {"none", "live", "revoked"}]
      /\ rows'[t] = "live" /\ \A u \in Tokens : u # t => rows'[u] = rows[u]
  BY <1>1, <1>2 DEF TypeOK
<1>4. Issued' = Issued \cup {t}
  BY <1>1, <1>3 DEF Issued
<1>5. Numbered'
  BY <1>1, <1>4 DEF Numbered
<1> QED
  BY <1>1, <1>2, <1>3, <1>4, <1>5

----------------------------------------------------------------------------
(******************************* TYPES ************************************)

LEMMA TypesInit == Init => TypeOK
<1> SUFFICES ASSUME Init PROVE TypeOK
  OBVIOUS
<1>1. call \in [Calls -> Entry]
  BY IdleIsEntry DEF Init
<1>2. changes \in 0..MaxChanges /\ failures \in 0..MaxFailures
  BY BoundsAssumption, SMTT(30) DEF Init
<1> QED
  BY <1>1, <1>2 DEF Init, TypeOK, Entry, Statuses

\* The step of a request that decides on an approval, or that ends all sessions.
LEMMA DecideParts ==
  ASSUME TypeOK, NEW c \in Calls, Decide(c)
  PROVE  /\ call' \in [Calls -> Entry] /\ call'[c].at \in {"none", "revoke"} /\ call'[c].tok \in {0, call[c].tok}
         /\ \A d \in Calls : d # c => call'[d] = call[d]
         /\ stale' \subseteq Active' /\ blocked' \subseteq Active' /\ status' \in Statuses
         /\ \A d \in Calls : d # c /\ d \in stale => d \in stale'
         /\ blocked' \subseteq blocked /\ (status' = "approved" => blocked' = {} \/ status' = status)
<1>1. CASE Answers(c) /\ UNCHANGED status
  BY <1>1, AnswersParts, IdleIsEntry DEF TypeOK, Answers
<1>2. CASE Allowed(call[c].change) /\ call[c].change = "suspend"
  <2> DEFINE e == [call[c] EXCEPT !.at = "revoke"]
  <2>1. e \in Entry /\ e.at = "revoke" /\ e.tok = call[c].tok
    <3>1. call[c] \in Entry
      BY DEF TypeOK, Entry
    <3> QED
      BY <3>1 DEF Entry, Steps
  <2>2. call' = [call EXCEPT ![c] = e] /\ stale' = stale /\ status' = "suspended" /\ blocked' = blocked
    BY <1>2 DEF Decide, Outcome
  <2> HIDE DEF e
  <2>3. call' \in [Calls -> Entry] /\ call'[c] = e /\ \A d \in Calls : d # c => call'[d] = call[d]
    BY <2>1, <2>2, OneCall
  <2>4. Active \subseteq Active'
    BY <2>1, <2>3 DEF Active, At
  <2> QED
    BY <2>1, <2>2, <2>3, <2>4 DEF TypeOK, Statuses
<1>3. CASE Allowed(call[c].change) /\ call[c].change # "suspend"
  <2>1. call' = [call EXCEPT ![c] = Idle] /\ stale' = stale \ {c}
    BY <1>3 DEF Decide
  <2>2. call' \in [Calls -> Entry] /\ call'[c] = Idle /\ \A d \in Calls : d # c => call'[d] = call[d]
    BY <2>1, OneCall, IdleIsEntry
  <2>3. Active \ {c} \subseteq Active'
    BY <2>2 DEF Active, At
  <2>4. /\ status' = Outcome[call[c].change]
        /\ blocked' = IF Outcome[call[c].change] = "approved" THEN {} ELSE blocked \ {c}
    BY <1>3 DEF Decide
  <2>5. status' \in Statuses
    BY <1>3, <2>4 DEF Allowed, Outcome, Statuses
  <2> QED
    BY <2>1, <2>2, <2>3, <2>4, <2>5, IdleIsEntry DEF TypeOK
<1> QED
  BY <1>1, <1>2, <1>3 DEF Decide

LEMMA CloseCall ==
  ASSUME TypeOK, NEW c \in Calls, Close(c)
  PROVE  /\ call' \in [Calls -> Entry] /\ call'[c] = Idle
         /\ \A d \in Calls : d # c => call'[d] = call[d]
         /\ stale' \subseteq Active' /\ blocked' \subseteq Active'
         /\ stale' = Active \ {c} /\ blocked' = blocked \ {c}
<1>1. call' \in [Calls -> Entry] /\ call'[c] = Idle /\ \A d \in Calls : d # c => call'[d] = call[d]
  BY OneCall, IdleIsEntry DEF Close
<1>2. Active \ {c} \subseteq Active'
  BY <1>1 DEF Active, At
<1> QED
  BY <1>1, <1>2 DEF Close, TypeOK

\* Requests keep their shape, and only requests in progress are marked.
LEMMA CallTypes ==
  ASSUME TypeOK, [Next]_vars
  PROVE  call' \in [Calls -> Entry] /\ stale' \subseteq Active' /\ blocked' \subseteq Active'
<1> DEFINE Shapes == call' \in [Calls -> Entry] /\ stale' \subseteq Active' /\ blocked' \subseteq Active'
<1>1. ASSUME NEW c \in Calls, Login(c) \/ Refresh(c) \/ Logout(c) \/ LogoutAll(c) \/ Change(c)
      PROVE  Shapes
  BY <1>1, BeginsParts, Entries DEF Login, Refresh, Logout, LogoutAll, Change, Issued, Steps
<1>2. ASSUME NEW c \in Calls, Verify(c) \/ Gate(c) \/ Issue(c) \/ Rotate(c) \/ RevokeAccess(c)
      PROVE  Shapes
  BY <1>2, GoesToParts, AnswersParts DEF Verify, Gate, Issue, Rotate, RevokeAccess, Steps
<1>3. ASSUME NEW c \in Calls, EndToken(c) \/ Insert(c) \/ StatementFails(c) PROVE Shapes
  BY <1>3, AnswersParts DEF EndToken, Insert, StatementFails
<1>4. ASSUME NEW c \in Calls, Decide(c) \/ Close(c) PROVE Shapes
  BY <1>4, DecideParts, CloseCall
<1>5. CASE Saved \/ UNCHANGED vars
  BY <1>5 DEF Saved, marks, vars, TypeOK, Entry, Active, At
<1>6. CASE Restart
  BY <1>6, IdleIsEntry DEF Restart
<1> QED
  BY <1>1, <1>2, <1>3, <1>4, <1>5, <1>6 DEF Next, Step

LEMMA TableTypes ==
  ASSUME TypeOK, Numbered, Carried, [Next]_vars
  PROVE  rows' \in [Tokens -> {"none", "live", "revoked"}] /\ spent' \subseteq Issued'
<1> DEFINE Shapes == rows' \in [Tokens -> {"none", "live", "revoked"}] /\ spent' \subseteq Issued'
<1>1. CASE UNCHANGED table
  BY <1>1 DEF TypeOK, table, Issued
<1>2. ASSUME NEW c \in Calls, EndToken(c) \/ Rotate(c) PROVE Shapes
  <2>1. call[c].tok # 0
    BY <1>2 DEF Carried, Carries, EndToken, Rotate, At
  <2> QED
    BY <1>2, <2>1, RevokeRowParts DEF EndToken, Rotate, TypeOK
<1>3. ASSUME NEW c \in Calls, Insert(c) PROVE Shapes
  <2>1. /\ rows' \in [Tokens -> {"none", "live", "revoked"}] /\ Issued \subseteq Issued'
        /\ spent' = spent \cup ({call[c].tok} \ {0})
    BY <1>3, InsertParts
  <2>2. {call[c].tok} \ {0} \subseteq Issued
    BY DEF Carried, Carries
  <2> QED
    BY <2>1, <2>2 DEF TypeOK
<1>4. ASSUME NEW c \in Calls, Close(c) PROVE Shapes
  BY <1>4, CloseParts DEF TypeOK
<1> QED
  BY <1>1, <1>2, <1>3, <1>4 DEF Next, Step, Login, Refresh, Logout, LogoutAll, Change, Verify, Gate, Issue, Decide,
    RevokeAccess, StatementFails, Saved, Restart, vars, table

LEMMA FlagTypes ==
  ASSUME TypeOK, [Next]_vars
  PROVE  /\ {inMap', saved', saving', revoked'} \subseteq BOOLEAN
         /\ closed' \in BOOLEAN /\ escaped' \in BOOLEAN
         /\ changes' \in 0..MaxChanges /\ failures' \in 0..MaxFailures
<1>1. {inMap', saved', saving', revoked'} \subseteq BOOLEAN
  BY ZenonT(60) DEF TypeOK, Next, Step, Login, Refresh, Logout, LogoutAll, Change, Verify, Gate, Issue, EndToken, Rotate, Insert,
     Decide, RevokeAccess, Close, StatementFails, Saved, Restart, vars, Revokes, revocation
<1>2. closed' \in BOOLEAN /\ escaped' \in BOOLEAN
  BY ZenonT(60) DEF TypeOK, Next, Step, Login, Refresh, Logout, LogoutAll, Change, Verify, Gate, Issue, EndToken, Rotate, Insert,
     Decide, RevokeAccess, Close, StatementFails, Saved, Restart, vars, marks
<1>3. changes' \in 0..MaxChanges /\ failures' \in 0..MaxFailures
  <2>1. ASSUME Failure PROVE failures' \in 0..MaxFailures
    BY <2>1, BoundsAssumption, SMTT(30) DEF Failure, TypeOK
  <2>2. ASSUME changes < MaxChanges, changes' = changes + 1 PROVE changes' \in 0..MaxChanges
    BY <2>2, BoundsAssumption, SMTT(30) DEF TypeOK
  <2> QED
    BY <2>1, <2>2 DEF TypeOK, Next, Step, Login, Refresh, Logout, LogoutAll, Change, Verify, Gate, Issue, EndToken,
       Rotate, Insert, Decide, RevokeAccess, Close, StatementFails, Saved, Restart, vars, counts
<1> QED
  BY <1>1, <1>2, <1>3

LEMMA TypesNext ==
  ASSUME TypeOK, Numbered, Carried, [Next]_vars
  PROVE  TypeOK'
<1>1. status' \in Statuses
  <2>1. \A c \in Calls : Decide(c) => status' \in Statuses
    BY DecideParts
  <2> QED
    BY <2>1 DEF TypeOK, Next, Step, Login, Refresh, Logout, LogoutAll, Change, Verify, Gate, Issue, EndToken,
       Rotate, Insert, RevokeAccess, Close, StatementFails, Saved, Restart, vars
<1>2. \A c \in Calls : call[c].tok # 0 => call[c].tok \in Tokens
  BY DEF Carried, Carries, Issued
<1>3. ended' \subseteq Tokens
  <2>1. \A c \in Calls : EndToken(c) => ended' \subseteq Tokens
    BY <1>2 DEF TypeOK, EndToken, Carried, Carries, At
  <2>2. \A c \in Calls : Close(c) => ended' \subseteq Tokens
    BY DEF TypeOK, Close, Live
  <2> QED
    BY <2>1, <2>2 DEF TypeOK, Next, Step, Login, Refresh, Logout, LogoutAll, Change, Verify, Gate, Issue,
       Rotate, Insert, Decide, RevokeAccess, StatementFails, Saved, Restart, vars, marks
<1>4. broken' \subseteq Tokens
  <2>1. \A cs \in SUBSET Calls : CutOff(cs) \subseteq Tokens
    BY <1>2 DEF CutOff
  <2> QED
    BY <2>1 DEF TypeOK, Next, Step, Login, Refresh, Logout, LogoutAll, Change, Verify, Gate, Issue, EndToken,
       Rotate, Insert, Decide, RevokeAccess, Close, StatementFails, Saved, Restart, vars, marks
<1> QED
  BY <1>1, <1>3, <1>4, CallTypes, TableTypes, FlagTypes DEF TypeOK, Entry

----------------------------------------------------------------------------
(******************************* INVARIANTS *******************************)

\* The tokens and those who carry them.
LEMMA TokensNext ==
  ASSUME TypeOK, Numbered, Carried, SpentInv, [Next]_vars
  PROVE  Numbered' /\ Carried' /\ SpentInv'
<1> DEFINE Goal == Numbered' /\ Carried' /\ SpentInv'
<1> DEFINE Fine(d) == Carries(call'[d], Issued, rows)
<1>1. \A d \in Calls : call'[d] = call[d] => Fine(d)
  BY DEF Carried, Carries, At
<1>2. ASSUME UNCHANGED table, \A d \in Calls : Fine(d) PROVE Goal
  <2>1. Issued' = Issued
    BY <1>2 DEF Issued, table
  <2> QED
    BY <1>2, <2>1 DEF table, Numbered, Carried, Carries, SpentInv, At
<1>3. ASSUME NEW c \in Calls, NEW e \in Entry, e.at # "none", Begins(c, e), UNCHANGED table, Carries(e, Issued, rows)
      PROVE  Goal
  <2>1. Fine(c) /\ \A d \in Calls : d # c => call'[d] = call[d]
    BY <1>3, BeginsParts
  <2> QED
    BY <1>1, <1>2, <1>3, <2>1
<1>4. ASSUME NEW c \in Calls, Login(c) \/ LogoutAll(c) \/ Change(c) \/ Refresh(c) \/ Logout(c) PROVE Goal
  <2>1. \A s \in {"gate", "close", "decide"} : \A x : Carries([at |-> s, change |-> x, tok |-> 0], Issued, rows)
    BY DEF Carries
  <2>2. \A t \in Issued, s \in {"verify", "logout"} : \A x : Carries([at |-> s, change |-> x, tok |-> t], Issued, rows)
    BY Entries DEF Carries, Issued, Steps
  <2> QED
    BY <1>3, <1>4, <2>1, <2>2, Entries DEF Login, LogoutAll, Change, Refresh, Logout, Steps, Issued
<1>5. ASSUME NEW c \in Calls, Answers(c), UNCHANGED table PROVE Goal
  <2>1. Fine(c) /\ \A d \in Calls : d # c => call'[d] = call[d]
    BY <1>5, AnswersParts DEF Idle, Carries
  <2> QED
    BY <1>1, <1>2, <1>5, <2>1
<1>6. ASSUME NEW c \in Calls, NEW step \in Steps \ {"none", "insert"}, GoesTo(c, step), UNCHANGED table,
             step \in {"verify", "rotate", "block", "logout"} => call[c].tok # 0,
             step = "issue" => call[c].tok = 0
      PROVE  Goal
  <2>1. Fine(c) /\ \A d \in Calls : d # c => call'[d] = call[d]
    BY <1>6, GoesToParts DEF Carried, Carries
  <2> QED
    BY <1>1, <1>2, <1>6, <2>1
<1>7. ASSUME NEW c \in Calls, Verify(c) \/ Gate(c) \/ RevokeAccess(c) PROVE Goal
  <2>1. At(c, "verify") => call[c].tok # 0
    BY DEF At, Carried, Carries
  <2> QED
    BY <1>5, <1>6, <1>7, <2>1 DEF Verify, Gate, RevokeAccess, Steps
<1>8. ASSUME NEW c \in Calls, Issue(c) PROVE Goal
  <2>1. call'[c].tok = call[c].tok /\ call'[c].at = "insert" /\ \A d \in Calls : d # c => call'[d] = call[d]
    BY <1>8, GoesToParts DEF Issue, Steps
  <2>2. Fine(c)
    BY <1>8, <2>1 DEF Issue, At, Carried, Carries
  <2> QED
    BY <1>1, <1>2, <1>8, <2>1, <2>2 DEF Issue
<1>9. ASSUME NEW c \in Calls, EndToken(c) \/ Rotate(c) PROVE Goal
  <2>1. call[c].tok # 0
    BY <1>9 DEF Carried, Carries, EndToken, Rotate, At
  <2>2. /\ call[c].tok \in Issued /\ rows'[call[c].tok] = "revoked" /\ Issued' = Issued /\ spent' = spent
        /\ \A t \in Tokens : t # call[c].tok => rows'[t] = rows[t]
    BY <1>9, <2>1, RevokeRowParts DEF EndToken, Rotate
  <2>3. \A t \in Tokens : rows[t] = "revoked" => rows'[t] = "revoked"
    BY <2>2
  <2>4. /\ \A d \in Calls : d # c => call'[d] = call[d]
        /\ call'[c].tok \in {0, call[c].tok} /\ call'[c].at \in {"none", "insert"}
        /\ call'[c].tok = 0 \/ rows'[call'[c].tok] = "revoked"
    BY <1>9, <2>2, AnswersParts, GoesToParts, IdleIsEntry DEF EndToken, Rotate, Steps
  <2>5. Carried'
    <3> SUFFICES ASSUME NEW d \in Calls PROVE Carries(call'[d], Issued', rows')
      BY DEF Carried, Carries
    <3>1. CASE d = c
      BY <2>2, <2>4, <3>1 DEF Carries
    <3>2. CASE d # c
      BY <2>2, <2>3, <2>4, <3>2 DEF Carried, Carries, At, Issued
    <3> QED
      BY <3>1, <3>2
  <2>6. SpentInv'
    BY <2>2 DEF SpentInv, TypeOK, Issued
  <2> QED
    BY <2>2, <2>5, <2>6 DEF Numbered
<1>10. ASSUME NEW c \in Calls, Insert(c) PROVE Goal
  <2>1. PICK t \in Tokens \ Issued :
           /\ Issued' = Issued \cup {t} /\ Numbered'
           /\ rows'[t] = "live" /\ \A u \in Tokens : u # t => rows'[u] = rows[u]
           /\ spent' = spent \cup ({call[c].tok} \ {0})
    BY <1>10, InsertParts
  <2>2. call'[c] = Idle /\ \A d \in Calls : d # c => call'[d] = call[d]
    BY <1>10, AnswersParts DEF Insert
  <2>3. Carried'
    <3> SUFFICES ASSUME NEW d \in Calls PROVE Carries(call'[d], Issued', rows')
      BY DEF Carried, Carries
    <3>1. CASE d = c
      BY <2>2, <3>1, IdleIsEntry DEF Carries, Idle
    <3>2. CASE d # c
      BY <2>1, <2>2, <3>2 DEF Carried, Carries, At, Issued
    <3> QED
      BY <3>1, <3>2
  <2>4. SpentInv'
    <3>1. call[c].tok # 0 => rows[call[c].tok] = "revoked" /\ call[c].tok \in Issued
      BY <1>10 DEF Insert, Carried, Carries, At
    <3>2. \A u \in Issued : rows'[u] = rows[u]
      BY <2>1 DEF Issued
    <3> QED
      BY <2>1, <3>1, <3>2 DEF SpentInv, TypeOK
  <2> QED
    BY <2>1, <2>3, <2>4
<1>11. ASSUME NEW c \in Calls, Decide(c) PROVE Goal
  <2>1. Fine(c) /\ \A d \in Calls : d # c => call'[d] = call[d]
    BY <1>11, DecideParts DEF Carried, Carries
  <2> QED
    BY <1>1, <1>2, <1>11, <2>1 DEF Decide
<1>12. ASSUME NEW c \in Calls, Close(c) PROVE Goal
  <2>1. /\ Issued' = Issued /\ spent' = spent
        /\ \A t \in Tokens : rows'[t] = IF rows[t] = "live" THEN "revoked" ELSE rows[t]
    BY <1>12, CloseParts
  <2>2. call'[c] = Idle /\ \A d \in Calls : d # c => call'[d] = call[d]
    BY <1>12, CloseCall
  <2>3. Carried'
    <3> SUFFICES ASSUME NEW d \in Calls PROVE Carries(call'[d], Issued', rows')
      BY DEF Carried, Carries
    <3>1. CASE d = c
      BY <2>2, <3>1, IdleIsEntry DEF Carries, Idle
    <3>2. CASE d # c
      BY <2>1, <2>2, <3>2 DEF Carried, Carries, At, Issued
    <3> QED
      BY <3>1, <3>2
  <2>4. SpentInv'
    BY <2>1 DEF SpentInv, TypeOK, Issued
  <2> QED
    BY <2>1, <2>3, <2>4 DEF Numbered
<1>13. ASSUME NEW c \in Calls, StatementFails(c) PROVE Goal
  BY <1>5, <1>13 DEF StatementFails
<1>14. CASE Saved \/ UNCHANGED vars
  BY <1>1, <1>2, <1>14 DEF Saved, vars, table
<1>15. CASE Restart
  <2>1. \A d \in Calls : Fine(d)
    BY <1>15 DEF Restart, Idle, Carries
  <2> QED
    BY <1>2, <1>15, <2>1 DEF Restart
<1> QED
  BY <1>4, <1>7, <1>8, <1>9, <1>10, <1>11, <1>12, <1>13, <1>14, <1>15 DEF Next, Step

\* What the requests that are new, go on or answer leave alone.
LEMMA Quiet ==
  ASSUME TypeOK, NEW c \in Calls,
         Login(c) \/ Refresh(c) \/ Logout(c) \/ LogoutAll(c) \/ Change(c) \/ Verify(c) \/ Gate(c) \/ Issue(c)
           \/ RevokeAccess(c) \/ Decide(c)
  PROVE  /\ UNCHANGED table /\ UNCHANGED marks
         /\ ~At(c, "insert") /\ \A d \in Calls : d # c => call'[d] = call[d]
         /\ \A d \in Calls : d # c /\ d \in stale => d \in stale'
<1>1. CASE Login(c) \/ Refresh(c) \/ Logout(c) \/ LogoutAll(c) \/ Change(c)
  BY <1>1, BeginsParts, Entries DEF Login, Refresh, Logout, LogoutAll, Change, Begins, At, Steps, Issued
<1>2. CASE Verify(c) \/ Gate(c) \/ Issue(c) \/ RevokeAccess(c)
  BY <1>2, GoesToParts, AnswersParts DEF Verify, Gate, Issue, RevokeAccess, At, Steps
<1>3. CASE Decide(c)
  BY <1>3, DecideParts DEF Decide, At
<1> QED
  BY <1>1, <1>2, <1>3

\* Requests past the gate have seen the driver approved.
LEMMA BlockNext ==
  ASSUME TypeOK, Unblocked, [Next]_vars
  PROVE  Unblocked'
<1> DEFINE Past == {"issue", "rotate", "insert"}
<1>1. ASSUME NEW c \in Calls, NEW e \in Entry, e.at \notin Past \cup {"none"}, Begins(c, e), status' = status
      PROVE  Unblocked'
  BY <1>1, BeginsParts DEF Unblocked
<1>2. ASSUME NEW c \in Calls, Answers(c), status' = status PROVE Unblocked'
  BY <1>2, AnswersParts DEF Unblocked, Idle
<1>3. ASSUME NEW c \in Calls, NEW step \in Steps \ {"none"}, GoesTo(c, step), status' = status,
             step \in Past => status = "approved" \/ call[c].at \in Past
      PROVE  Unblocked'
  BY <1>3, GoesToParts DEF Unblocked
<1>4. ASSUME NEW c \in Calls, Login(c) \/ Refresh(c) \/ Logout(c) \/ LogoutAll(c) \/ Change(c) PROVE Unblocked'
  BY <1>1, <1>4, Entries DEF Login, Refresh, Logout, LogoutAll, Change, Steps, Issued
<1>5. ASSUME NEW c \in Calls, Verify(c) \/ Gate(c) \/ Issue(c) \/ Rotate(c) \/ RevokeAccess(c) PROVE Unblocked'
  BY <1>2, <1>3, <1>5 DEF Verify, Gate, Issue, Rotate, RevokeAccess, Steps, At
<1>6. ASSUME NEW c \in Calls, EndToken(c) \/ Insert(c) \/ StatementFails(c) PROVE Unblocked'
  BY <1>2, <1>6 DEF EndToken, Insert, StatementFails
<1>7. ASSUME NEW c \in Calls, Decide(c) PROVE Unblocked'
  <2>1. /\ call'[c].at \in {"none", "revoke"} /\ \A d \in Calls : d # c => call'[d] = call[d]
        /\ blocked' \subseteq blocked /\ (status' = "approved" => blocked' = {} \/ status' = status)
    BY <1>7, DecideParts
  <2> QED
    BY <2>1 DEF Unblocked
<1>8. ASSUME NEW c \in Calls, Close(c) PROVE Unblocked'
  <2>1. call'[c] = Idle /\ blocked' = blocked \ {c} /\ \A d \in Calls : d # c => call'[d] = call[d]
    BY <1>8, CloseCall
  <2> QED
    BY <1>8, <2>1 DEF Close, Unblocked, Idle
<1>9. CASE Saved \/ Restart \/ UNCHANGED vars
  BY <1>9 DEF Saved, Restart, vars, Unblocked
<1> QED
  BY <1>4, <1>5, <1>6, <1>7, <1>8, <1>9 DEF Next, Step

\* Closed stays closed, except through a request that was under way.
LEMMA WayNext ==
  ASSUME TypeOK, Numbered, Carried, UnderWay, ClosedStaysClosed, [Next]_vars
  PROVE  UnderWay' /\ ClosedStaysClosed'
<1> DEFINE Goal == UnderWay' /\ ClosedStaysClosed'
<1> DEFINE Late(e) == e.at \in {"gate", "issue", "rotate", "insert"} /\ e.tok # 0
<1>1. ASSUME closed' = closed, escaped' = escaped, Live' \subseteq Live,
             \A d \in Calls : Late(call'[d]) => d \in stale' \/ ~closed \/ escaped
      PROVE  Goal
  BY <1>1 DEF UnderWay, ClosedStaysClosed
<1>2. \A d \in Calls : Late(call[d]) => d \in stale \/ ~closed \/ escaped
  BY DEF UnderWay
<1>3. UNCHANGED table => Live' \subseteq Live
  BY DEF table, Live
<1>4. ASSUME NEW c \in Calls,
             Login(c) \/ Refresh(c) \/ Logout(c) \/ LogoutAll(c) \/ Change(c) \/ Verify(c) \/ Gate(c) \/ Issue(c)
               \/ RevokeAccess(c) \/ Decide(c)
      PROVE  Goal
  <2>1. /\ UNCHANGED table /\ closed' = closed /\ escaped' = escaped
        /\ \A d \in Calls : d # c => call'[d] = call[d]
        /\ \A d \in Calls : d # c /\ d \in stale => d \in stale'
    BY <1>4, Quiet DEF marks
  <2>2. Late(call'[c]) => c \in stale' \/ ~closed \/ escaped
    <3>1. CASE Login(c) \/ LogoutAll(c) \/ Change(c) \/ Refresh(c) \/ Logout(c)
      <4>1. ASSUME NEW e \in Entry, e.at # "none", Begins(c, e), ~Late(e) PROVE ~Late(call'[c])
        BY <4>1, BeginsParts
      <4> QED
        BY <3>1, <4>1, Entries DEF Login, LogoutAll, Change, Refresh, Logout, Steps, Issued
    <3>2. CASE Verify(c)
      <4>1. call[c].tok \in Live => ~closed \/ escaped
        BY DEF ClosedStaysClosed
      <4> QED
        BY <3>2, <4>1, AnswersParts DEF Verify, Idle
    <3>3. CASE Gate(c) \/ Issue(c)
      <4>1. call'[c].tok \in {0, call[c].tok} /\ (call'[c].tok # 0 => stale' = stale)
        BY <3>3, GoesToParts, AnswersParts, IdleIsEntry DEF Gate, Issue, Steps
      <4>2. call[c].at \in {"gate", "issue"}
        BY <3>3 DEF Gate, Issue, At
      <4> QED
        BY <1>2, <4>1, <4>2
    <3>4. CASE RevokeAccess(c) \/ Decide(c)
      BY <3>4, GoesToParts, DecideParts DEF RevokeAccess, Steps
    <3> QED
      BY <1>4, <3>1, <3>2, <3>3, <3>4
  <2> QED
    BY <1>1, <1>2, <1>3, <2>1, <2>2
<1>5. ASSUME NEW c \in Calls, EndToken(c) PROVE Goal
  <2>1. call[c].tok # 0
    BY <1>5 DEF Carried, Carries, EndToken, At
  <2>2. Live' \subseteq Live
    BY <1>5, <2>1, RevokeRowParts DEF EndToken, Live
  <2>3. call'[c] = Idle /\ stale' = stale \ {c} /\ \A d \in Calls : d # c => call'[d] = call[d]
    BY <1>5, AnswersParts DEF EndToken
  <2>4. \A d \in Calls : Late(call'[d]) => d \in stale' \/ ~closed \/ escaped
    BY <1>2, <2>3, IdleIsEntry
  <2> QED
    BY <1>1, <1>5, <2>2, <2>4 DEF EndToken
<1>6. ASSUME NEW c \in Calls, Rotate(c) PROVE Goal
  <2>1. call[c].tok # 0 /\ call[c].at = "rotate"
    BY <1>6 DEF Carried, Carries, Rotate, At
  <2>2. Live' \subseteq Live
    BY <1>6, <2>1, RevokeRowParts DEF Rotate, Live
  <2>3. stale' = stale /\ \A d \in Calls : d # c => call'[d] = call[d]
    BY <1>6, GoesToParts DEF Rotate, Steps
  <2>4. \A d \in Calls : Late(call'[d]) => d \in stale' \/ ~closed \/ escaped
    BY <1>2, <2>1, <2>3
  <2> QED
    BY <1>1, <1>6, <2>2, <2>4 DEF Rotate, marks
<1>7. ASSUME NEW c \in Calls, Insert(c) PROVE Goal
  <2>1. closed' = (closed /\ (c \in stale \/ call[c].tok # 0)) /\ escaped' = (closed /\ (escaped \/ c \in stale))
    BY <1>7 DEF Insert
  <2>2. call[c].tok # 0 => c \in stale \/ ~closed \/ escaped
    BY <1>2, <1>7 DEF Insert, At
  <2>3. ~(closed' /\ ~escaped')
    BY <2>1, <2>2
  <2> QED
    BY <2>3 DEF UnderWay, ClosedStaysClosed
<1>8. ASSUME NEW c \in Calls, Close(c) PROVE Goal
  <2>1. Live' = {}
    BY <1>8, CloseParts
  <2>2. call'[c] = Idle /\ stale' = Active \ {c} /\ \A d \in Calls : d # c => call'[d] = call[d]
    BY <1>8, CloseCall
  <2>3. \A d \in Calls : Late(call'[d]) => d \in stale'
    BY <2>2 DEF Active, At, Idle
  <2> QED
    BY <2>1, <2>3 DEF UnderWay, ClosedStaysClosed
<1>9. ASSUME NEW c \in Calls, StatementFails(c) PROVE Goal
  <2>1. call'[c] = Idle /\ stale' = stale \ {c} /\ \A d \in Calls : d # c => call'[d] = call[d]
    BY <1>9, AnswersParts DEF StatementFails
  <2>2. \A d \in Calls : Late(call'[d]) => d \in stale' \/ ~closed \/ escaped
    BY <1>2, <2>1, IdleIsEntry
  <2> QED
    BY <1>1, <1>3, <1>9, <2>2 DEF StatementFails
<1>10. CASE Saved \/ UNCHANGED vars
  BY <1>1, <1>2, <1>3, <1>10 DEF Saved, vars, marks, table
<1>11. CASE Restart
  <2>1. \A d \in Calls : ~Late(call'[d])
    BY <1>11 DEF Restart, Idle
  <2> QED
    BY <1>1, <1>3, <1>11, <2>1 DEF Restart
<1> QED
  BY <1>4, <1>5, <1>6, <1>7, <1>8, <1>9, <1>10, <1>11 DEF Next, Step

\* No session is lost but by a failure between the two writes of a rotation.
LEMMA LostNext ==
  ASSUME TypeOK, Numbered, Carried, NoSessionLost, [Next]_vars
  PROVE  NoSessionLost'
<1> DEFINE Lost == Issued \ (Live \cup ended \cup broken \cup spent)
<1> DEFINE Inserting(e, t) == e.at = "insert" /\ e.tok = t
<1>1. \A t \in Lost : \E d \in Calls : Inserting(call[d], t)
  BY DEF NoSessionLost, At
<1>2. ASSUME \A t \in Lost' : \E d \in Calls : Inserting(call'[d], t) PROVE NoSessionLost'
  BY <1>2 DEF NoSessionLost, At
<1>3. ASSUME Lost' \subseteq Lost, \A d \in Calls : At(d, "insert") => call'[d] = call[d] PROVE NoSessionLost'
  BY <1>1, <1>2, <1>3 DEF At
<1>4. ASSUME UNCHANGED table, ended' = ended, broken' = broken PROVE Lost' = Lost
  BY <1>4 DEF table, Issued, Live
<1>5. ASSUME NEW c \in Calls,
             Login(c) \/ Refresh(c) \/ Logout(c) \/ LogoutAll(c) \/ Change(c) \/ Verify(c) \/ Gate(c) \/ Issue(c)
               \/ RevokeAccess(c) \/ Decide(c)
      PROVE  NoSessionLost'
  <2>1. /\ UNCHANGED table /\ ended' = ended /\ broken' = broken
        /\ ~At(c, "insert") /\ \A d \in Calls : d # c => call'[d] = call[d]
    BY <1>5, Quiet DEF marks
  <2> QED
    BY <1>3, <1>4, <2>1
<1>6. ASSUME NEW c \in Calls, EndToken(c) \/ Rotate(c) PROVE NoSessionLost'
  <2>1. call[c].tok # 0 /\ ~At(c, "insert")
    BY <1>6 DEF Carried, Carries, EndToken, Rotate, At
  <2>2. /\ Issued' = Issued /\ spent' = spent /\ broken' = broken /\ ended \subseteq ended'
        /\ \A t \in Tokens : t # call[c].tok => rows'[t] = rows[t]
    BY <1>6, <2>1, RevokeRowParts DEF EndToken, Rotate, marks
  <2>3. \A t \in Lost' : t \in Lost \/ t = call[c].tok
    BY <2>2 DEF Live, Issued
  <2>4. \A d \in Calls : d # c => call'[d] = call[d]
    BY <1>6, AnswersParts, GoesToParts DEF EndToken, Rotate, Steps
  <2>5. CASE EndToken(c)
    <3>1. call[c].tok \in ended'
      BY <2>5 DEF EndToken
    <3> QED
      BY <1>3, <2>1, <2>3, <2>4, <3>1
  <2>6. CASE Rotate(c)
    <3>1. Inserting(call'[c], call[c].tok)
      BY <2>6, GoesToParts DEF Rotate, Steps
    <3> QED
      BY <1>1, <1>2, <2>1, <2>3, <2>4, <3>1 DEF At
  <2> QED
    BY <1>6, <2>5, <2>6
<1>7. ASSUME NEW c \in Calls, Insert(c) PROVE NoSessionLost'
  <2>1. PICK t \in Tokens \ Issued :
           /\ Issued' = Issued \cup {t}
           /\ rows'[t] = "live" /\ \A u \in Tokens : u # t => rows'[u] = rows[u]
           /\ spent' = spent \cup ({call[c].tok} \ {0})
    BY <1>7, InsertParts
  <2>2. ended' = ended /\ broken' = broken /\ \A d \in Calls : d # c => call'[d] = call[d]
    BY <1>7, AnswersParts DEF Insert
  <2>3. \A u \in Lost' : u \in Lost /\ u # call[c].tok
    <3> SUFFICES ASSUME NEW u \in Lost' PROVE u \in Lost /\ u # call[c].tok
      OBVIOUS
    <3>1. u # t /\ u \in Issued
      BY <2>1 DEF Live
    <3>2. rows'[u] = rows[u] /\ u \in Tokens /\ u # 0
      BY <2>1, <3>1, Entries DEF Issued, Steps
    <3> QED
      BY <2>1, <2>2, <3>1, <3>2 DEF Live
  <2> QED
    BY <1>1, <1>2, <2>2, <2>3
<1>8. ASSUME NEW c \in Calls, Close(c) PROVE NoSessionLost'
  <2>1. /\ Issued' = Issued /\ spent' = spent /\ broken' = broken /\ ended' = ended \cup Live
        /\ ~At(c, "insert") /\ \A d \in Calls : d # c => call'[d] = call[d]
    BY <1>8, CloseParts, CloseCall DEF Close, At
  <2>2. Lost' \subseteq Lost
    BY <2>1
  <2> QED
    BY <1>3, <2>1, <2>2
<1>9. ASSUME UNCHANGED table, ended' = ended, NEW cs \in SUBSET Calls, broken' = broken \cup CutOff(cs),
             \A d \in Calls : d \notin cs => call'[d] = call[d]
      PROVE  NoSessionLost'
  <2>1. Lost' \subseteq Lost \ CutOff(cs)
    BY <1>9 DEF table, Issued, Live
  <2>2. ASSUME NEW t \in Lost' PROVE \E d \in Calls : Inserting(call'[d], t)
    <3>1. PICK d \in Calls : Inserting(call[d], t)
      BY <1>1, <2>1
    <3>2. t # 0
      BY <2>1, Entries DEF Issued, Steps
    <3>3. d \notin cs
      BY <2>1, <3>1, <3>2 DEF CutOff, At
    <3> QED
      BY <1>9, <3>1, <3>3
  <2> QED
    BY <1>2, <2>2
<1>10. ASSUME NEW c \in Calls, StatementFails(c) PROVE NoSessionLost'
  <2>1. \A d \in Calls : d \notin {c} => call'[d] = call[d]
    BY <1>10, AnswersParts DEF StatementFails
  <2>2. {c} \in SUBSET Calls
    OBVIOUS
  <2> QED
    BY <1>9, <1>10, <2>1, <2>2 DEF StatementFails
<1>11. CASE Restart
  BY <1>9, <1>11 DEF Restart
<1>12. CASE Saved \/ UNCHANGED vars
  <2>1. UNCHANGED table /\ ended' = ended /\ broken' = broken /\ call' = call
    BY <1>12 DEF Saved, vars, marks, table
  <2> QED
    BY <1>3, <1>4, <2>1
<1> QED
  BY <1>5, <1>6, <1>7, <1>8, <1>10, <1>11, <1>12 DEF Next, Step

\* The map of revoked access tokens and what is saved of it.
LEMMA SavingNext ==
  ASSUME TypeOK, SavingInv, RevocationOutlivesRestart, [Next]_vars
  PROVE  SavingInv' /\ RevocationOutlivesRestart'
<1> DEFINE Goal == SavingInv' /\ RevocationOutlivesRestart'
<1>1. ASSUME Revokes PROVE Goal
  BY <1>1 DEF Revokes, SavingInv, RevocationOutlivesRestart
<1>2. ASSUME UNCHANGED revocation PROVE Goal
  BY <1>2 DEF revocation, SavingInv, RevocationOutlivesRestart
<1>3. CASE Saved
  <2>1. inMap' = inMap /\ saving' = FALSE /\ inMap
    BY <1>3 DEF Saved, SavingInv
  <2> QED
    BY <2>1 DEF SavingInv, RevocationOutlivesRestart
<1>4. CASE Restart
  <2>1. inMap' = saved /\ saving' = FALSE /\ saved' = saved
    BY <1>4 DEF Restart
  <2> QED
    BY <2>1 DEF SavingInv, RevocationOutlivesRestart
<1> QED
  BY <1>1, <1>2, <1>3, <1>4 DEF Next, Step, Login, Refresh, Logout, LogoutAll, Change, Verify, Gate, Issue, EndToken,
     Rotate, Insert, Decide, RevokeAccess, Close, StatementFails, vars, revocation

LEMMA InitInv == Init => IInv
<1> SUFFICES ASSUME Init PROVE IInv
  OBVIOUS
<1>1. Issued = {} /\ Live = {}
  BY DEF Init, Issued, Live
<1>2. Numbered
  <2>1. 0 \in 0..MaxTokens /\ 1..0 = {}
    BY BoundsAssumption, SMTT(30)
  <2> QED
    BY <1>1, <2>1 DEF Numbered
<1>3. Carried
  BY DEF Init, Carried, Carries, Idle
<1>4. Unblocked
  BY DEF Init, Unblocked, Idle
<1>5. SpentInv /\ UnderWay /\ SavingInv /\ ClosedStaysClosed /\ RevocationOutlivesRestart
  BY DEF Init, SpentInv, UnderWay, SavingInv, ClosedStaysClosed, RevocationOutlivesRestart
<1>6. NoSessionLost
  BY <1>1 DEF NoSessionLost
<1> QED
  BY TypesInit, <1>2, <1>3, <1>4, <1>5, <1>6 DEF IInv

----------------------------------------------------------------------------
(******************************* THEOREMS *********************************)

\* Every step keeps the invariants together with what makes them inductive: tokens are numbered as they are
\* issued, a token between the two writes of its rotation is revoked, a request past the gate has seen the
\* driver approved, and after the end of all sessions a refresh past the look at its token was under way.
THEOREM SessionsInvariant == Spec => []IInv
<1>1. IInv /\ [Next]_vars => IInv'
  <2> SUFFICES ASSUME IInv, [Next]_vars PROVE IInv'
    OBVIOUS
  <2>1. TypeOK' /\ Numbered' /\ Carried' /\ SpentInv'
    BY TypesNext, TokensNext DEF IInv
  <2>2. Unblocked' /\ UnderWay' /\ ClosedStaysClosed'
    BY BlockNext, WayNext DEF IInv
  <2>3. NoSessionLost' /\ SavingInv' /\ RevocationOutlivesRestart'
    BY LostNext, SavingNext DEF IInv
  <2> QED
    BY <2>1, <2>2, <2>3 DEF IInv
<1> QED
  BY InitInv, <1>1, PTL DEF Spec

\* However logins, refreshes, logouts, approval changes, failures and restarts interleave, closed sessions stay
\* closed but through a request that was under way, no session is lost but by a failure inside a rotation, and
\* a saved revocation is loaded again.
THEOREM SessionsSound == Spec => []SessionsAreSound
<1>1. IInv => SessionsAreSound
  BY DEF IInv, SessionsAreSound
<1> QED
  BY SessionsInvariant, <1>1, PTL

\* The driver gate of login and refresh: a request during which the driver was never approved issues no token.
THEOREM BlockedGetsNoToken == Spec => NoTokenForBlocked
<1> DEFINE Gated == \A c \in Calls : At(c, "insert") /\ rows' # rows /\ call'[c] = Idle => c \notin blocked
<1>1. IInv => Gated
  BY DEF IInv, Unblocked, At
<1> QED
  BY SessionsInvariant, <1>1, PTL DEF NoTokenForBlocked

\* verifyRefreshToken accepts no token that has been exchanged for a successor.
THEOREM ExchangedTokensStaySpent == Spec => ExchangedOnce
<1> DEFINE Once == \A c \in Calls : At(c, "verify") /\ call'[c].at = "gate" => call[c].tok \notin spent
<1>1. ASSUME IInv, [Next]_vars PROVE [Once]_vars
  <2> SUFFICES ASSUME ~UNCHANGED vars, NEW c \in Calls, At(c, "verify"), call'[c].at = "gate"
               PROVE  call[c].tok \notin spent
    OBVIOUS
  <2>0. TypeOK
    BY <1>1 DEF IInv
  <2>1. \A d \in Calls : Step(d) /\ d # c => call'[c] = call[c]
    BY <2>0, Quiet, AnswersParts, GoesToParts, CloseCall DEF Step, EndToken, Rotate, Insert, Steps
  <2>2. \A d \in Calls : d # c /\ (Login(d) \/ Refresh(d) \/ Logout(d) \/ LogoutAll(d) \/ Change(d)) => call'[c] = call[c]
    BY <2>0, Quiet
  <2>3. \A d \in Calls : StatementFails(d) => call'[c] \in {call[c], Idle}
    BY <2>0, AnswersParts DEF StatementFails
  <2>4. call'[c] # call[c] /\ call'[c] # Idle
    BY DEF At, Idle
  <2>5. Saved \/ Restart => call'[c] \in {call[c], Idle}
    BY DEF Saved, Restart
  <2>6. Step(c)
    BY <1>1, <2>1, <2>2, <2>3, <2>4, <2>5 DEF Next, Login, Refresh, Logout, LogoutAll, Change, Begins, At
  <2>7. Verify(c)
    BY <2>6 DEF Step, Gate, Issue, EndToken, Rotate, Insert, Decide, RevokeAccess, Close, At
  <2>8. call[c].tok \in Live
    BY <2>0, <2>4, <2>7, AnswersParts DEF Verify
  <2> QED
    BY <1>1, <2>8 DEF IInv, SpentInv, Live
<1> QED
  BY SessionsInvariant, <1>1, PTL DEF Spec, ExchangedOnce
=============================================================================
