------------------------ MODULE AuthSessions_proofs ------------------------
(***************************************************************************)
(* Theorems about AuthSessions, for any number of requests and tokens and  *)
(* any lifetimes.                                                          *)
(*                                                                         *)
(* What holds the rows together is the lock: a rotation that has updated a *)
(* row is the only one to have done so (OneLock), and the row stays live   *)
(* until it commits (RequestsHold), because every other writer waits.  A   *)
(* session's tokens all lead to the token of its login (RowsRooted), and a *)
(* token that is about to be inserted has no row and one owner             *)
(* (NewIsFresh), so an insert joins the session of the token it replaces   *)
(* and disturbs no other.                                                  *)
(*                                                                         *)
(* LoginSessions is implemented because of that: a rotation that commits   *)
(* finds its session open, and goes on with it.                            *)
(***************************************************************************)
EXTENDS AuthSessions, TLAPS

RequestsHold ==
    \A h \in Handlers :
        /\ req[h].pc \in {"issue", "rotate", "insert"} => req[h].new # None
        /\ req[h].pc \in {"rotate", "insert", "logout"} =>
                req[h].tok # None /\ session[req[h].tok] # None
        /\ req[h].pc = "insert" => revokedAt[req[h].tok] = None
        /\ \A t \in req[h].found : session[t] # None

NewIsFresh ==
    \A h \in Handlers : req[h].new # None =>
        /\ session[req[h].new] = None
        /\ \A g \in Handlers : req[g].new = req[h].new => g = h

OneLock ==
    \A g, h \in Handlers :
        req[g].pc = "insert" /\ req[h].pc = "insert" /\ req[g].tok = req[h].tok => g = h

RowsRooted ==
    \A t \in Tokens : session[t] # None => session[session[t]] = session[t]

(* All tokens of a session expire when its login said. *)
AbsoluteExpiry ==
    \A t \in Tokens : session[t] # None => expiresAt[t] = expiresAt[session[t]]

NoRowNoPast ==
    \A t \in Tokens : session[t] = None => revokedAt[t] = None /\ t \notin ended

IInv ==
    /\ TypeOK
    /\ RequestsHold
    /\ NewIsFresh
    /\ OneLock
    /\ RowsRooted
    /\ NoRowNoPast
    /\ OneLiveToken
    /\ KnownTokensEnd
    /\ AbsoluteExpiry

(* The invariant holds at the start. *)
LEMMA InitInv == Init => IInv
<1> SUFFICES ASSUME Init PROVE IInv
    OBVIOUS
<1> USE AuthSessionsAssumption DEF Init
<1>1. TypeOK
    BY DEF TypeOK, Idle, Request, Wait
<1>2. RequestsHold /\ NewIsFresh /\ OneLock
    BY DEF RequestsHold, NewIsFresh, OneLock, Idle
<1>3. RowsRooted /\ NoRowNoPast /\ OneLiveToken /\ KnownTokensEnd /\ AbsoluteExpiry
    BY DEF RowsRooted, NoRowNoPast, OneLiveToken, KnownTokensEnd, AbsoluteExpiry, Live
<1> QED
    BY <1>1, <1>2, <1>3 DEF IInv

(* A token that is generated while one can be is nobody's. *)
LEMMA NewTokenFresh ==
    ASSUME NEW t \in Tokens, Fresh(t)
    PROVE  NewToken \in Tokens /\ Fresh(NewToken)
BY DEF NewToken

(* Every step preserves the type invariant. *)
LEMMA TypeStep == IInv /\ [Next]_vars => TypeOK'
<1> SUFFICES ASSUME IInv, [Next]_vars PROVE TypeOK'
    OBVIOUS
<1> USE AuthSessionsAssumption DEF IInv, TypeOK, Request, Wait, rows
<1>1. ASSUME NEW h \in Handlers, Login(h) PROVE TypeOK'
    <2>1. NewToken \in Tokens
        BY <1>1, NewTokenFresh DEF Login
    <2> QED
        BY <1>1, <2>1 DEF Login, Idle
<1>2. ASSUME NEW h \in Handlers, IssueTokenPair(h) PROVE TypeOK'
    BY <1>2 DEF IssueTokenPair, Idle, RequestsHold
<1>3. ASSUME NEW h \in Handlers, NEW t \in Tokens, DetectReuse(h, t) PROVE TypeOK'
    BY <1>3 DEF DetectReuse, Idle
<1>4. ASSUME NEW h \in Handlers, NEW t \in Tokens, Refresh(h, t) PROVE TypeOK'
    <2>1. NewToken \in Tokens
        BY <1>4, NewTokenFresh DEF Refresh
    <2> QED
        BY <1>4, <2>1 DEF Refresh, Idle
<1>5. ASSUME NEW h \in Handlers, RotateUpdate(h) PROVE TypeOK'
    <2>1. Idle \in Request
        BY DEF Idle
    <2>2. [req[h] EXCEPT !.pc = "insert", !.at = now] \in Request
        OBVIOUS
    <2>3. req' \in [Handlers -> Request]
        BY <1>5, <2>1, <2>2 DEF RotateUpdate
    <2> QED
        BY <1>5, <2>3 DEF RotateUpdate
<1>6. ASSUME NEW h \in Handlers, RotateCommit(h) PROVE TypeOK'
    BY <1>6 DEF RotateCommit, Idle, RequestsHold
<1>7. ASSUME NEW h \in Handlers, NEW t \in Tokens, Logout(h, t) PROVE TypeOK'
    BY <1>7 DEF Logout, Idle
<1>8. ASSUME NEW h \in Handlers, RevokeByHash(h) PROVE TypeOK'
    BY <1>8 DEF RevokeByHash, Idle, RequestsHold
<1>9. ASSUME NEW h \in Handlers, UpdatePassword(h) PROVE TypeOK'
    BY <1>9 DEF UpdatePassword, Idle
<1>10. ASSUME NEW h \in Handlers, BeginRevokeAll(h) PROVE TypeOK'
    <2>1. {t \in Tokens : Live(t)} \in SUBSET Tokens
        OBVIOUS
    <2>2. [req[h] EXCEPT !.pc = "revoking", !.at = now,
                         !.found = {t \in Tokens : Live(t)}] \in Request
        BY <2>1
    <2> QED
        BY <1>10, <2>2 DEF BeginRevokeAll
<1>11. ASSUME NEW h \in Handlers, RevokeAll(h) PROVE TypeOK'
    BY <1>11 DEF RevokeAll, Idle
<1>12. ASSUME NEW h \in Handlers, Abort(h) PROVE TypeOK'
    BY <1>12 DEF Abort, Idle
<1>13. CASE Tick
    BY <1>13 DEF Tick, rows
<1>14. CASE UNCHANGED vars
    BY <1>14 DEF vars
<1> QED
    BY <1>1, <1>2, <1>3, <1>4, <1>5, <1>6, <1>7,
       <1>8, <1>9, <1>10, <1>11, <1>12, <1>13, <1>14
    DEF Next, Continue

(* Every step keeps what the waiting requests rely on: a live row under    *)
(* each lock, one lock a row, and one owner for each new token.            *)
LEMMA RequestStep == IInv /\ [Next]_vars => (RequestsHold /\ NewIsFresh /\ OneLock)'
<1> DEFINE Requests == RequestsHold /\ NewIsFresh /\ OneLock
<1> SUFFICES ASSUME IInv, [Next]_vars PROVE Requests'
    OBVIOUS
<1> USE AuthSessionsAssumption DEF IInv, TypeOK, RequestsHold, NewIsFresh, OneLock,
        Request, Wait, rows
<1>1. ASSUME NEW h \in Handlers, Login(h) PROVE Requests'
    <2>1. NewToken \in Tokens /\ Fresh(NewToken)
        BY <1>1, NewTokenFresh DEF Login
    <2> QED
        BY <1>1, <2>1 DEF Login, Idle, Fresh
<1>2. ASSUME NEW h \in Handlers, IssueTokenPair(h) PROVE Requests'
    BY <1>2 DEF IssueTokenPair, Idle
<1>3. ASSUME NEW h \in Handlers, NEW t \in Tokens, DetectReuse(h, t) PROVE Requests'
    BY <1>3 DEF DetectReuse, Idle
<1>4. ASSUME NEW h \in Handlers, NEW t \in Tokens, Refresh(h, t) PROVE Requests'
    <2>1. NewToken \in Tokens /\ Fresh(NewToken)
        BY <1>4, NewTokenFresh DEF Refresh
    <2> QED
        BY <1>4, <2>1 DEF Refresh, Idle, Fresh, Live
<1>5. ASSUME NEW h \in Handlers, RotateUpdate(h) PROVE Requests'
    <2>1. CASE req' = [req EXCEPT ![h] = Idle]
        BY <1>5, <2>1 DEF RotateUpdate, Idle
    <2>2. CASE Live(req[h].tok) /\ req' = [req EXCEPT ![h].pc = "insert", ![h].at = now]
        <3>1. RequestsHold' /\ NewIsFresh'
            BY <1>5, <2>2 DEF RotateUpdate, Live
        <3>2. \A g \in Handlers : req[g].pc = "insert" => req[g].tok # req[h].tok
            BY <1>5 DEF RotateUpdate, Locked
        <3>3. OneLock'
            BY <2>2, <3>2
        <3> QED
            BY <3>1, <3>3
    <2> QED
        BY <1>5, <2>1, <2>2 DEF RotateUpdate
<1>6. ASSUME NEW h \in Handlers, RotateCommit(h) PROVE Requests'
    BY <1>6 DEF RotateCommit, Idle
<1>7. ASSUME NEW h \in Handlers, NEW t \in Tokens, Logout(h, t) PROVE Requests'
    BY <1>7 DEF Logout, Idle, Live
<1>8. ASSUME NEW h \in Handlers, RevokeByHash(h) PROVE Requests'
    BY <1>8 DEF RevokeByHash, Idle, Locked
<1>9. ASSUME NEW h \in Handlers, UpdatePassword(h) PROVE Requests'
    BY <1>9 DEF UpdatePassword, Idle
<1>10. ASSUME NEW h \in Handlers, BeginRevokeAll(h) PROVE Requests'
    BY <1>10 DEF BeginRevokeAll, Idle, Live
<1>11. ASSUME NEW h \in Handlers, RevokeAll(h) PROVE Requests'
    BY <1>11 DEF RevokeAll, Idle, Locked
<1>12. ASSUME NEW h \in Handlers, Abort(h) PROVE Requests'
    BY <1>12 DEF Abort, Idle
<1>13. CASE Tick
    BY <1>13 DEF Tick, rows
<1>14. CASE UNCHANGED vars
    BY <1>14 DEF vars
<1> QED
    BY <1>1, <1>2, <1>3, <1>4, <1>5, <1>6, <1>7,
       <1>8, <1>9, <1>10, <1>11, <1>12, <1>13, <1>14
    DEF Next, Continue

(* Every step keeps the tokens of a session together, at most one of them  *)
(* live, all with one expiry, and the ones that were ended revoked.        *)
LEMMA RowStep == IInv /\ [Next]_vars =>
    (RowsRooted /\ NoRowNoPast /\ OneLiveToken /\ KnownTokensEnd /\ AbsoluteExpiry)'
<1> DEFINE Rows == /\ RowsRooted /\ NoRowNoPast /\ OneLiveToken
                   /\ KnownTokensEnd /\ AbsoluteExpiry
<1> SUFFICES ASSUME IInv, [Next]_vars PROVE Rows'
    OBVIOUS
<1> USE AuthSessionsAssumption DEF IInv, TypeOK, RowsRooted, NoRowNoPast, OneLiveToken,
        KnownTokensEnd, AbsoluteExpiry, Live, RequestsHold, Request, rows
<1>1. ASSUME NEW h \in Handlers, Login(h) PROVE Rows'
    BY <1>1 DEF Login
<1>2. ASSUME NEW h \in Handlers, IssueTokenPair(h) PROVE Rows'
    <2> DEFINE new == req[h].new
    <2>1. /\ new \in Tokens /\ session[new] = None
          /\ \A u \in Tokens : session[u] # new
        BY <1>2 DEF IssueTokenPair, NewIsFresh
    <2> HIDE DEF new
    <2>2. /\ session' = [session EXCEPT ![new] = new]
          /\ expiresAt' = [expiresAt EXCEPT ![new] = now + Ttl]
          /\ UNCHANGED <<revokedAt, ended>>
        BY <1>2 DEF IssueTokenPair, new
    <2>3. RowsRooted' /\ NoRowNoPast' /\ KnownTokensEnd'
        BY <2>1, <2>2
    <2>4. OneLiveToken'
        BY <2>1, <2>2
    <2>5. AbsoluteExpiry'
        BY <2>1, <2>2
    <2> QED
        BY <2>3, <2>4, <2>5
<1>3. ASSUME NEW h \in Handlers, NEW t \in Tokens, DetectReuse(h, t) PROVE Rows'
    BY <1>3 DEF DetectReuse
<1>4. ASSUME NEW h \in Handlers, NEW t \in Tokens, Refresh(h, t) PROVE Rows'
    BY <1>4 DEF Refresh
<1>5. ASSUME NEW h \in Handlers, RotateUpdate(h) PROVE Rows'
    BY <1>5 DEF RotateUpdate
<1>6. ASSUME NEW h \in Handlers, RotateCommit(h) PROVE Rows'
    <2> DEFINE old == req[h].tok
               new == req[h].new
               at == req[h].at
    <2>1. /\ new \in Tokens /\ session[new] = None
          /\ old \in Tokens /\ session[old] # None /\ revokedAt[old] = None
          /\ at # None
        BY <1>6 DEF RotateCommit, NewIsFresh
    <2> HIDE DEF new, old, at
    <2>2. /\ session' = [session EXCEPT ![new] = session[old]]
          /\ expiresAt' = [expiresAt EXCEPT ![new] = expiresAt[old]]
          /\ revokedAt' = [revokedAt EXCEPT ![old] = at]
          /\ UNCHANGED ended
        BY <1>6 DEF RotateCommit, new, old, at
    <2>3. RowsRooted' /\ NoRowNoPast' /\ KnownTokensEnd'
        BY <2>1, <2>2
    <2>4. OneLiveToken'
        BY <2>1, <2>2
    <2>5. AbsoluteExpiry'
        BY <2>1, <2>2
    <2> QED
        BY <2>3, <2>4, <2>5
<1>7. ASSUME NEW h \in Handlers, NEW t \in Tokens, Logout(h, t) PROVE Rows'
    BY <1>7 DEF Logout
<1>8. ASSUME NEW h \in Handlers, RevokeByHash(h) PROVE Rows'
    BY <1>8 DEF RevokeByHash
<1>9. ASSUME NEW h \in Handlers, UpdatePassword(h) PROVE Rows'
    BY <1>9 DEF UpdatePassword
<1>10. ASSUME NEW h \in Handlers, BeginRevokeAll(h) PROVE Rows'
    BY <1>10 DEF BeginRevokeAll
<1>11. ASSUME NEW h \in Handlers, RevokeAll(h) PROVE Rows'
    BY <1>11 DEF RevokeAll
<1>12. ASSUME NEW h \in Handlers, Abort(h) PROVE Rows'
    BY <1>12 DEF Abort
<1>13. CASE Tick
    BY <1>13 DEF Tick, rows
<1>14. CASE UNCHANGED vars
    BY <1>14 DEF vars
<1> QED
    BY <1>1, <1>2, <1>3, <1>4, <1>5, <1>6, <1>7,
       <1>8, <1>9, <1>10, <1>11, <1>12, <1>13, <1>14
    DEF Next, Continue

(* The invariant is one. *)
LEMMA Invariance == Spec => []IInv
<1>1. IInv /\ [Next]_vars => IInv'
    BY TypeStep, RequestStep, RowStep DEF IInv
<1> QED
    BY <1>1, InitInv, PTL DEF Spec

(* The rows of refresh_tokens and the requests keep their types. *)
THEOREM TypeCorrect == Spec => []TypeOK
<1>1. IInv => TypeOK
    BY DEF IInv
<1> QED
    BY <1>1, Invariance, PTL

(* A session has at most one token that can be used (rotateRefreshToken). *)
THEOREM TokensSingle == Spec => []OneLiveToken
<1>1. IInv => OneLiveToken
    BY DEF IInv
<1> QED
    BY <1>1, Invariance, PTL

(* What a revokeAll found live is revoked, also when a rotation that held  *)
(* its row is rolled back.                                                 *)
THEOREM EndedForGood == Spec => []KnownTokensEnd
<1>1. IInv => KnownTokensEnd
    BY DEF IInv
<1> QED
    BY <1>1, Invariance, PTL

(* No write moves or clears the time a token was revoked. *)
THEOREM RevocationKept == Spec => RevokedForGood
<1> DEFINE Kept == \A t \in Tokens : revokedAt[t] # None => revokedAt'[t] = revokedAt[t]
<1>1. IInv /\ [Next]_vars => [Kept]_vars
    <2> SUFFICES ASSUME IInv, [Next]_vars, NEW t \in Tokens, revokedAt[t] # None
                 PROVE  revokedAt'[t] = revokedAt[t]
        OBVIOUS
    <2> USE DEF IInv, TypeOK
    <2>1. ASSUME NEW h \in Handlers, RotateCommit(h) PROVE revokedAt'[t] = revokedAt[t]
        BY <2>1 DEF RotateCommit, RequestsHold
    <2>2. ASSUME NEW h \in Handlers, RevokeByHash(h) PROVE revokedAt'[t] = revokedAt[t]
        BY <2>2 DEF RevokeByHash
    <2>3. ASSUME NEW h \in Handlers, RevokeAll(h) PROVE revokedAt'[t] = revokedAt[t]
        BY <2>3 DEF RevokeAll, Live
    <2>4. CASE UNCHANGED revokedAt
        BY <2>4
    <2> QED
        BY <2>1, <2>2, <2>3, <2>4
        DEF Next, Continue, Login, IssueTokenPair, DetectReuse, Refresh, RotateUpdate,
            Logout, UpdatePassword, BeginRevokeAll, Abort, Tick, vars, rows
<1> QED
    BY <1>1, Invariance, PTL DEF Spec, RevokedForGood

-----------------------------------------------------------------------------
(* The refinement of LoginSessions. *)

(* All tokens of a session expire together, so it does not matter which of *)
(* them is looked at.                                                      *)
DeadlineOfLogin ==
    deadline = [s \in Tokens |-> IF session[s] = s THEN expiresAt[s] ELSE None]

Seen == IInv /\ DeadlineOfLogin

LEMMA SessionsSeen == IInv => Seen
<1> SUFFICES ASSUME IInv PROVE DeadlineOfLogin
    BY DEF Seen
<1>1. ASSUME NEW s \in Tokens, session[s] = s, Usable(s) # {}
      PROVE  expiresAt[CHOOSE t \in Usable(s) : TRUE] = expiresAt[s]
    <2>1. (CHOOSE t \in Usable(s) : TRUE) \in Usable(s)
        BY <1>1
    <2> QED
        BY <1>1, <2>1, AuthSessionsAssumption DEF IInv, AbsoluteExpiry, Usable
<1> QED
    BY <1>1 DEF deadline, DeadlineOfLogin

(* A step that opens no session shows as the end of those it leaves        *)
(* without a token, if none that had none gets one.                        *)
LEMMA Shown ==
    ASSUME Seen, Seen', UNCHANGED now,
           \A s \in Tokens : session'[s] = s <=> session[s] = s,
           \A s \in Tokens : session[s] = s =>
                /\ expiresAt'[s] = expiresAt[s]
                /\ Usable(s)' # {} => Usable(s) # {}
    PROVE  [Promised!Next]_(Promised!vars)
<1> DEFINE Over == {s \in Tokens : session[s] = s /\ Usable(s) # {} /\ Usable(s)' = {}}
<1>1. deadline' = deadline
    BY DEF Seen, DeadlineOfLogin
<1>2. \A s \in Over : phase[s] = "open"
    BY DEF phase
<1>3. phase' = [s \in Tokens |-> IF s \in Over THEN "ended" ELSE phase[s]]
    <2>1. ASSUME NEW s \in Tokens
          PROVE  phase'[s] = IF s \in Over THEN "ended" ELSE phase[s]
        BY DEF phase
    <2>2. phase' = [s \in Tokens |-> phase'[s]]
        BY DEF phase
    <2> QED
        BY <2>1, <2>2
<1>4. Over \in SUBSET Tokens
    OBVIOUS
<1> QED
    BY <1>1, <1>2, <1>3, <1>4 DEF Promised!Next, Promised!End

(* The insert of a login opens its session; no other token moves.          *)
LEMMA LoginOpens ==
    ASSUME Seen, Seen', NEW h \in Handlers, IssueTokenPair(h)
    PROVE  Promised!Next
<1>1. PICK new \in Tokens : new = req[h].new
    BY DEF Seen, IssueTokenPair, IInv, TypeOK, Request, RequestsHold
<1>2. session[new] = None /\ revokedAt[new] = None /\ new # None
    BY <1>1, AuthSessionsAssumption DEF Seen, IInv, TypeOK, NewIsFresh, NoRowNoPast
<1>3. /\ session' = [session EXCEPT ![new] = new]
      /\ expiresAt' = [expiresAt EXCEPT ![new] = now + Ttl]
      /\ UNCHANGED <<revokedAt, now>>
    BY <1>1 DEF IssueTokenPair
<1>t. session \in [Tokens -> Tokens \cup {None}] /\ expiresAt \in [Tokens -> Nat]
    BY DEF Seen, IInv, TypeOK
<1>4. ASSUME NEW s \in Tokens, s # new PROVE Usable(s)' = Usable(s)
    BY <1>t, <1>2, <1>3, <1>4 DEF Usable, Live
<1>5. Usable(new)' # {}
    <2>1. new \in Usable(new)'
        BY <1>t, <1>2, <1>3 DEF Usable, Live
    <2> QED
        BY <2>1
<1>6. phase[new] = "absent" /\ phase' = [phase EXCEPT ![new] = "open"]
    <2>1. phase'[new] = "open" /\ phase[new] = "absent"
        BY <1>t, <1>2, <1>3, <1>5 DEF phase
    <2>2. \A s \in Tokens : s # new => phase'[s] = phase[s]
        BY <1>t, <1>3, <1>4 DEF phase
    <2>3. /\ phase = [s \in Tokens |-> phase[s]]
          /\ phase' = [s \in Tokens |-> phase'[s]]
        BY DEF phase
    <2> QED
        BY <2>1, <2>2, <2>3
<1>7. deadline' = [deadline EXCEPT ![new] = now + Ttl]
    BY <1>t, <1>2, <1>3 DEF Seen, DeadlineOfLogin
<1> QED
    BY <1>3, <1>6, <1>7 DEF Promised!Next, Promised!Open

(* The commit of a rotation goes on with the session of the token it       *)
(* replaces, which was open as long as its row was locked.                 *)
LEMMA RotationUnseen ==
    ASSUME Seen, Seen', NEW h \in Handlers, RotateCommit(h)
    PROVE  [Promised!Next]_(Promised!vars)
<1> DEFINE old == req[h].tok
           new == req[h].new
<1>1. /\ new \in Tokens /\ session[new] = None
      /\ old \in Tokens /\ session[old] # None /\ revokedAt[old] = None
    BY DEF Seen, RotateCommit, IInv, TypeOK, Request, RequestsHold, NewIsFresh
<1>2. /\ session' = [session EXCEPT ![new] = session[old]]
      /\ expiresAt' = [expiresAt EXCEPT ![new] = expiresAt[old]]
      /\ \A t \in Tokens : revokedAt'[t] = None => revokedAt[t] = None
      /\ UNCHANGED now
    <2>1. revokedAt' = [revokedAt EXCEPT ![old] = req[h].at] /\ req[h].at # None
        BY AuthSessionsAssumption DEF Seen, RotateCommit, IInv, TypeOK, Request
    <2> QED
        BY <2>1, <1>1 DEF Seen, RotateCommit, IInv, TypeOK
<1> HIDE DEF old, new
<1>t. /\ session \in [Tokens -> Tokens \cup {None}] /\ expiresAt \in [Tokens -> Nat]
      /\ \A t \in Tokens : session[t] # None => session[session[t]] = session[t]
    BY DEF Seen, IInv, TypeOK, RowsRooted
<1>3. session[old] # new /\ new # None
    BY <1>t, <1>1, AuthSessionsAssumption
<1>4. \A s \in Tokens : session'[s] = s <=> session[s] = s
    BY <1>t, <1>1, <1>2, <1>3
<1>5. \A s \in Tokens : session[s] = s => expiresAt'[s] = expiresAt[s]
    BY <1>t, <1>1, <1>2, <1>3
<1>6. ASSUME NEW s \in Tokens, session[s] = s, Usable(s)' # {}
      PROVE  Usable(s) # {}
    <2>1. PICK t \in Tokens : Live(t)' /\ session'[t] = s
        BY <1>6 DEF Usable
    <2>2. CASE t = new
        <3>1. old \in Usable(s)
            BY <1>t, <1>1, <1>2, <2>1, <2>2 DEF Usable, Live
        <3> QED
            BY <3>1
    <2>3. CASE t # new
        <3>1. t \in Usable(s)
            BY <1>t, <1>1, <1>2, <2>1, <2>3 DEF Usable, Live
        <3> QED
            BY <3>1
    <2> QED
        BY <2>2, <2>3
<1> QED
    BY <1>2, <1>4, <1>5, <1>6, Shown

(* Whatever only revokes tokens ends sessions. *)
LEMMA RevocationEnds ==
    ASSUME Seen, Seen', UNCHANGED <<session, expiresAt, now>>,
           \A t \in Tokens : revokedAt'[t] = None => revokedAt[t] = None
    PROVE  [Promised!Next]_(Promised!vars)
<1>1. \A s \in Tokens : Usable(s)' # {} => Usable(s) # {}
    BY DEF Usable, Live
<1> QED
    BY <1>1, Shown

(* Each step is one of LoginSessions, or none. *)
LEMMA SessionStep == Seen /\ Seen' /\ [Next]_vars => [Promised!Next]_(Promised!vars)
<1> SUFFICES ASSUME Seen, Seen', [Next]_vars PROVE [Promised!Next]_(Promised!vars)
    OBVIOUS
<1>t. TypeOK
    BY DEF Seen, IInv
<1>1. ASSUME NEW h \in Handlers, RevokeByHash(h) PROVE [Promised!Next]_(Promised!vars)
    <2>1. UNCHANGED <<session, expiresAt, now>>
        BY <1>1 DEF RevokeByHash
    <2>2. \A t \in Tokens : revokedAt'[t] = None => revokedAt[t] = None
        BY <1>t, <1>1 DEF RevokeByHash, TypeOK
    <2> QED
        BY <2>1, <2>2, RevocationEnds
<1>2. ASSUME NEW h \in Handlers, RevokeAll(h) PROVE [Promised!Next]_(Promised!vars)
    <2>1. UNCHANGED <<session, expiresAt, now>>
        BY <1>2 DEF RevokeAll
    <2>2. \A t \in Tokens : revokedAt'[t] = None => revokedAt[t] = None
        BY <1>t, <1>2 DEF RevokeAll, TypeOK, Live
    <2> QED
        BY <2>1, <2>2, RevocationEnds
<1>3. CASE Tick
    <2>1. now' = now + 1 /\ UNCHANGED rows
        BY <1>3 DEF Tick
    <2>2. phase' = phase /\ deadline' = deadline
        BY <2>1 DEF rows, phase, deadline, Usable, Live
    <2> QED
        BY <2>1, <2>2 DEF Promised!Next, Promised!Pass
<1>4. CASE UNCHANGED <<rows, now>>
    BY <1>4 DEF rows, phase, deadline, Usable, Live, Promised!vars
<1>5. ASSUME NEW h \in Handlers, IssueTokenPair(h) \/ RotateCommit(h)
      PROVE  [Promised!Next]_(Promised!vars)
    BY <1>5, LoginOpens, RotationUnseen
<1>6. ASSUME NEW h \in Handlers,
             \/ Login(h) \/ RotateUpdate(h) \/ UpdatePassword(h)
             \/ BeginRevokeAll(h) \/ Abort(h)
             \/ \E t \in Tokens : DetectReuse(h, t) \/ Refresh(h, t) \/ Logout(h, t)
      PROVE  [Promised!Next]_(Promised!vars)
    BY <1>4, <1>6 DEF Login, RotateUpdate, UpdatePassword, BeginRevokeAll, Abort,
       DetectReuse, Refresh, Logout
<1>7. CASE UNCHANGED vars
    BY <1>4, <1>7 DEF vars, rows
<1> QED
    BY <1>1, <1>2, <1>3, <1>5, <1>6, <1>7 DEF Next, Continue

(* The tokens, with all their rotations and revocations, implement the     *)
(* sessions that a client sees.                                            *)
THEOREM TokensMakeSessions == Spec => ImplementsLoginSessions
<1>1. Init => Promised!Init
    BY AuthSessionsAssumption DEF Init, Promised!Init, phase, deadline
<1> QED
    BY <1>1, SessionStep, SessionsSeen, Invariance, PTL DEF Spec, ImplementsLoginSessions, Promised!Spec
=============================================================================
