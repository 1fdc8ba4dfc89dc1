-------------------------- MODULE Accounts_proofs --------------------------
(***************************************************************************)
(* Theorems about Accounts, for any number of requests, accounts and       *)
(* passwords.  A request carries what it is about to write from the moment *)
(* it found it (Carries), so that no write depends on what has become of   *)
(* the keys in Redis since.  A reset that may still use the latest token   *)
(* holds a handler: these and the resets already done with it are never    *)
(* more than the handlers (Spent).                                         *)
(***************************************************************************)
EXTENDS Accounts, TLAPS, FiniteSetTheorems

Carries ==
    \A h \in Handlers :
        /\ req[h].pc \in {"savePending", "createUser", "findUser", "update"} =>
                req[h].pw \in Passwords
        /\ req[h].pc = "update" => req[h].user \in Users
        /\ req[h].pc \in {"savePending", "issueOtp"} => req[h].flow \in Flows

IInv == TypeOK /\ Carries

(* The requests that found the latest token. *)
Latest == {h \in Handlers : req[h].token = "latest"}

Spent ==
    /\ resetToken => resets = 0
    /\ resets + Cardinality(Latest) <= Cardinality(Handlers)

(* The invariant holds at the start. *)
LEMMA InitInv == Init => IInv
<1> SUFFICES ASSUME Init PROVE IInv
    OBVIOUS
<1>1. Idle \in Request
    BY DEF Idle, Request, Call, Token
<1>2. TypeOK
    BY <1>1 DEF Init, TypeOK
<1>3. Carries
    BY DEF Init, Carries, Idle
<1> QED
    BY <1>2, <1>3 DEF IInv

(* A request whose account is found. *)
LEMMA RequestWith ==
    ASSUME NEW r \in Request, NEW call \in Call, NEW u \in Users
    PROVE  [r EXCEPT !.pc = call, !.user = u] \in Request
BY DEF Request

(* Every step preserves the invariant. *)
LEMMA Step == IInv /\ [Next]_vars => IInv'
<1> SUFFICES ASSUME IInv, [Next]_vars PROVE IInv'
    OBVIOUS
<1> USE AccountsAssumption DEF IInv, TypeOK, Carries, Request, Call, Flows, Token, Goto, Answer,
        Idle, db, redis
<1>1. ASSUME NEW h \in Handlers, NEW pw \in Passwords, Register(h, pw) PROVE IInv'
    BY <1>1 DEF Register
<1>2. ASSUME NEW h \in Handlers, SavePendingRegistration(h) PROVE IInv'
    <2>1. TypeOK'
        <3>1. pending' \in Passwords
            BY <1>2 DEF SavePendingRegistration
        <3>2. req' \in [Handlers -> Request]
            BY <1>2 DEF SavePendingRegistration
        <3>3. UNCHANGED <<holder, password, otp, resetToken, resets>>
            BY <1>2 DEF SavePendingRegistration
        <3>4. TypeOK
            BY DEF IInv
        <3> HIDE DEF IInv, Request
        <3> QED
            BY <3>1, <3>2, <3>3, <3>4
    <2>2. Carries'
        BY <1>2 DEF SavePendingRegistration
    <2> QED
        BY <2>1, <2>2
<1>3. ASSUME NEW h \in Handlers, ResendRegistrationOtp(h) PROVE IInv'
    BY <1>3 DEF ResendRegistrationOtp
<1>4. ASSUME NEW h \in Handlers, RequestPasswordReset(h) PROVE IInv'
    BY <1>4 DEF RequestPasswordReset
<1>5. ASSUME NEW h \in Handlers, IssueOtp(h) PROVE IInv'
    BY <1>5 DEF IssueOtp
<1>6. ASSUME NEW h \in Handlers, VerifyRegistration(h) PROVE IInv'
    BY <1>6 DEF VerifyRegistration
<1>7. ASSUME NEW h \in Handlers, FindPendingRegistration(h) PROVE IInv'
    BY <1>7 DEF FindPendingRegistration
<1>8. ASSUME NEW h \in Handlers, CreateUser(h) PROVE IInv'
    <2>1. CASE holder # None /\ Answer(h) /\ UNCHANGED <<db, redis, resets>>
        BY <2>1
    <2>2. ASSUME NEW u \in Users, holder = None, holder' = u,
                 password' = [password EXCEPT ![u] = req[h].pw],
                 req' = [req EXCEPT ![h].pc = "cleanUp", ![h].user = u],
                 UNCHANGED <<redis, resets>>
          PROVE  IInv'
        <3>1. req[h].pw \in Passwords
            BY <1>8 DEF CreateUser
        <3>2. TypeOK'
            <4>1. req' \in [Handlers -> Request]
                <5>1. [req[h] EXCEPT !.pc = "cleanUp", !.user = u] \in Request
                    <6>1. req[h] \in Request /\ "cleanUp" \in Call
                        OBVIOUS
                    <6> HIDE DEF Request, Call
                    <6> QED
                        BY <2>2, <6>1, RequestWith
                <5>2. req' = [req EXCEPT ![h] = [req[h] EXCEPT !.pc = "cleanUp", !.user = u]]
                    BY <2>2
                <5> QED
                    BY <5>1, <5>2
            <4>2. password' \in [Users -> Passwords \cup {None}] /\ password'[u] # None
                BY <2>2, <3>1
            <4> QED
                BY <2>2, <4>1, <4>2
        <3>3. Carries'
            BY <2>2
        <3> QED
            BY <3>2, <3>3
    <2> QED
        BY <1>8, <2>1, <2>2 DEF CreateUser
<1>9. ASSUME NEW h \in Handlers, CleanUp(h) PROVE IInv'
    BY <1>9 DEF CleanUp
<1>10. ASSUME NEW h \in Handlers, LogIn(h) PROVE IInv'
    BY <1>10 DEF LogIn
<1>11. ASSUME NEW h \in Handlers, VerifyPasswordResetOtp(h) PROVE IInv'
    BY <1>11 DEF VerifyPasswordResetOtp
<1>12. ASSUME NEW h \in Handlers, SaveResetToken(h) PROVE IInv'
    BY <1>12 DEF SaveResetToken
<1>13. ASSUME NEW h \in Handlers, NEW pw \in Passwords, ResetPassword(h, pw) PROVE IInv'
    BY <1>13 DEF ResetPassword
<1>14. ASSUME NEW h \in Handlers, FindUserToReset(h) PROVE IInv'
    BY <1>14 DEF FindUserToReset
<1>15. ASSUME NEW h \in Handlers, NEW u \in Users, NEW current \in Passwords,
              NEW pw \in Passwords, ChangePassword(h, u, current, pw)
       PROVE  IInv'
    BY <1>15 DEF ChangePassword
<1>16. ASSUME NEW h \in Handlers, UpdateUserPassword(h) PROVE IInv'
    BY <1>16 DEF UpdateUserPassword
<1>17. ASSUME NEW h \in Handlers, RevokeSessions(h) PROVE IInv'
    BY <1>17 DEF RevokeSessions
<1>18. ASSUME NEW h \in Handlers, DeleteResetToken(h) PROVE IInv'
    <2>1. resets' \in Nat
        BY <1>18 DEF DeleteResetToken
    <2>2. resetToken' \in BOOLEAN
        <3>1. resetToken' = FALSE \/ resetToken' = resetToken
            BY <1>18 DEF DeleteResetToken
        <3>2. resetToken \in BOOLEAN
            OBVIOUS
        <3> HIDE DEF IInv, TypeOK
        <3> QED
            BY <3>1, <3>2, Zenon
    <2>3. req' = [req EXCEPT ![h] = Idle] /\ UNCHANGED <<db, pending, otp>>
        BY <1>18 DEF DeleteResetToken
    <2> QED
        BY <2>1, <2>2, <2>3
<1>19. ASSUME NEW u \in Users, UpdateProfile(u) PROVE IInv'
    BY <1>19 DEF UpdateProfile, UpdateUserProfile
<1>20. ASSUME NEW h \in Handlers, Abort(h) PROVE IInv'
    BY <1>20 DEF Abort
<1>21. CASE Expire
    BY <1>21 DEF Expire
<1>22. CASE UNCHANGED vars
    BY <1>22 DEF vars
<1> QED
    BY <1>1, <1>2, <1>3, <1>4, <1>5, <1>6, <1>7, <1>8, <1>9, <1>10, <1>11, <1>12, <1>13,
       <1>14, <1>15, <1>16, <1>17, <1>18, <1>19, <1>20, <1>21, <1>22 DEF Next, Continue

(* The requests with the latest token are as few as the handlers. *)
LEMMA FewLatest ==
    /\ IsFiniteSet(Latest)
    /\ Cardinality(Latest) \in Nat /\ Cardinality(Handlers) \in Nat
    /\ Cardinality(Latest) <= Cardinality(Handlers)
<1>1. Latest \subseteq Handlers
    BY DEF Latest
<1> HIDE DEF Latest
<1> QED
    BY <1>1, AccountsAssumption, FS_Subset, FS_CardinalityType

(* What a step that neither finds nor saves a token nor spends one does. *)
Keeps ==
    /\ resets' = resets
    /\ Latest' \subseteq Latest
    /\ resetToken' => resetToken

LEMMA KeepsSpent == IInv /\ Spent /\ Keeps => Spent'
<1> SUFFICES ASSUME IInv, Spent, Keeps PROVE Spent'
    OBVIOUS
<1> DEFINE L == Latest'
<1>1. IsFiniteSet(L) /\ Cardinality(L) \in Nat /\ Cardinality(L) <= Cardinality(Latest)
    <2>1. L \subseteq Latest
        BY DEF Keeps
    <2> HIDE DEF L
    <2> QED
        BY <2>1, FewLatest, FS_Subset, FS_CardinalityType
<1>2. resets' + Cardinality(L) <= Cardinality(Handlers)
    <2> HIDE DEF L
    <2> QED
        BY <1>1, FewLatest DEF Spent, Keeps, IInv, TypeOK
<1> QED
    BY <1>2 DEF Spent, Keeps

(* Without a reset nothing is spent. *)
LEMMA NoneSpent == IInv' /\ resets' = 0 => Spent'
<1> SUFFICES ASSUME resets' = 0 PROVE Spent'
    OBVIOUS
<1> DEFINE L == Latest'
<1>1. L \subseteq Handlers
    BY DEF Latest
<1>2. Cardinality(L) \in Nat /\ Cardinality(L) <= Cardinality(Handlers)
    <2> HIDE DEF L
    <2> QED
        BY <1>1, AccountsAssumption, FS_Subset, FS_CardinalityType
<1>3. resets' + Cardinality(L) <= Cardinality(Handlers)
    <2> HIDE DEF L
    <2> QED
        BY <1>2, FewLatest
<1> QED
    BY <1>3 DEF Spent

(* A reset that deletes the token moves on from those that may use it.     *)
LEMMA DeletionSpends ==
    ASSUME IInv, Spent, NEW h \in Handlers, DeleteResetToken(h)
    PROVE  Spent'
<1>1. /\ req \in [Handlers -> Request]
      /\ req' = [req EXCEPT ![h] = Idle]
    BY DEF IInv, TypeOK, DeleteResetToken, Answer
<1>2. Idle.token # "latest"
    BY DEF Idle
<1>3. Latest' = Latest \ {h}
    <2> HIDE DEF Idle
    <2> QED
        BY <1>1, <1>2 DEF Latest
<1>4. CASE resetToken' = FALSE /\ req[h].token = "latest" /\ resets' = resets + 1
    <2> DEFINE L == Latest'
    <2>1. h \in Latest
        BY <1>4 DEF Latest
    <2>2. Cardinality(L) = Cardinality(Latest) - 1
        BY <1>3, <2>1, FewLatest, FS_RemoveElement
    <2>3. resets' + Cardinality(L) <= Cardinality(Handlers)
        <3> HIDE DEF L
        <3> QED
            BY <1>4, <2>2, FewLatest DEF Spent, IInv, TypeOK
    <2> QED
        BY <1>4, <2>3 DEF Spent
<1>5. CASE resets' = resets /\ (resetToken' => resetToken)
    BY <1>3, <1>5, KeepsSpent DEF Keeps
<1>6. CASE UNCHANGED <<resetToken, resets>>
    BY <1>5, <1>6
<1>7. CASE /\ resetToken' = FALSE
           /\ resets' = IF req[h].token = "latest" THEN resets + 1 ELSE resets
    <2>1. CASE req[h].token = "latest"
        BY <1>4, <1>7, <2>1
    <2>2. CASE req[h].token # "latest"
        <3>1. resets' = resets
            BY <1>7, <2>2
        <3>2. resetToken' => resetToken
            BY <1>7
        <3> QED
            BY <1>5, <3>1, <3>2
    <2> QED
        BY <2>1, <2>2
<1> QED
    BY <1>6, <1>7 DEF DeleteResetToken

(* A step after which no other request has the latest token. *)
Kept ==
    /\ \A g \in Handlers : req'[g].token = "latest" => req[g].token = "latest"
    /\ UNCHANGED <<resetToken, resets>>

LEMMA KeptSpent == IInv /\ Spent /\ Kept => Spent'
BY KeepsSpent DEF Kept, Keeps, Latest

(* Requests that go on, end or find something have the token they had.     *)
LEMMA GoesOn ==
    ASSUME TypeOK, NEW h \in Handlers, NEW r, req' = [req EXCEPT ![h] = r],
           r.token \in {"none", req[h].token}, UNCHANGED <<resetToken, resets>>
    PROVE  Kept
BY DEF TypeOK, Kept

(* Every step keeps the resets of one token bounded. *)
LEMMA SpentStep == IInv /\ IInv' /\ Spent /\ [Next]_vars => Spent'
<1> SUFFICES ASSUME IInv, IInv', Spent, [Next]_vars PROVE Spent'
    OBVIOUS
<1>t. TypeOK /\ req \in [Handlers -> Request] /\ \A h \in Handlers : req[h] \in Request
    BY DEF IInv, TypeOK
<1>1. ASSUME Kept PROVE Spent'
    BY <1>1, KeptSpent
<1>2. ASSUME NEW h \in Handlers, SaveResetToken(h) PROVE Spent'
    BY <1>2, NoneSpent DEF SaveResetToken
<1>3. ASSUME NEW h \in Handlers, NEW pw \in Passwords, ResetPassword(h, pw) PROVE Spent'
    BY <1>3, NoneSpent DEF ResetPassword, Spent
<1>4. ASSUME NEW h \in Handlers, NEW pw \in Passwords,
             Register(h, pw)
      PROVE  Kept
    <2> DEFINE r == [Idle EXCEPT !.pc = "savePending", !.flow = "register", !.pw = pw]
    <2>1. r.token \in {"none", req[h].token}
        BY <1>t DEF Idle, Request
    <2>2. req' = [req EXCEPT ![h] = r] /\ UNCHANGED <<resetToken, resets>>
        BY <1>t, <1>4 DEF Register, Goto, Answer, redis
    <2> HIDE DEF r
    <2> QED
        BY <1>t, <2>1, <2>2, GoesOn
<1>5. ASSUME NEW h \in Handlers, NEW u \in Users, NEW current \in Passwords,
             NEW pw \in Passwords,
             ChangePassword(h, u, current, pw)
      PROVE  Kept
    <2> DEFINE r == [Idle EXCEPT !.pc = "update", !.user = u, !.pw = pw]
    <2>1. r.token \in {"none", req[h].token}
        BY <1>t DEF Idle, Request
    <2>2. req' = [req EXCEPT ![h] = r] /\ UNCHANGED <<resetToken, resets>>
        BY <1>t, <1>5 DEF ChangePassword, Goto, Answer, redis
    <2> HIDE DEF r
    <2> QED
        BY <1>t, <2>1, <2>2, GoesOn
<1>6. ASSUME NEW h \in Handlers,
             ResendRegistrationOtp(h)
      PROVE  Kept
    <2> DEFINE r == [Idle EXCEPT !.pc = "issueOtp", !.flow = "register"]
    <2>1. r.token \in {"none", req[h].token}
        BY <1>t DEF Idle, Request
    <2>2. req' = [req EXCEPT ![h] = r] /\ UNCHANGED <<resetToken, resets>>
        BY <1>t, <1>6 DEF ResendRegistrationOtp, Goto, Answer, redis
    <2> HIDE DEF r
    <2> QED
        BY <1>t, <2>1, <2>2, GoesOn
<1>7. ASSUME NEW h \in Handlers,
             RequestPasswordReset(h)
      PROVE  Kept
    <2> DEFINE r == [Idle EXCEPT !.pc = "issueOtp", !.flow = "reset"]
    <2>1. r.token \in {"none", req[h].token}
        BY <1>t DEF Idle, Request
    <2>2. req' = [req EXCEPT ![h] = r] /\ UNCHANGED <<resetToken, resets>>
        BY <1>t, <1>7 DEF RequestPasswordReset, Goto, Answer, redis
    <2> HIDE DEF r
    <2> QED
        BY <1>t, <2>1, <2>2, GoesOn
<1>8. ASSUME NEW h \in Handlers,
             VerifyRegistration(h)
      PROVE  Kept
    <2> DEFINE r == [Idle EXCEPT !.pc = "findPending", !.flow = "register"]
    <2>1. r.token \in {"none", req[h].token}
        BY <1>t DEF Idle, Request
    <2>2. req' = [req EXCEPT ![h] = r] /\ UNCHANGED <<resetToken, resets>>
        BY <1>t, <1>8 DEF VerifyRegistration, Goto, Answer, redis
    <2> HIDE DEF r
    <2> QED
        BY <1>t, <2>1, <2>2, GoesOn
<1>9. ASSUME NEW h \in Handlers,
             VerifyPasswordResetOtp(h)
      PROVE  Kept
    <2> DEFINE r == [Idle EXCEPT !.pc = "saveToken", !.flow = "reset"]
    <2>1. r.token \in {"none", req[h].token}
        BY <1>t DEF Idle, Request
    <2>2. req' = [req EXCEPT ![h] = r] /\ UNCHANGED <<resetToken, resets>>
        BY <1>t, <1>9 DEF VerifyPasswordResetOtp, Goto, Answer, redis
    <2> HIDE DEF r
    <2> QED
        BY <1>t, <2>1, <2>2, GoesOn
<1>10. ASSUME NEW h \in Handlers,
             SavePendingRegistration(h)
      PROVE  Kept
    <2> DEFINE r == [req[h] EXCEPT !.pc = "issueOtp"]
    <2>1. r.token \in {"none", req[h].token}
        BY <1>t DEF Idle, Request
    <2>2. req' = [req EXCEPT ![h] = r] /\ UNCHANGED <<resetToken, resets>>
        BY <1>t, <1>10 DEF SavePendingRegistration, Goto, Answer, redis
    <2> HIDE DEF r
    <2> QED
        BY <1>t, <2>1, <2>2, GoesOn
<1>11. ASSUME NEW h \in Handlers,
             UpdateUserPassword(h)
      PROVE  Kept
    <2> DEFINE r == [req[h] EXCEPT !.pc = "revokeAll"]
    <2>1. r.token \in {"none", req[h].token}
        BY <1>t DEF Idle, Request
    <2>2. req' = [req EXCEPT ![h] = r] /\ UNCHANGED <<resetToken, resets>>
        BY <1>t, <1>11 DEF UpdateUserPassword, Goto, Answer, redis
    <2> HIDE DEF r
    <2> QED
        BY <1>t, <2>1, <2>2, GoesOn
<1>12. ASSUME NEW h \in Handlers,
             IssueOtp(h)
      PROVE  Kept
    <2> DEFINE r == Idle
    <2>1. r.token \in {"none", req[h].token}
        BY <1>t DEF Idle, Request
    <2>2. req' = [req EXCEPT ![h] = r] /\ UNCHANGED <<resetToken, resets>>
        BY <1>t, <1>12 DEF IssueOtp, Goto, Answer, redis
    <2> HIDE DEF r
    <2> QED
        BY <1>t, <2>1, <2>2, GoesOn
<1>13. ASSUME NEW h \in Handlers,
             LogIn(h)
      PROVE  Kept
    <2> DEFINE r == Idle
    <2>1. r.token \in {"none", req[h].token}
        BY <1>t DEF Idle, Request
    <2>2. req' = [req EXCEPT ![h] = r] /\ UNCHANGED <<resetToken, resets>>
        BY <1>t, <1>13 DEF LogIn, Goto, Answer, redis
    <2> HIDE DEF r
    <2> QED
        BY <1>t, <2>1, <2>2, GoesOn
<1>14. ASSUME NEW h \in Handlers,
             Abort(h)
      PROVE  Kept
    <2> DEFINE r == Idle
    <2>1. r.token \in {"none", req[h].token}
        BY <1>t DEF Idle, Request
    <2>2. req' = [req EXCEPT ![h] = r] /\ UNCHANGED <<resetToken, resets>>
        BY <1>t, <1>14 DEF Abort, Goto, Answer, redis
    <2> HIDE DEF r
    <2> QED
        BY <1>t, <2>1, <2>2, GoesOn
<1>15. ASSUME NEW h \in Handlers,
             FindPendingRegistration(h)
      PROVE  Kept
    <2>1. CASE pending # None
        <3> DEFINE r == [req[h] EXCEPT !.pc = "createUser", !.pw = pending]
        <3>1. r.token \in {"none", req[h].token}
            BY <1>t DEF Idle, Request
        <3>2. req' = [req EXCEPT ![h] = r] /\ UNCHANGED <<resetToken, resets>>
            BY <1>t, <1>15, <2>1 DEF FindPendingRegistration, Goto, Answer, redis
        <3> HIDE DEF r
        <3> QED
            BY <1>t, <3>1, <3>2, GoesOn
    <2>2. CASE pending = None
        <3> DEFINE r == Idle
        <3>1. r.token \in {"none", req[h].token}
            BY <1>t DEF Idle, Request
        <3>2. req' = [req EXCEPT ![h] = r] /\ UNCHANGED <<resetToken, resets>>
            BY <1>t, <1>15, <2>2 DEF FindPendingRegistration, Goto, Answer, redis
        <3> HIDE DEF r
        <3> QED
            BY <1>t, <3>1, <3>2, GoesOn
    <2> QED
        BY <1>15, <2>1, <2>2 DEF FindPendingRegistration
<1>16. ASSUME NEW h \in Handlers,
             FindUserToReset(h)
      PROVE  Kept
    <2>1. CASE holder # None
        <3> DEFINE r == [req[h] EXCEPT !.pc = "update", !.user = holder]
        <3>1. r.token \in {"none", req[h].token}
            BY <1>t DEF Idle, Request
        <3>2. req' = [req EXCEPT ![h] = r] /\ UNCHANGED <<resetToken, resets>>
            BY <1>t, <1>16, <2>1 DEF FindUserToReset, Goto, Answer, redis
        <3> HIDE DEF r
        <3> QED
            BY <1>t, <3>1, <3>2, GoesOn
    <2>2. CASE holder = None
        <3> DEFINE r == Idle
        <3>1. r.token \in {"none", req[h].token}
            BY <1>t DEF Idle, Request
        <3>2. req' = [req EXCEPT ![h] = r] /\ UNCHANGED <<resetToken, resets>>
            BY <1>t, <1>16, <2>2 DEF FindUserToReset, Goto, Answer, redis
        <3> HIDE DEF r
        <3> QED
            BY <1>t, <3>1, <3>2, GoesOn
    <2> QED
        BY <1>16, <2>1, <2>2 DEF FindUserToReset
<1>17. ASSUME NEW h \in Handlers,
             CleanUp(h)
      PROVE  Kept
    <2>1. CASE req[h].flow = "register"
        <3> DEFINE r == [req[h] EXCEPT !.pc = "logIn"]
        <3>1. r.token \in {"none", req[h].token}
            BY <1>t DEF Idle, Request
        <3>2. req' = [req EXCEPT ![h] = r] /\ UNCHANGED <<resetToken, resets>>
            BY <1>t, <1>17, <2>1 DEF CleanUp, Goto, Answer, redis
        <3> HIDE DEF r
        <3> QED
            BY <1>t, <3>1, <3>2, GoesOn
    <2>2. CASE req[h].flow # "register"
        <3> DEFINE r == Idle
        <3>1. r.token \in {"none", req[h].token}
            BY <1>t DEF Idle, Request
        <3>2. req' = [req EXCEPT ![h] = r] /\ UNCHANGED <<resetToken, resets>>
            BY <1>t, <1>17, <2>2 DEF CleanUp, Goto, Answer, redis
        <3> HIDE DEF r
        <3> QED
            BY <1>t, <3>1, <3>2, GoesOn
    <2> QED
        BY <1>17, <2>1, <2>2 DEF CleanUp
<1>18. ASSUME NEW h \in Handlers,
             RevokeSessions(h)
      PROVE  Kept
    <2>1. CASE req[h].flow = "reset"
        <3> DEFINE r == [req[h] EXCEPT !.pc = "deleteToken"]
        <3>1. r.token \in {"none", req[h].token}
            BY <1>t DEF Idle, Request
        <3>2. req' = [req EXCEPT ![h] = r] /\ UNCHANGED <<resetToken, resets>>
            BY <1>t, <1>18, <2>1 DEF RevokeSessions, Goto, Answer, redis
        <3> HIDE DEF r
        <3> QED
            BY <1>t, <3>1, <3>2, GoesOn
    <2>2. CASE req[h].flow # "reset"
        <3> DEFINE r == Idle
        <3>1. r.token \in {"none", req[h].token}
            BY <1>t DEF Idle, Request
        <3>2. req' = [req EXCEPT ![h] = r] /\ UNCHANGED <<resetToken, resets>>
            BY <1>t, <1>18, <2>2 DEF RevokeSessions, Goto, Answer, redis
        <3> HIDE DEF r
        <3> QED
            BY <1>t, <3>1, <3>2, GoesOn
    <2> QED
        BY <1>18, <2>1, <2>2 DEF RevokeSessions
<1>19. ASSUME NEW h \in Handlers,
             CreateUser(h)
      PROVE  Kept
    <2>1. ASSUME NEW u \in Users, req' = [req EXCEPT ![h].pc = "cleanUp", ![h].user = u]
          PROVE  Kept
        <3> DEFINE r == [req[h] EXCEPT !.pc = "cleanUp", !.user = u]
        <3>1. r.token \in {"none", req[h].token}
            BY <1>t DEF Request
        <3>2. req' = [req EXCEPT ![h] = r] /\ UNCHANGED <<resetToken, resets>>
            BY <1>t, <1>19, <2>1 DEF CreateUser, redis
        <3> HIDE DEF r
        <3> QED
            BY <1>t, <3>1, <3>2, GoesOn
    <2>2. CASE Answer(h)
        <3>1. req' = [req EXCEPT ![h] = Idle] /\ UNCHANGED <<resetToken, resets>>
            BY <1>19, <2>2 DEF CreateUser, Answer, redis
        <3> QED
            BY <1>t, <3>1, GoesOn DEF Idle
    <2> QED
        BY <1>19, <2>1, <2>2 DEF CreateUser
<1>20. ASSUME NEW u \in Users, UpdateProfile(u) PROVE Kept
    BY <1>20 DEF UpdateProfile, Kept, redis
<1>21. CASE Expire
    BY <1>21, KeepsSpent DEF Expire, Keeps, Latest
<1>22. CASE UNCHANGED vars
    BY <1>1, <1>22 DEF vars, redis, Kept
<1> QED
    BY <1>1, <1>2, <1>3, <1>4, <1>5, <1>6, <1>7, <1>8, <1>9, <1>10, <1>11,
       <1>12, <1>13, <1>14, <1>15, <1>16, <1>17, <1>18, <1>19, <1>20, <1>21,
       <1>22, DeletionSpends DEF Next, Continue

-----------------------------------------------------------------------------
(* In every reachable state the accounts, the keys in Redis and the        *)
(* requests are well typed, and the account that has the address has a     *)
(* password.                                                               *)
THEOREM TypeCorrect == Spec => []TypeOK
<1>1. IInv => TypeOK
    BY DEF IInv
<1> QED
    BY InitInv, Step, <1>1, PTL DEF Spec

(* However resets, new tokens, failed calls and the ends of their TTLs     *)
(* race, one token serves no more resets than the server handles at a      *)
(* time: once one of them has deleted it, nothing finds it again.          *)
THEOREM ResetsLimited == Spec => []ResetsBounded
<1>1. Init => Spent
    <2> SUFFICES ASSUME Init PROVE Spent
        OBVIOUS
    <2>1. resets = 0
        BY DEF Init
    <2> QED
        BY <2>1, FewLatest DEF Spent
<1>2. IInv /\ Spent => ResetsBounded
    BY FewLatest DEF IInv, TypeOK, Spent, ResetsBounded
<1> QED
    BY InitInv, Step, SpentStep, <1>1, <1>2, PTL DEF Spec
=============================================================================
