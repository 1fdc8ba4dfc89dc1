------------------------------ MODULE Accounts ------------------------------
(***************************************************************************)
(* Registration, password reset and change of address, for one e-mail      *)
(* address and the accounts that may hold it.                              *)
(*                                                                         *)
(* A pending registration, an OTP for each flow and a reset token are keys *)
(* of Redis by the address; accounts are rows with a unique e-mail.  The   *)
(* services look at one and write the other in separate calls, so what a   *)
(* request found may be gone when it acts on it.  How an OTP is issued and *)
(* checked is the module EmailOtp: here it is there or not, and its time   *)
(* to live, a lock-out or a new OTP may end it at any time, like the other *)
(* keys'.  What a reset does to the sessions is the module AuthSessions.   *)
(* A request that is refused and changes nothing is left out.              *)
(***************************************************************************)
EXTENDS Naturals, FiniteSets

CONSTANTS
    Handlers,   \* requests the server serves at the same time
    Users,      \* accounts
    Passwords,
    None        \* no account, no password, no key

ASSUME AccountsAssumption ==
    /\ None \notin Users \cup Passwords
    /\ IsFiniteSet(Handlers)

VARIABLES
    holder,      \* the account whose users.email the address is
    password,    \* users.password_hash by account, None without a row
    pending,     \* the password of the pending registration
    otp,         \* the flows that have an OTP
    resetToken,  \* whether there is a password reset token
    req,         \* where each handler stands
    resets       \* resets done, and their token deleted, with the latest token

db == <<holder, password>>
redis == <<pending, otp, resetToken>>
vars == <<db, redis, req, resets>>

-----------------------------------------------------------------------------
Flows == {"register", "reset"}

(* The calls a handler may be about to make. *)
Call == {"idle", "savePending", "issueOtp", "findPending", "createUser", "logIn",
         "saveToken", "cleanUp", "findUser", "update", "revokeAll", "deleteToken"}

(* The reset token that a request was sent with, if any. *)
Token == {"none", "latest", "replaced"}

Request == [pc : Call, flow : Flows \cup {None}, user : Users \cup {None},
            pw : Passwords \cup {None}, token : Token]

Idle == [pc |-> "idle", flow |-> None, user |-> None, pw |-> None, token |-> "none"]

TypeOK ==
    /\ holder \in Users \cup {None}
    /\ holder # None => password[holder] # None
    /\ password \in [Users -> Passwords \cup {None}]
    /\ pending \in Passwords \cup {None}
    /\ otp \subseteq Flows
    /\ resetToken \in BOOLEAN
    /\ req \in [Handlers -> Request]
    /\ resets \in Nat

(* Nobody has the address; there may be accounts under other addresses. *)
Init ==
    /\ holder = None
    /\ password \in [Users -> Passwords \cup {None}]
    /\ pending = None
    /\ otp = {}
    /\ resetToken = FALSE
    /\ req = [h \in Handlers |-> Idle]
    /\ resets = 0

-----------------------------------------------------------------------------
Goto(h, call) == req' = [req EXCEPT ![h].pc = call]

Answer(h) == req' = [req EXCEPT ![h] = Idle]

(* Broken forms of definitions below, one plausible bug each; none is used. *)

(* A pending registration that is created from without having been found. *)
FindPendingRegistration_Missing(h) ==
    /\ req[h].pc = "findPending"
    /\ req' = [req EXCEPT ![h].pc = "createUser", ![h].pw = pending]
    /\ UNCHANGED <<db, redis, resets>>

(* The token is deleted under another key than it was saved. *)
DeleteResetToken_OtherKey(h) ==
    /\ req[h].pc = "deleteToken"
    /\ resets' = IF req[h].token = "latest" THEN resets + 1 ELSE resets
    /\ Answer(h)
    /\ UNCHANGED <<db, redis>>

-----------------------------------------------------------------------------
(* Registration *)

(* POST /auth/register, for an address that no account has and that has    *)
(* not been sent an OTP just now.                                          *)
Register(h, pw) ==
    /\ req[h].pc = "idle"
    /\ holder = None
    /\ req' = [req EXCEPT ![h] = [Idle EXCEPT !.pc = "savePending",
                                              !.flow = "register", !.pw = pw]]
    /\ UNCHANGED <<db, redis, resets>>

SavePendingRegistration(h) ==
    /\ req[h].pc = "savePending"
    /\ pending' = req[h].pw
    /\ Goto(h, "issueOtp")
    /\ UNCHANGED <<db, otp, resetToken, resets>>

(* POST /auth/register/resend: all it needs is the pending registration. *)
ResendRegistrationOtp(h) ==
    /\ req[h].pc = "idle"
    /\ pending # None
    /\ req' = [req EXCEPT ![h] = [Idle EXCEPT !.pc = "issueOtp", !.flow = "register"]]
    /\ UNCHANGED <<db, redis, resets>>

(* POST /auth/forgot-password, for an address that an account has. *)
RequestPasswordReset(h) ==
    /\ req[h].pc = "idle"
    /\ holder # None
    /\ req' = [req EXCEPT ![h] = [Idle EXCEPT !.pc = "issueOtp", !.flow = "reset"]]
    /\ UNCHANGED <<db, redis, resets>>

(* The OTP is stored and mailed. *)
IssueOtp(h) ==
    /\ req[h].pc = "issueOtp"
    /\ otp' = otp \cup {req[h].flow}
    /\ Answer(h)
    /\ UNCHANGED <<db, pending, resetToken, resets>>

(* POST /auth/register/verify with the OTP. *)
VerifyRegistration(h) ==
    /\ req[h].pc = "idle"
    /\ "register" \in otp
    /\ req' = [req EXCEPT ![h] = [Idle EXCEPT !.pc = "findPending", !.flow = "register"]]
    /\ UNCHANGED <<db, redis, resets>>

FindPendingRegistration(h) ==
    /\ req[h].pc = "findPending"
    /\ \/ /\ pending # None
          /\ req' = [req EXCEPT ![h].pc = "createUser", ![h].pw = pending]
       \/ /\ pending = None
          /\ Answer(h)
    /\ UNCHANGED <<db, redis, resets>>

(* The unique e-mail lets one insert through. *)
CreateUser(h) ==
    /\ req[h].pc = "createUser"
    /\ \/ \E u \in Users :
            /\ holder = None
            /\ password[u] = None
            /\ holder' = u
            /\ password' = [password EXCEPT ![u] = req[h].pw]
            /\ req' = [req EXCEPT ![h].pc = "cleanUp", ![h].user = u]
       \/ /\ holder # None
          /\ Answer(h)
          /\ UNCHANGED db
    /\ UNCHANGED <<redis, resets>>

(* The deletions at the end of a verification are sent together and each   *)
(* may fail: the OTP, and a registration's pending data.  A registration   *)
(* then logs in, with an account that is there.                            *)
CleanUp(h) ==
    /\ req[h].pc = "cleanUp"
    /\ otp' \in {otp, otp \ {req[h].flow}}
    /\ pending' \in {pending} \cup {x \in {None} : req[h].flow = "register"}
    /\ IF req[h].flow = "register" THEN Goto(h, "logIn") ELSE Answer(h)
    /\ UNCHANGED <<db, resetToken, resets>>

LogIn(h) ==
    /\ req[h].pc = "logIn"
    /\ Answer(h)
    /\ UNCHANGED <<db, redis, resets>>

-----------------------------------------------------------------------------
(* Password *)

(* POST /auth/verify-password-reset-otp with the OTP. *)
VerifyPasswordResetOtp(h) ==
    /\ req[h].pc = "idle"
    /\ "reset" \in otp
    /\ req' = [req EXCEPT ![h] = [Idle EXCEPT !.pc = "saveToken", !.flow = "reset"]]
    /\ UNCHANGED <<db, redis, resets>>

(* A new token replaces an older one, for the resets on their way as well. *)
SaveResetToken(h) ==
    /\ req[h].pc = "saveToken"
    /\ resetToken' = TRUE
    /\ resets' = 0
    /\ req' = [g \in Handlers |->
                 IF g = h THEN [req[g] EXCEPT !.pc = "cleanUp"]
                 ELSE IF req[g].token = "latest" THEN [req[g] EXCEPT !.token = "replaced"]
                 ELSE req[g]]
    /\ UNCHANGED <<db, pending, otp>>

(* POST /auth/reset-password with the token that is stored. *)
ResetPassword(h, pw) ==
    /\ req[h].pc = "idle"
    /\ resetToken
    /\ req' = [req EXCEPT ![h] = [Idle EXCEPT !.pc = "findUser", !.flow = "reset",
                                              !.pw = pw, !.token = "latest"]]
    /\ UNCHANGED <<db, redis, resets>>

FindUserToReset(h) ==
    /\ req[h].pc = "findUser"
    /\ \/ /\ holder # None
          /\ req' = [req EXCEPT ![h].pc = "update", ![h].user = holder]
       \/ /\ holder = None
          /\ Answer(h)
    /\ UNCHANGED <<db, redis, resets>>

(* POST /auth/change-password with the password the account has. *)
ChangePassword(h, u, current, pw) ==
    /\ req[h].pc = "idle"
    /\ password[u] = current
    /\ current # pw
    /\ req' = [req EXCEPT ![h] = [Idle EXCEPT !.pc = "update", !.user = u, !.pw = pw]]
    /\ UNCHANGED <<db, redis, resets>>

UpdateUserPassword(h) ==
    /\ req[h].pc = "update"
    /\ password' = [password EXCEPT ![req[h].user] = req[h].pw]
    /\ Goto(h, "revokeAll")
    /\ UNCHANGED <<holder, redis, resets>>

(* A reset gives its token up only when the sessions are revoked. *)
RevokeSessions(h) ==
    /\ req[h].pc = "revokeAll"
    /\ IF req[h].flow = "reset" THEN Goto(h, "deleteToken") ELSE Answer(h)
    /\ UNCHANGED <<db, redis, resets>>

(* The key is the address, so that a late reset deletes a newer token too. *)
(* A deletion that fails is not retried: the token lives on until its TTL. *)
DeleteResetToken(h) ==
    /\ req[h].pc = "deleteToken"
    /\ \/ /\ resetToken' = FALSE
          /\ resets' = IF req[h].token = "latest" THEN resets + 1 ELSE resets
       \/ UNCHANGED <<resetToken, resets>>
    /\ Answer(h)
    /\ UNCHANGED <<db, pending, otp>>

-----------------------------------------------------------------------------
(* The UPDATE of users.email, which is unique: an account gives the        *)
(* address up for another, or takes it when nobody has it.                 *)
UpdateUserProfile(u) ==
    /\ password[u] # None
    /\ \/ holder = u /\ holder' = None
       \/ holder = None /\ holder' = u

(* PATCH of a profile that names an address. *)
UpdateProfile(u) ==
    /\ UpdateUserProfile(u)
    /\ UNCHANGED <<password, redis, req, resets>>

(* A call fails or the server dies; nothing is undone. *)
Abort(h) ==
    /\ req[h].pc # "idle"
    /\ Answer(h)
    /\ UNCHANGED <<db, redis, resets>>

(* The time to live of a key ends, or an OTP is locked out. *)
Expire ==
    /\ \/ pending' = None /\ UNCHANGED <<otp, resetToken>>
       \/ otp' \in {otp \ {f} : f \in otp} /\ UNCHANGED <<pending, resetToken>>
       \/ resetToken' = FALSE /\ UNCHANGED <<pending, otp>>
    /\ UNCHANGED <<db, req, resets>>

-----------------------------------------------------------------------------
Continue(h) ==
    \/ SavePendingRegistration(h) \/ IssueOtp(h)
    \/ FindPendingRegistration(h) \/ CreateUser(h) \/ CleanUp(h) \/ LogIn(h)
    \/ SaveResetToken(h)
    \/ FindUserToReset(h) \/ UpdateUserPassword(h)
    \/ RevokeSessions(h) \/ DeleteResetToken(h)

Next ==
    \/ \E h \in Handlers :
        \/ \E pw \in Passwords : Register(h, pw) \/ ResetPassword(h, pw)
        \/ \E u \in Users, current, pw \in Passwords : ChangePassword(h, u, current, pw)
        \/ ResendRegistrationOtp(h) \/ RequestPasswordReset(h)
        \/ VerifyRegistration(h) \/ VerifyPasswordResetOtp(h)
        \/ Continue(h)
        \/ Abort(h)
    \/ \E u \in Users : UpdateProfile(u)
    \/ Expire

Spec == Init /\ [][Next]_vars

-----------------------------------------------------------------------------
(* Properties *)

(* Once a reset has deleted its token nothing finds the token again: it    *)
(* served the requests that had found it by then, whatever a newer token,  *)
(* a late deletion, a failed call or the end of a TTL did in between, and  *)
(* these are no more than the server handles at a time.  That a token is   *)
(* for one use only (auth.service.ts:508) holds for one reset at a time.   *)
ResetsBounded == resets <= Cardinality(Handlers)
=============================================================================
