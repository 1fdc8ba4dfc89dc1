---------------------------- MODULE AuthSessions ----------------------------
(***************************************************************************)
(* The sessions of one account: the rows of refresh_tokens and the         *)
(* operations of AuthService that write them.  Every WHERE of their        *)
(* repository names one user or one token, so accounts do not meet.  The   *)
(* password decides who gets in but about no row, and is left out here.    *)
(*                                                                         *)
(* A refresh token is used once: a refresh revokes it and inserts its      *)
(* successor in one transaction of two statements, RotateUpdate, which     *)
(* locks the row, and RotateCommit.  An UPDATE that meets a locked row     *)
(* waits and then looks at the row again (READ COMMITTED), but it sees no  *)
(* row that was not committed when it began: the two halves of             *)
(* revokeAllRefreshTokensForUser are BeginRevokeAll and RevokeAll.         *)
(* A request that is refused changes nothing and is left out.              *)
(***************************************************************************)
EXTENDS Naturals

CONSTANTS
    Handlers,   \* requests the server serves at the same time
    Tokens,     \* the tokens the account may ever be given: a bound
    Ttl,        \* JWT_REFRESH_EXPIRES_IN
    Grace,      \* REFRESH_TOKEN_REUSE_GRACE_SECONDS
    MaxTime,    \* a bound on the time that passes
    None        \* no token, not revoked

ASSUME AuthSessionsAssumption ==
    /\ Ttl \in Nat \ {0}
    /\ Grace \in Nat
    /\ MaxTime \in Nat
    /\ None \notin Tokens \cup Nat

VARIABLES
    session,     \* by token the one its login issued, None without a row
    expiresAt,   \* refresh_tokens.expires_at
    revokedAt,   \* refresh_tokens.revoked_at
    now,         \* the server's clock
    req,         \* where each handler stands
    ended        \* history: tokens that a revokeAll which succeeded found live

rows == <<session, expiresAt, revokedAt>>

vars == <<session, expiresAt, revokedAt, now, req, ended>>

-----------------------------------------------------------------------------
(* Where a handler waits.  "issue": a login that found its password valid; *)
(* "rotate": a refresh before its transaction; "insert": inside it, with   *)
(* the row of tok locked; "revoke" and "revoking": before revokeAll and    *)
(* inside it, with the rows its snapshot holds.                            *)
Wait == {"idle", "issue", "rotate", "insert", "logout", "revoke", "revoking"}

Request == [pc : Wait, tok : Tokens \cup {None}, new : Tokens \cup {None},
            found : SUBSET Tokens, at : Nat]

Idle == [pc |-> "idle", tok |-> None, new |-> None, found |-> {}, at |-> 0]

TypeOK ==
    /\ session \in [Tokens -> Tokens \cup {None}]
    /\ expiresAt \in [Tokens -> Nat]
    /\ revokedAt \in [Tokens -> Nat \cup {None}]
    /\ now \in Nat
    /\ req \in [Handlers -> Request]
    /\ ended \subseteq Tokens

Init ==
    /\ session = [t \in Tokens |-> None]
    /\ expiresAt = [t \in Tokens |-> 0]
    /\ revokedAt = [t \in Tokens |-> None]
    /\ now = 0
    /\ req = [h \in Handlers |-> Idle]
    /\ ended = {}

-----------------------------------------------------------------------------
(* A row that is there and not revoked. *)
Live(t) == session[t] # None /\ revokedAt[t] = None

(* generateToken: 32 random bytes that nobody has; which is all the same. *)
Fresh(t) == session[t] = None /\ \A h \in Handlers : req[h].new # t

NewToken == CHOOSE t \in Tokens : Fresh(t)

(* The row a transaction has updated and not committed yet. *)
Locked(t) == \E h \in Handlers : req[h].pc = "insert" /\ req[h].tok = t

(* Broken forms of definitions below, one plausible bug each; none is used. *)

(* A rotation that revokes by the id alone, without revokedAt: null. *)
RotateUpdate_NoGuard(h) ==
    /\ req[h].pc = "rotate"
    /\ ~Locked(req[h].tok)
    /\ req' = [req EXCEPT ![h].pc = "insert", ![h].at = now]
    /\ UNCHANGED <<rows, now, ended>>

(* A rotation that is tried again when another request revoked the token.  *)
RotateUpdate_Retry(h) ==
    /\ req[h].pc = "rotate"
    /\ ~Locked(req[h].tok)
    /\ Live(req[h].tok)
    /\ req' = [req EXCEPT ![h].pc = "insert", ![h].at = now]
    /\ UNCHANGED <<rows, now, ended>>

(* A rotation that gives the new token a full lifetime of its own. *)
RotateCommit_FreshExpiry(h) ==
    LET old == req[h].tok new == req[h].new IN
    /\ req[h].pc = "insert"
    /\ session' = [session EXCEPT ![new] = session[old]]
    /\ expiresAt' = [expiresAt EXCEPT ![new] = now + Ttl]
    /\ revokedAt' = [revokedAt EXCEPT ![old] = req[h].at]
    /\ req' = [req EXCEPT ![h] = Idle]
    /\ UNCHANGED <<now, ended>>

(* A revokeAll that steps over locked rows, one that revokes what it found *)
(* a second time, and a token that is saved without an expiry.             *)
RevokeAll_SkipLocked(h) ==
    /\ req[h].pc = "revoking"
    /\ revokedAt' = [t \in Tokens |-> IF t \in req[h].found /\ Live(t) /\ ~Locked(t)
                                      THEN req[h].at ELSE revokedAt[t]]
    /\ ended' = ended \cup req[h].found
    /\ req' = [req EXCEPT ![h] = Idle]
    /\ UNCHANGED <<session, expiresAt, now>>

RevokeAll_Overwrite(h) ==
    /\ req[h].pc = "revoking"
    /\ \A t \in req[h].found : ~Locked(t)
    /\ revokedAt' = [t \in Tokens |-> IF t \in req[h].found THEN req[h].at
                                                            ELSE revokedAt[t]]
    /\ ended' = ended \cup req[h].found
    /\ req' = [req EXCEPT ![h] = Idle]
    /\ UNCHANGED <<session, expiresAt, now>>

IssueTokenPair_NoExpiry(h) ==
    LET new == req[h].new IN
    /\ req[h].pc = "issue"
    /\ session' = [session EXCEPT ![new] = new]
    /\ expiresAt' = [expiresAt EXCEPT ![new] = None]
    /\ req' = [req EXCEPT ![h] = Idle]
    /\ UNCHANGED <<revokedAt, now, ended>>

-----------------------------------------------------------------------------
(* POST /auth/login with the password whose hash was read. *)
Login(h) ==
    /\ req[h].pc = "idle"
    /\ \E t \in Tokens : Fresh(t)
    /\ req' = [req EXCEPT ![h] = [Idle EXCEPT !.pc = "issue", !.new = NewToken]]
    /\ UNCHANGED <<rows, now, ended>>

(* The session's first token, though the password may have changed by now. *)
IssueTokenPair(h) ==
    LET new == req[h].new IN
    /\ req[h].pc = "issue"
    /\ session' = [session EXCEPT ![new] = new]
    /\ expiresAt' = [expiresAt EXCEPT ![new] = now + Ttl]
    /\ req' = [req EXCEPT ![h] = Idle]
    /\ UNCHANGED <<revokedAt, now, ended>>

(* POST /auth/refresh with a token that was revoked longer than Grace ago: *)
(* every session of the account is revoked.                                *)
DetectReuse(h, t) ==
    /\ req[h].pc = "idle"
    /\ session[t] # None
    /\ revokedAt[t] # None
    /\ now > revokedAt[t] + Grace
    /\ req' = [req EXCEPT ![h] = [Idle EXCEPT !.pc = "revoke"]]
    /\ UNCHANGED <<rows, now, ended>>

(* ... with a token that is still good: what it needs is read and signed. *)
Refresh(h, t) ==
    /\ req[h].pc = "idle"
    /\ Live(t)
    /\ expiresAt[t] > now
    /\ \E u \in Tokens : Fresh(u)
    /\ req' = [req EXCEPT ![h] = [Idle EXCEPT !.pc = "rotate", !.tok = t, !.new = NewToken]]
    /\ UNCHANGED <<rows, now, ended>>

(* The guarded UPDATE; a token that another request revoked is a 401. *)
RotateUpdate(h) ==
    /\ req[h].pc = "rotate"
    /\ ~Locked(req[h].tok)
    /\ \/ /\ Live(req[h].tok)
          /\ req' = [req EXCEPT ![h].pc = "insert", ![h].at = now]
       \/ /\ ~Live(req[h].tok)
          /\ req' = [req EXCEPT ![h] = Idle]
    /\ UNCHANGED <<rows, now, ended>>

(* The INSERT of the successor, which keeps expires_at, and the commit. *)
RotateCommit(h) ==
    LET old == req[h].tok new == req[h].new IN
    /\ req[h].pc = "insert"
    /\ session' = [session EXCEPT ![new] = session[old]]
    /\ expiresAt' = [expiresAt EXCEPT ![new] = expiresAt[old]]
    /\ revokedAt' = [revokedAt EXCEPT ![old] = req[h].at]
    /\ req' = [req EXCEPT ![h] = Idle]
    /\ UNCHANGED <<now, ended>>

(* POST /auth/logout *)
Logout(h, t) ==
    /\ req[h].pc = "idle"
    /\ Live(t)
    /\ req' = [req EXCEPT ![h] = [Idle EXCEPT !.pc = "logout", !.tok = t, !.at = now]]
    /\ UNCHANGED <<rows, now, ended>>

RevokeByHash(h) ==
    LET t == req[h].tok IN
    /\ req[h].pc = "logout"
    /\ ~Locked(t)
    /\ revokedAt' = [revokedAt EXCEPT ![t] = IF @ = None THEN req[h].at ELSE @]
    /\ req' = [req EXCEPT ![h] = Idle]
    /\ UNCHANGED <<session, expiresAt, now, ended>>

(* change-password and reset-password, once the new password is written. *)
UpdatePassword(h) ==
    /\ req[h].pc = "idle"
    /\ req' = [req EXCEPT ![h] = [Idle EXCEPT !.pc = "revoke"]]
    /\ UNCHANGED <<rows, now, ended>>

(* revokeAllRefreshTokensForUser begins: its snapshot of the live rows ... *)
BeginRevokeAll(h) ==
    /\ req[h].pc = "revoke"
    /\ req' = [req EXCEPT ![h].pc = "revoking", ![h].at = now,
                          ![h].found = {t \in Tokens : Live(t)}]
    /\ UNCHANGED <<rows, now, ended>>

(* ... and ends, when none of them is locked: those that are still live    *)
(* are revoked.                                                            *)
RevokeAll(h) ==
    /\ req[h].pc = "revoking"
    /\ \A t \in req[h].found : ~Locked(t)
    /\ revokedAt' = [t \in Tokens |-> IF t \in req[h].found /\ Live(t) THEN req[h].at
                                                                    ELSE revokedAt[t]]
    /\ ended' = ended \cup req[h].found
    /\ req' = [req EXCEPT ![h] = Idle]
    /\ UNCHANGED <<session, expiresAt, now>>

(* A query fails or the server dies: the answer is a 500, an open          *)
(* transaction is rolled back, and what was committed stays.               *)
Abort(h) ==
    /\ req[h].pc # "idle"
    /\ req' = [req EXCEPT ![h] = Idle]
    /\ UNCHANGED <<rows, now, ended>>

Tick ==
    /\ now < MaxTime
    /\ now' = now + 1
    /\ UNCHANGED <<rows, req, ended>>

-----------------------------------------------------------------------------
Continue(h) ==
    \/ IssueTokenPair(h)
    \/ RotateUpdate(h)
    \/ RotateCommit(h)
    \/ RevokeByHash(h)
    \/ BeginRevokeAll(h)
    \/ RevokeAll(h)

Next ==
    \/ \E h \in Handlers, t \in Tokens :
        DetectReuse(h, t) \/ Refresh(h, t) \/ Logout(h, t)
    \/ \E h \in Handlers :
        Login(h) \/ UpdatePassword(h) \/ Continue(h) \/ Abort(h)
    \/ Tick

(* Queries return, and the queue for a row lock is first come, first       *)
(* served: whoever waits for a row that is free again and again gets it.   *)
Fairness == \A h \in Handlers : SF_vars(Continue(h))

Spec == Init /\ [][Next]_vars

FairSpec == Spec /\ Fairness

-----------------------------------------------------------------------------
(* Properties *)

(* A session never has two tokens that can be used, however many refreshes *)
(* of one token, logouts and password changes overlap.                     *)
OneLiveToken ==
    \A t, u \in Tokens : Live(t) /\ Live(u) /\ session[t] = session[u] => t = u

(* The time a token was revoked is never lost or moved, which the grace    *)
(* period is counted from: no rotation, logout or revokeAll that waited    *)
(* for the row writes it again.                                            *)
RevokedForGood ==
    [][\A t \in Tokens : revokedAt[t] # None => revokedAt'[t] = revokedAt[t]]_vars

(* When a password change, a reset or a detected reuse has revoked the     *)
(* account's tokens, none that was live when it began is ever live again,  *)
(* not even one whose rotation was under way and is rolled back.           *)
KnownTokensEnd == \A t \in ended : ~Live(t)

(* The session that a login opened, named by the login's token.  It is     *)
(* open while one of its tokens can be used, and expires with that one.    *)
Usable(s) == {t \in Tokens : Live(t) /\ session[t] = s}

phase ==
    [s \in Tokens |-> IF session[s] # s THEN "absent"
                      ELSE IF Usable(s) # {} THEN "open" ELSE "ended"]

deadline ==
    [s \in Tokens |-> IF session[s] # s THEN None
                      ELSE IF Usable(s) # {} THEN expiresAt[CHOOSE t \in Usable(s) : TRUE]
                      ELSE expiresAt[s]]

Promised == INSTANCE LoginSessions WITH Logins <- Tokens, clock <- now

(* However rotations, logouts and revocations overlap or are rolled back,  *)
(* a client sees one session from login to its end, with one deadline: no  *)
(* rotation ends or splits it, and none resumes one that was ended while   *)
(* the rotation was under way.                                             *)
ImplementsLoginSessions == Promised!Spec

(* Whatever locks a request waits for, it is answered. *)
RequestsAnswered == \A h \in Handlers : req[h].pc # "idle" ~> req[h].pc = "idle"

(* "Kick out every old session" (resetPasswordAsync, changePasswordAsync): *)
(* no session that was live when an acknowledged revokeAll began goes on.  *)
OldSessionsEnd ==
    \A t \in ended, u \in Tokens : session[u] = session[t] => ~Live(u)
=============================================================================
