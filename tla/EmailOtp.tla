------------------------------ MODULE EmailOtp ------------------------------
(***************************************************************************)
(* One-time passwords for one purpose and e-mail address: the OTP Redis    *)
(* holds, the counter of wrong attempts beside it, and the parts of        *)
(* AuthService that issue and check OTPs.  Registration and password reset *)
(* use this code on keys of their own.                                     *)
(*                                                                         *)
(* Each call to Redis is a step.  Nothing ties the two keys together: an   *)
(* OTP is saved before its counter is reset, and an attempt is compared,   *)
(* counted and punished in three calls that other requests come between.   *)
(* What a key holds is the time it has left, 0 when it is gone.            *)
(***************************************************************************)
EXTENDS Naturals, FiniteSets

CONSTANTS
    OtpHandlers,  \* requests the server serves at the same time
    OtpTtl,       \* OTP_TTL_SECONDS
    Cooldown,     \* OTP_RESEND_COOLDOWN_SECONDS
    MaxAttempts   \* MAX_OTP_ATTEMPTS

ASSUME EmailOtpAssumption ==
    /\ OtpTtl \in Nat
    /\ Cooldown \in 1 .. OtpTtl - 1
    /\ MaxAttempts \in Nat \ {0}
    /\ IsFiniteSet(OtpHandlers)

VARIABLES
    otpLeft,  \* the time the OTP has left
    fails,    \* the counter of failed attempts, and the time it has left
    pc,       \* the call each handler is about to make
    invited,  \* history: wrong guesses of the OTP that were answered with
              \* "Invalid or expired OTP", since it was saved or guessed
    quiet,    \* history: time until the last OTP is a Cooldown old
    early     \* history: an OTP was issued before that

otpVars == <<otpLeft, fails, pc, invited, quiet, early>>

-----------------------------------------------------------------------------
OtpCall == {"idle", "cooldown", "saveOtp", "resetFails", "increment", "lockOut", "cleanUp"}

NoFails == [n |-> 0, left |-> 0]

OtpTypeOK ==
    /\ otpLeft \in 0 .. OtpTtl
    /\ fails \in [n : 0 .. MaxAttempts, left : 0 .. OtpTtl]
    /\ fails.n = 0 <=> fails.left = 0
    /\ pc \in [OtpHandlers -> OtpCall]
    /\ invited \in Nat
    /\ quiet \in 0 .. Cooldown
    /\ early \in BOOLEAN

OtpInit ==
    /\ otpLeft = 0
    /\ fails = NoFails
    /\ pc = [h \in OtpHandlers |-> "idle"]
    /\ invited = 0
    /\ quiet = 0
    /\ early = FALSE

-----------------------------------------------------------------------------
OtpGoto(h, call) == pc' = [pc EXCEPT ![h] = call]

OtpDone(h) == OtpGoto(h, "idle")

(* Broken forms of definitions below, one plausible bug each; none is used. *)

(* A counter that is set instead of incremented, and one whose EXPIRE is   *)
(* forgotten.                                                              *)
IncrementWithTtl_Set == [n |-> 1, left |-> OtpTtl]

IncrementWithTtl_NoExpire ==
    [n |-> IF fails.n < MaxAttempts THEN fails.n + 1 ELSE fails.n, left |-> fails.left]

-----------------------------------------------------------------------------
(* register, resend and forgot-password come here once they may be served. *)
RequestOtp(h) ==
    /\ pc[h] = "idle"
    /\ OtpGoto(h, "cooldown")
    /\ UNCHANGED <<otpLeft, fails, invited, quiet, early>>

(* isOtpInCooldownAsync: the OTP's own time to live tells its age. *)
InCooldown == otpLeft > OtpTtl - Cooldown

CheckCooldown(h) ==
    /\ pc[h] = "cooldown"
    /\ OtpGoto(h, IF InCooldown THEN "idle" ELSE "saveOtp")
    /\ UNCHANGED <<otpLeft, fails, invited, quiet, early>>

(* issueOtpAsync: the new OTP replaces the old one ... *)
SaveOtp(h) ==
    /\ pc[h] = "saveOtp"
    /\ otpLeft' = OtpTtl
    /\ invited' = 0
    /\ quiet' = Cooldown
    /\ early' = (early \/ quiet > 0)
    /\ OtpGoto(h, "resetFails")
    /\ UNCHANGED fails

(* ... and the count starts again, or the failure to do so is only logged; *)
(* then the OTP is mailed.                                                 *)
ResetFailedAttempts(h) ==
    /\ pc[h] = "resetFails"
    /\ fails' \in {fails, NoFails}
    /\ OtpDone(h)
    /\ UNCHANGED <<otpLeft, invited, quiet, early>>

(* checkOtpAsync: the stored hash is read and compared with. *)
CheckOtp(h, right) ==
    /\ pc[h] = "idle"
    /\ otpLeft > 0
    /\ OtpGoto(h, IF right THEN "cleanUp" ELSE "increment")
    /\ invited' = IF right THEN 0 ELSE invited
    /\ UNCHANGED <<otpLeft, fails, quiet, early>>

(* INCR and EXPIRE NX in one MULTI: the first hit sets the time to live.   *)
(* Above MaxAttempts the count is always the same to the code.             *)
IncrementWithTtl ==
    [n |-> IF fails.n < MaxAttempts THEN fails.n + 1 ELSE fails.n,
     left |-> IF fails.n = 0 THEN OtpTtl ELSE fails.left]

IncrementFailedAttempts(h) ==
    /\ pc[h] = "increment"
    /\ fails' = IncrementWithTtl
    /\ \/ /\ fails'.n >= MaxAttempts
          /\ OtpGoto(h, "lockOut")
          /\ UNCHANGED invited
       \/ /\ fails'.n < MaxAttempts
          /\ OtpDone(h)
          /\ invited' = IF otpLeft > 0 THEN invited + 1 ELSE invited
    /\ UNCHANGED <<otpLeft, quiet, early>>

(* Too many attempts: the OTP is deleted, or the failure only logged. *)
LockOut(h) ==
    /\ pc[h] = "lockOut"
    /\ otpLeft' \in {otpLeft, 0}
    /\ OtpDone(h)
    /\ UNCHANGED <<fails, invited, quiet, early>>

(* What a right OTP opens has been done: OTP and counter are deleted, two  *)
(* commands sent together of which each may fail.                          *)
CleanUpOtp(h) ==
    /\ pc[h] = "cleanUp"
    /\ otpLeft' \in {otpLeft, 0}
    /\ fails' \in {fails, NoFails}
    /\ OtpDone(h)
    /\ UNCHANGED <<invited, quiet, early>>

(* A call fails or the server dies; nothing is undone. *)
AbandonOtp(h) ==
    /\ pc[h] # "idle"
    /\ OtpDone(h)
    /\ UNCHANGED <<otpLeft, fails, invited, quiet, early>>

Older(left) == IF left = 0 THEN 0 ELSE left - 1

(* A unit of time passes; a key that is out of time is gone. *)
Tick ==
    /\ otpLeft' = Older(otpLeft)
    /\ fails' = IF fails.left <= 1 THEN NoFails ELSE [fails EXCEPT !.left = @ - 1]
    /\ quiet' = Older(quiet)
    /\ UNCHANGED <<pc, invited, early>>

-----------------------------------------------------------------------------
OtpNext ==
    \/ \E h \in OtpHandlers :
        \/ RequestOtp(h) \/ CheckCooldown(h) \/ SaveOtp(h) \/ ResetFailedAttempts(h)
        \/ \E right \in BOOLEAN : CheckOtp(h, right)
        \/ IncrementFailedAttempts(h) \/ LockOut(h) \/ CleanUpOtp(h)
        \/ AbandonOtp(h)
    \/ Tick

OtpSpec == OtpInit /\ [][OtpNext]_otpVars

-----------------------------------------------------------------------------
(* Properties *)

(* An OTP cannot be guessed at for as long as it lives, whatever crashes,  *)
(* failed deletions, resends and overlapping checks come between: after it *)
(* is saved its count starts over at most once for each handler that still *)
(* has to reset it, and once when an older OTP's counter expires; one that *)
(* it started itself lives longer than it does.                            *)
GuessesBounded ==
    otpLeft > 0 => invited <= (MaxAttempts - 1) * (Cardinality(OtpHandlers) + 2)

(* "An OTP that was just sent is not followed by a new one within the      *)
(* cooldown" (auth.service.ts).                                            *)
CooldownKept == ~early
=============================================================================
