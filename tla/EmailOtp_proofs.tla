-------------------------- MODULE EmailOtp_proofs --------------------------
(***************************************************************************)
(* Theorems about EmailOtp, for any number of requests, attempts and any   *)
(* times to live.                                                          *)
(*                                                                         *)
(* The bound on wrong guesses is paid for in advance.  Every way in which  *)
(* the count can start over while an OTP lives is worth the guesses it     *)
(* would allow: a handler that is about to delete the counter (Resetting), *)
(* what is left of the count itself (Left), and a counter that is older    *)
(* than the OTP and will expire before it does (Stale).  A wrong guess     *)
(* takes one from Left, a new count moves to it what one of the others was *)
(* worth, and so the sum never grows (Budget).                             *)
(***************************************************************************)
EXTENDS EmailOtp, TLAPS, FiniteSetTheorems

K == MaxAttempts - 1

Resetting == {h \in OtpHandlers : pc[h] \in {"resetFails", "cleanUp"}}

Left(f) == IF f.n <= K THEN K - f.n ELSE 0

Stale(f, o) == IF f.n > 0 /\ f.left < o THEN K ELSE 0

Budget ==
    otpLeft > 0 => invited + K * Cardinality(Resetting) + Left(fails) + Stale(fails, otpLeft)
                    <= K * (Cardinality(OtpHandlers) + 2)

IInv == OtpTypeOK /\ Budget

(* A product of numbers is one. *)
LEMMA Products ==
    ASSUME NEW p \in Nat
    PROVE  K \in Nat /\ K * p \in Nat
<1>1. K \in Nat
    BY EmailOtpAssumption DEF K
<1> QED
    BY <1>1

(* A product grows with its factor. *)
LEMMA Monotone ==
    ASSUME NEW p \in Nat, NEW q \in Nat, p <= q
    PROVE  K * p <= K * q
<1>1. K \in Nat
    BY EmailOtpAssumption DEF K
<1>2. PICK d \in Nat : q = p + d
    <2>1. q - p \in Nat /\ q = p + (q - p)
        OBVIOUS
    <2> QED
        BY <2>1
<1>3. K * d \in Nat
    BY <1>1, <1>2, Products
<1>4. K * q = K * p + K * d
    BY <1>1, <1>2
<1>5. K * p \in Nat
    BY Products
<1> QED
    BY <1>3, <1>4, <1>5

(* The handlers that are about to delete the counter are counted. *)
LEMMA Counted ==
    ASSUME NEW S, S \subseteq OtpHandlers
    PROVE  /\ IsFiniteSet(S)
           /\ Cardinality(S) \in Nat
           /\ Cardinality(S) <= Cardinality(OtpHandlers)
           /\ Cardinality(OtpHandlers) \in Nat
BY EmailOtpAssumption, FS_Subset, FS_CardinalityType

(* What Left and Stale are worth at most. *)
LEMMA Worth ==
    ASSUME NEW f \in [n : 0 .. MaxAttempts, left : 0 .. OtpTtl], NEW o
    PROVE  /\ Left(f) \in 0 .. K
           /\ Stale(f, o) \in 0 .. K
BY EmailOtpAssumption DEF Left, Stale, K

(* An OTP whose guesses start from 0 has room for all of that. *)
LEMMA Room ==
    ASSUME NEW S, S \subseteq OtpHandlers,
           NEW f \in [n : 0 .. MaxAttempts, left : 0 .. OtpTtl], NEW o
    PROVE  K * Cardinality(S) + Left(f) + Stale(f, o) <= K * (Cardinality(OtpHandlers) + 2)
<1>1. Cardinality(S) \in Nat /\ Cardinality(S) <= Cardinality(OtpHandlers)
      /\ Cardinality(OtpHandlers) \in Nat
    BY Counted
<1>2. K * Cardinality(S) <= K * Cardinality(OtpHandlers)
    BY <1>1, Monotone
<1>3. K \in Nat /\ K * Cardinality(S) \in Nat /\ K * Cardinality(OtpHandlers) \in Nat
    BY <1>1, Products
<1>4. K * (Cardinality(OtpHandlers) + 2) = K * Cardinality(OtpHandlers) + 2 * K
    BY <1>1, <1>3
<1> QED
    BY <1>2, <1>3, <1>4, Worth

(* A handler that answers is not about to delete the counter, and one that *)
(* was is counted no more.                                                 *)
LEMMA AnswerResets ==
    ASSUME OtpTypeOK, NEW h \in OtpHandlers, OtpDone(h)
    PROVE  /\ K * Cardinality(Resetting)' <= K * Cardinality(Resetting)
           /\ h \in Resetting =>
                K * Cardinality(Resetting)' = K * Cardinality(Resetting) - K
<1>1. Resetting' = Resetting \ {h}
    BY DEF OtpTypeOK, Resetting, OtpDone, OtpGoto
<1>2. IsFiniteSet(Resetting) /\ Cardinality(Resetting) \in Nat
    BY Counted DEF Resetting
<1>3. CASE h \in Resetting
    <2>1. Cardinality(Resetting)' = Cardinality(Resetting) - 1
        BY <1>1, <1>2, <1>3, FS_RemoveElement
    <2>2. K \in Nat
        BY <1>2, Products
    <2> QED
        BY <1>2, <2>1, <2>2
<1>4. CASE h \notin Resetting
    <2>1. Resetting' = Resetting
        BY <1>1, <1>4
    <2>2. K * Cardinality(Resetting) \in Nat
        BY <1>2, Products
    <2> QED
        BY <1>4, <2>1, <2>2
<1> QED
    BY <1>3, <1>4

-----------------------------------------------------------------------------
(* The invariant holds at the start. *)
LEMMA InitInv == OtpInit => IInv
<1> SUFFICES ASSUME OtpInit PROVE IInv
    OBVIOUS
<1>1. OtpTypeOK
    <2>1. 0 \in 0 .. OtpTtl /\ 0 \in 0 .. MaxAttempts /\ 0 \in 0 .. Cooldown
        BY EmailOtpAssumption
    <2> QED
        BY <2>1 DEF OtpInit, OtpTypeOK, OtpCall, NoFails
<1>2. Budget
    BY DEF OtpInit, Budget
<1> QED
    BY <1>1, <1>2 DEF IInv

(* Every step preserves the type invariant. *)
LEMMA TypeStep == OtpTypeOK /\ [OtpNext]_otpVars => OtpTypeOK'
<1> SUFFICES ASSUME OtpTypeOK, [OtpNext]_otpVars PROVE OtpTypeOK'
    OBVIOUS
<1> USE EmailOtpAssumption DEF OtpTypeOK, OtpCall, OtpGoto, OtpDone, NoFails
<1>1. ASSUME NEW h \in OtpHandlers, RequestOtp(h) PROVE OtpTypeOK'
    BY <1>1 DEF RequestOtp
<1>2. ASSUME NEW h \in OtpHandlers, CheckCooldown(h) PROVE OtpTypeOK'
    BY <1>2 DEF CheckCooldown
<1>3. ASSUME NEW h \in OtpHandlers, SaveOtp(h) PROVE OtpTypeOK'
    BY <1>3 DEF SaveOtp
<1>4. ASSUME NEW h \in OtpHandlers, ResetFailedAttempts(h) PROVE OtpTypeOK'
    BY <1>4 DEF ResetFailedAttempts
<1>5. ASSUME NEW h \in OtpHandlers, NEW right \in BOOLEAN, CheckOtp(h, right) PROVE OtpTypeOK'
    BY <1>5 DEF CheckOtp
<1>6. ASSUME NEW h \in OtpHandlers, IncrementFailedAttempts(h) PROVE OtpTypeOK'
    <2>1. /\ IncrementWithTtl \in [n : 0 .. MaxAttempts, left : 0 .. OtpTtl]
          /\ IncrementWithTtl.n # 0
          /\ IncrementWithTtl.left # 0
        BY DEF IncrementWithTtl
    <2> QED
        BY <1>6, <2>1 DEF IncrementFailedAttempts
<1>7. ASSUME NEW h \in OtpHandlers, LockOut(h) PROVE OtpTypeOK'
    BY <1>7 DEF LockOut
<1>8. ASSUME NEW h \in OtpHandlers, CleanUpOtp(h) PROVE OtpTypeOK'
    BY <1>8 DEF CleanUpOtp
<1>9. ASSUME NEW h \in OtpHandlers, AbandonOtp(h) PROVE OtpTypeOK'
    BY <1>9 DEF AbandonOtp
<1>10. CASE Tick
    BY <1>10 DEF Tick, Older
<1>11. CASE UNCHANGED otpVars
    BY <1>11 DEF otpVars
<1> QED
    BY <1>1, <1>2, <1>3, <1>4, <1>5, <1>6, <1>7, <1>8, <1>9, <1>10, <1>11 DEF OtpNext

(* No step spends more than the budget has. *)
LEMMA BudgetStep == IInv /\ [OtpNext]_otpVars => Budget'
<1> SUFFICES ASSUME IInv, [OtpNext]_otpVars PROVE Budget'
    OBVIOUS
<1> USE DEF IInv
<1>t. OtpTypeOK'
    BY TypeStep
<1>w. /\ Left(fails) \in 0 .. K /\ Stale(fails, otpLeft) \in 0 .. K
      /\ (Left(fails))' \in 0 .. K /\ (Stale(fails, otpLeft))' \in 0 .. K
    BY <1>t, Worth DEF OtpTypeOK
<1>c. /\ Cardinality(Resetting) \in Nat
      /\ Cardinality(Resetting') \in Nat
      /\ Cardinality(OtpHandlers) + 2 \in Nat
    <2>1. Resetting \subseteq OtpHandlers /\ Resetting' \subseteq OtpHandlers
        BY DEF Resetting
    <2> QED
        BY <2>1, Counted
<1>k. /\ K \in Nat
      /\ K * Cardinality(Resetting) \in Nat
      /\ K * Cardinality(Resetting') \in Nat
      /\ K * (Cardinality(OtpHandlers) + 2) \in Nat
    BY <1>c, Products
<1>n. invited \in Nat /\ invited' \in Nat
    BY <1>t DEF OtpTypeOK
<1>z. invited' = 0 => Budget'
    <2>1. /\ Resetting' \subseteq OtpHandlers
          /\ fails' \in [n : 0 .. MaxAttempts, left : 0 .. OtpTtl]
        BY <1>t DEF Resetting, OtpTypeOK
    <2>2. K * Cardinality(Resetting') + Left(fails') + Stale(fails', otpLeft')
            <= K * (Cardinality(OtpHandlers) + 2)
        BY <2>1, Room
    <2> QED
        BY <1>w, <1>k, <1>n, <2>2 DEF Budget
(* A step that leaves the OTP and its guesses alone, and no handler more   *)
(* about to delete the counter.                                            *)
<1>q. ASSUME UNCHANGED <<otpLeft, fails, invited>>, Resetting' = Resetting
      PROVE  Budget'
    BY <1>q DEF Budget, Left, Stale
<1>1. ASSUME NEW h \in OtpHandlers, RequestOtp(h) PROVE Budget'
    <2>1. Resetting' = Resetting
        BY <1>1 DEF RequestOtp, OtpGoto, Resetting, OtpTypeOK
    <2> QED
        BY <1>1, <1>q, <2>1 DEF RequestOtp
<1>2. ASSUME NEW h \in OtpHandlers, CheckCooldown(h) PROVE Budget'
    <2>1. Resetting' = Resetting
        BY <1>2 DEF CheckCooldown, OtpGoto, Resetting, OtpTypeOK
    <2> QED
        BY <1>2, <1>q, <2>1 DEF CheckCooldown
<1>3. ASSUME NEW h \in OtpHandlers, SaveOtp(h) PROVE Budget'
    BY <1>3, <1>z DEF SaveOtp
<1>4. ASSUME NEW h \in OtpHandlers, ResetFailedAttempts(h) PROVE Budget'
    <2>1. h \in Resetting /\ OtpDone(h)
        BY <1>4 DEF ResetFailedAttempts, Resetting
    <2>2. K * Cardinality(Resetting') = K * Cardinality(Resetting) - K
        BY <2>1, AnswerResets
    <2>3. CASE fails' = NoFails
        <3>1. (Stale(fails, otpLeft))' = 0
            BY <2>3 DEF Stale, NoFails
        <3>2. otpLeft' = otpLeft /\ invited' = invited
            BY <1>4 DEF ResetFailedAttempts
        <3> QED
            BY <1>w, <1>k, <1>n, <2>2, <3>1, <3>2 DEF Budget
    <2>4. CASE fails' = fails
        <3>1. otpLeft' = otpLeft /\ invited' = invited
            BY <1>4 DEF ResetFailedAttempts
        <3>2. (Left(fails))' = Left(fails) /\ (Stale(fails, otpLeft))' = Stale(fails, otpLeft)
            BY <2>4, <3>1 DEF Left, Stale
        <3> QED
            BY <1>w, <1>k, <1>n, <2>2, <3>1, <3>2 DEF Budget
    <2> QED
        BY <1>4, <2>3, <2>4 DEF ResetFailedAttempts
<1>5. ASSUME NEW h \in OtpHandlers, NEW right \in BOOLEAN, CheckOtp(h, right) PROVE Budget'
    <2>1. CASE right
        BY <1>5, <1>z, <2>1 DEF CheckOtp
    <2>2. CASE ~right
        <3>1. Resetting' = Resetting
            BY <1>5, <2>2 DEF CheckOtp, OtpGoto, Resetting, OtpTypeOK
        <3> QED
            BY <1>5, <1>q, <2>2, <3>1 DEF CheckOtp
    <2> QED
        BY <2>1, <2>2
<1>6. ASSUME NEW h \in OtpHandlers, IncrementFailedAttempts(h) PROVE Budget'
    <2>1. Resetting' = Resetting
        BY <1>6 DEF IncrementFailedAttempts, OtpDone, OtpGoto, Resetting, OtpTypeOK
    <2>2. fails' = IncrementWithTtl /\ otpLeft' = otpLeft
        BY <1>6 DEF IncrementFailedAttempts
    <2>3. (Stale(fails, otpLeft))' <= Stale(fails, otpLeft)
        BY <2>2, EmailOtpAssumption DEF Stale, IncrementWithTtl, OtpTypeOK, K
    <2>4. CASE fails'.n >= MaxAttempts
        <3>1. (Left(fails))' <= Left(fails)
            BY <2>2, <2>4, EmailOtpAssumption DEF Left, IncrementWithTtl, OtpTypeOK, K
        <3>2. invited' = invited
            <4>1. fails'.n \in Nat /\ MaxAttempts \in Nat
                BY <1>t, EmailOtpAssumption DEF OtpTypeOK
            <4>2. ~(fails'.n < MaxAttempts)
                BY <2>4, <4>1
            <4> QED
                BY <1>6, <4>2 DEF IncrementFailedAttempts
        <3> QED
            BY <1>w, <1>k, <1>n, <2>1, <2>2, <2>3, <3>1, <3>2 DEF Budget
    <2>5. CASE ~(fails'.n >= MaxAttempts)
        <3>1. (Left(fails))' = Left(fails) - 1
            BY <2>2, <2>5, EmailOtpAssumption DEF Left, IncrementWithTtl, OtpTypeOK, K
        <3>2. invited' <= invited + 1
            BY <1>6, <2>5, <1>n DEF IncrementFailedAttempts
        <3> QED
            BY <1>w, <1>k, <1>n, <2>1, <2>2, <2>3, <3>1, <3>2 DEF Budget
    <2> QED
        BY <2>4, <2>5
<1>7. ASSUME NEW h \in OtpHandlers, LockOut(h) PROVE Budget'
    <2>1. OtpDone(h) /\ UNCHANGED <<fails, invited>> /\ otpLeft' \in {otpLeft, 0}
        BY <1>7 DEF LockOut
    <2>2. K * Cardinality(Resetting') <= K * Cardinality(Resetting)
        BY <2>1, AnswerResets
    <2>3. otpLeft' = otpLeft => (Left(fails))' = Left(fails) /\ (Stale(fails, otpLeft))' = Stale(fails, otpLeft)
        BY <2>1 DEF Left, Stale
    <2> QED
        BY <1>w, <1>k, <1>n, <2>1, <2>2, <2>3 DEF Budget
<1>8. ASSUME NEW h \in OtpHandlers, CleanUpOtp(h) PROVE Budget'
    <2>1. h \in Resetting /\ OtpDone(h)
        BY <1>8 DEF CleanUpOtp, Resetting
    <2>2. K * Cardinality(Resetting') = K * Cardinality(Resetting) - K
        BY <2>1, AnswerResets
    <2>3. invited' = invited /\ otpLeft' \in {otpLeft, 0} /\ fails' \in {fails, NoFails}
        BY <1>8 DEF CleanUpOtp
    <2>4. CASE otpLeft' = 0
        BY <2>4 DEF Budget
    <2>5. CASE otpLeft' = otpLeft /\ fails' = NoFails
        <3>1. (Stale(fails, otpLeft))' = 0
            BY <2>5 DEF Stale, NoFails
        <3> QED
            BY <1>w, <1>k, <1>n, <2>2, <2>3, <2>5, <3>1 DEF Budget
    <2>6. CASE otpLeft' = otpLeft /\ fails' = fails
        <3>1. (Left(fails))' = Left(fails) /\ (Stale(fails, otpLeft))' = Stale(fails, otpLeft)
            BY <2>6 DEF Left, Stale
        <3> QED
            BY <1>w, <1>k, <1>n, <2>2, <2>3, <2>6, <3>1 DEF Budget
    <2> QED
        BY <2>3, <2>4, <2>5, <2>6
<1>9. ASSUME NEW h \in OtpHandlers, AbandonOtp(h) PROVE Budget'
    <2>1. OtpDone(h) /\ UNCHANGED <<otpLeft, fails, invited>>
        BY <1>9 DEF AbandonOtp
    <2>2. K * Cardinality(Resetting') <= K * Cardinality(Resetting)
        BY <2>1, AnswerResets
    <2>3. (Left(fails))' = Left(fails) /\ (Stale(fails, otpLeft))' = Stale(fails, otpLeft)
        BY <2>1 DEF Left, Stale
    <2> QED
        BY <1>w, <1>k, <1>n, <2>1, <2>2, <2>3 DEF Budget
(* The counter and the OTP grow older together, and a counter that expires *)
(* before the OTP was Stale.                                               *)
<1>10. CASE Tick
    <2>1. Resetting' = Resetting /\ invited' = invited
        BY <1>10 DEF Tick, Resetting
    <2>2. CASE otpLeft' > 0
        <3>1. (Left(fails))' + (Stale(fails, otpLeft))' <= Left(fails) + Stale(fails, otpLeft)
            <4>1. otpLeft \in Nat /\ otpLeft > 1 /\ otpLeft' = otpLeft - 1
                BY <1>10, <2>2 DEF Tick, Older, OtpTypeOK
            <4>2. fails.n \in Nat /\ fails.left \in Nat /\ (fails.n = 0 <=> fails.left = 0)
                BY DEF OtpTypeOK
            <4>3. CASE fails.left <= 1
                <5>1. fails' = NoFails
                    BY <1>10, <4>3 DEF Tick
                <5>2. (Left(fails))' = K /\ (Stale(fails, otpLeft))' = 0
                    BY <1>k, <5>1 DEF Left, Stale, NoFails
                <5>3. fails.n = 0 => Left(fails) = K
                    BY <1>k DEF Left
                <5>4. fails.n # 0 => Stale(fails, otpLeft) = K
                    BY <4>1, <4>2, <4>3 DEF Stale
                <5> QED
                    BY <1>w, <1>k, <5>2, <5>3, <5>4
            <4>4. CASE fails.left > 1
                <5>1. fails' = [fails EXCEPT !.left = @ - 1]
                    BY <1>10, <4>2, <4>4 DEF Tick
                <5>2. fails'.n = fails.n /\ fails'.left = fails.left - 1
                    BY <5>1 DEF OtpTypeOK
                <5>3. (Left(fails))' = Left(fails) /\ (Stale(fails, otpLeft))' = Stale(fails, otpLeft)
                    BY <4>1, <4>2, <5>2 DEF Left, Stale
                <5> QED
                    BY <1>w, <1>k, <5>3
            <4> QED
                BY <4>2, <4>3, <4>4
        <3>2. otpLeft > 0
            BY <1>10, <2>2 DEF Tick, Older, OtpTypeOK
        <3> QED
            BY <1>w, <1>k, <1>n, <2>1, <2>2, <3>1, <3>2 DEF Budget
    <2>3. CASE ~(otpLeft' > 0)
        BY <2>3 DEF Budget
    <2> QED
        BY <2>2, <2>3
<1>11. CASE UNCHANGED otpVars
    <2>1. Resetting' = Resetting
        BY <1>11 DEF otpVars, Resetting
    <2> QED
        BY <1>11, <1>q, <2>1 DEF otpVars
<1> QED
    BY <1>1, <1>2, <1>3, <1>4, <1>5, <1>6, <1>7, <1>8, <1>9, <1>10, <1>11 DEF OtpNext

(* The budget bounds the guesses. *)
LEMMA BudgetBounds == IInv => GuessesBounded
<1> SUFFICES ASSUME IInv, otpLeft > 0 PROVE invited <= (MaxAttempts - 1) * (Cardinality(OtpHandlers) + 2)
    BY DEF GuessesBounded
<1> USE DEF IInv
<1>1. Cardinality(Resetting) \in Nat /\ Cardinality(OtpHandlers) + 2 \in Nat
    BY Counted DEF Resetting
<1>2. K * Cardinality(Resetting) \in Nat /\ K * (Cardinality(OtpHandlers) + 2) \in Nat
    BY <1>1, Products
<1>3. Left(fails) \in Nat /\ Stale(fails, otpLeft) \in Nat /\ invited \in Nat
    BY <1>1, Worth, Products DEF OtpTypeOK
<1>4. invited <= K * (Cardinality(OtpHandlers) + 2)
    BY <1>2, <1>3 DEF Budget
<1> QED
    BY <1>4 DEF K

-----------------------------------------------------------------------------
(* In every reachable state the OTP, its counter and the requests on them  *)
(* are well typed: a counter that counts has a time to live, so none can   *)
(* stay behind and lock every later OTP out.                               *)
THEOREM TypeCorrect == OtpSpec => []OtpTypeOK
<1>1. OtpInit => OtpTypeOK
    BY InitInv DEF IInv
<1> QED
    BY <1>1, TypeStep, PTL DEF OtpSpec

(* The number of wrong guesses that one OTP invites is bounded, for any    *)
(* number of requests that check, issue and clean up at the same time.     *)
THEOREM GuessesLimited == OtpSpec => []GuessesBounded
<1>1. IInv /\ [OtpNext]_otpVars => IInv'
    BY TypeStep, BudgetStep DEF IInv
<1> QED
    BY InitInv, <1>1, BudgetBounds, PTL DEF OtpSpec
=============================================================================
