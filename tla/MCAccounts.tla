----------------------------- MODULE MCAccounts -----------------------------
(* Accounts and EmailOtp for TLC, each checked with the other at rest, and *)
(* the model values of their small instances.                              *)
EXTENDS Accounts, EmailOtp, TLC

CONSTANTS h1, h2, h3, u1, u2, p1, p2

VARIABLE part

MCHandlers == {h1, h2}
MCUsers == {u1, u2}
MCPasswords == {p1, p2}
MCOtpHandlers == {h1, h2, h3}
MCSymmetry == Permutations(MCHandlers) \cup Permutations(MCUsers)

-----------------------------------------------------------------------------
MCInit ==
    /\ part \in {"accounts", "otp"}
    /\ Init
    /\ OtpInit

MCNext ==
    /\ UNCHANGED part
    /\ \/ part = "accounts" /\ Next /\ UNCHANGED otpVars
       \/ part = "otp" /\ OtpNext /\ UNCHANGED vars

MCSpec == MCInit /\ [][MCNext]_<<vars, otpVars, part>>
=============================================================================
