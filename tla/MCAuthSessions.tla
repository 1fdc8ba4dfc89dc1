--------------------------- MODULE MCAuthSessions ---------------------------
(* AuthSessions for TLC: the model values of its small instance. *)
EXTENDS AuthSessions

CONSTANTS h1, h2, t1, t2, t3

MCHandlers == {h1, h2}
MCTokens == {t1, t2, t3}
=============================================================================
