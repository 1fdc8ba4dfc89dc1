----------------------------- MODULE MCCvParsing -----------------------------
(* CvParsing for TLC: the model values of its small instance. *)
EXTENDS CvParsing

CONSTANTS c1, c2, x1, x2, h1, h2, h3

MCCvs == {c1, c2}
MCHandlers == {h1, h2, h3}
MCContents == {x1, x2}
=============================================================================
