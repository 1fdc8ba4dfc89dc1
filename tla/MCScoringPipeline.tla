-------------------------- MODULE MCScoringPipeline --------------------------
(* ScoringPipeline for TLC: the model values of its small instances. *)
EXTENDS ScoringPipeline

CONSTANTS s1, x1, g1, g2, a1, a2

MCSessions == {s1}
MCSheets == {x1}
MCGrades == {g1, g2}
MCAttempts == {a1, a2}
=============================================================================
