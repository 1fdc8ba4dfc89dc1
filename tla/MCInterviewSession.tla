------------------------- MODULE MCInterviewSession -------------------------
(* InterviewSession for TLC: the model values of its small instance. *)
EXTENDS InterviewSession

CONSTANTS s1, q1, q2, v1, h1, h2

MCSessions == {s1}
MCQuestions == {q1, q2}
MCVideos == {v1}
MCHandlers == {h1, h2}
=============================================================================
