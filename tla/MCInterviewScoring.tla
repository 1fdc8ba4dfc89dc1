------------------------- MODULE MCInterviewScoring -------------------------
(* InterviewScoring for TLC: the model values of its small instance. *)
EXTENDS InterviewScoring, TLC

CONSTANTS s1, q1, v1, g1, h1, h2, a1, a2

MCSessions == {s1}
MCQuestions == {q1}
MCVideos == {v1}
MCHandlers == {h1, h2}
MCGrades == {g1}
MCAttempts == {a1, a2}

(* Handlers are interchangeable and so are attempts; every property checked *)
(* here is a safety property.                                               *)
MCSymmetry == Permutations(MCHandlers) \cup Permutations(MCAttempts)
=============================================================================
