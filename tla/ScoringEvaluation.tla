------------------------- MODULE ScoringEvaluation -------------------------
(***************************************************************************)
(* What the scoring worker makes of the JSON a language model answers:     *)
(* ScoringLlmAdapter cleans it, and the entities Score and                 *)
(* InterviewSummary accept it or end the job for good.                     *)
(*                                                                         *)
(* Scores are integers: hundredths as the model writes them, tenths as     *)
(* they are kept.  toFixed(1) may round an exact half either way, for the  *)
(* half is seldom exact in binary.  A feedback is the length it has when   *)
(* it is trimmed; the length of the default one is not zero.               *)
(***************************************************************************)
EXTENDS Integers

CONSTANTS
    MaxFeedback,      \* 10,000 characters
    DefaultFeedback   \* the length of the adapter's own sentence

ASSUME EvaluationAssumption ==
    /\ MaxFeedback \in Nat
    /\ DefaultFeedback \in 1 .. MaxFeedback

(* Null counts as 0 when it is made a number, a missing value as NaN. *)
RawScore == [is : {"number", "null", "missing", "other"}, n : Int]

(* The schema is advice to the model: only JSON is sure. *)
RawEvaluation ==
    [is : {"object", "null", "other"},
     content : RawScore, relevance : RawScore, confidence : RawScore, overall : RawScore,
     feedback : [is : {"text", "null", "missing", "other"}, length : Nat],
     lists : {"objects", "nullItem", "notArray"}]

-----------------------------------------------------------------------------
(* The tenths that toFixed(1) may give for n hundredths. *)
Rounded(n) == {t \in (n - 5) \div 10 .. (n + 5) \div 10 : 10 * t - 5 <= n /\ n <= 10 * t + 5}

(* Broken forms of definitions below, one plausible bug each; none is used. *)

(* A score that is only kept from being negative. *)
ClampScore_NoMax(raw) ==
    IF raw.is # "number" \/ raw.n < 0 THEN Rounded(0) ELSE Rounded(raw.n)

-----------------------------------------------------------------------------
(* What is not a number is 0. *)
ClampScore(raw) ==
    IF raw.is # "number" \/ raw.n < 0 THEN Rounded(0)
    ELSE IF raw.n > 1000 THEN Rounded(1000) ELSE Rounded(raw.n)

(* evaluateSession up to its result: an answer without the fields gives    *)
(* zeros and the default feedback; null, and a feedback that cannot be     *)
(* trimmed, throw.  A null overall score is a given one.                   *)
Throws(raw) ==
    \/ raw.is = "null"
    \/ raw.is = "object" /\ raw.feedback.is = "other"

Field(raw, score) == IF raw.is = "object" THEN score ELSE [is |-> "missing", n |-> 0]

Feedback(raw) ==
    IF raw.is = "object" /\ raw.feedback.is = "text" /\ raw.feedback.length > 0
    THEN raw.feedback.length ELSE DefaultFeedback

Evaluation(raw) ==
    [content : ClampScore(Field(raw, raw.content)),
     relevance : ClampScore(Field(raw, raw.relevance)),
     confidence : ClampScore(Field(raw, raw.confidence)),
     given : {Field(raw, raw.overall).is # "missing"},
     overall : ClampScore(Field(raw, raw.overall)),
     feedback : {Feedback(raw)},
     lists : {IF raw.is = "object" THEN raw.lists ELSE "notArray"}]

(* Score.validate and InterviewSummary.validate.  The list of a summary is *)
(* an array by now, and its model is never blank.                          *)
ValidScore(e) ==
    /\ e.content \in 0 .. 100
    /\ e.relevance \in 0 .. 100
    /\ e.confidence \in 0 .. 100
    /\ e.given => e.overall \in 0 .. 100

ValidSummary(e) == e.feedback \in 1 .. MaxFeedback

(* Score.create weighs the components when the model gave no overall. *)
CreateScore(e) ==
    [content : {e.content}, relevance : {e.relevance}, confidence : {e.confidence},
     overall : IF e.given THEN {e.overall}
               ELSE Rounded(4 * e.content + 4 * e.relevance + 2 * e.confidence)]

(* mapSummaryToDto looks into every item of a stored list. *)
Readable(e) == e.lists # "nullItem"
=============================================================================
