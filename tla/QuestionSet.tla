---------------------------- MODULE QuestionSet ----------------------------
(***************************************************************************)
(* The questions a model writes for an interview: the schema it is given   *)
(* and the contract its answer is checked against, which is stricter: no   *)
(* blank question, and none twice.  Texts are those of CvData.             *)
(***************************************************************************)
EXTENDS CvData

CONSTANTS
    QuestionCount,    \* the number of questions that was asked for
    QuestionLength    \* MAX_QUESTION_CONTENT_LENGTH

QuestionDomain == {"TECHNICAL", "BEHAVIORAL", "SITUATIONAL"}

QuestionDifficulty == {"EASY", "MEDIUM", "HARD"}

(* Whether the answer is an object with an array of questions is raw.is,   *)
(* whether an item of it is an object is its own; a content that is not a  *)
(* string is None.                                                         *)
RawQuestionSet ==
    [is : {"array", "other"},
     questions : Seq([is : {"object", "other"}, content : Text,
                      domain : QuestionDomain \cup {"other"},
                      difficulty : QuestionDifficulty \cup {"other"}])]

(* A question as it is saved. *)
Question ==
    [orderIndex : Nat, content : Seq(Characters), domain : QuestionDomain,
     difficulty : QuestionDifficulty]

ASSUME QuestionSetAssumption ==
    /\ {QuestionCount, QuestionLength} \subseteq Nat \ {0}
    /\ None \notin Seq(Question)

ConformsToSchema(raw) ==   \* buildQuestionSchema
    /\ raw.is = "array"
    /\ Len(raw.questions) = QuestionCount
    /\ \A i \in DOMAIN raw.questions :
        LET item == raw.questions[i]
        IN  /\ item.is = "object"
            /\ item.content # None
            /\ Len(item.content) <= QuestionLength
            /\ item.domain \in QuestionDomain
            /\ item.difficulty \in QuestionDifficulty

Content(item) == IF item.content = None THEN <<>> ELSE Trim(item.content)

-----------------------------------------------------------------------------
(* Broken forms of definitions below, one plausible bug each; none is used. *)

(* Questions that are compared as they were written. *)
Key_AsWritten(item) == Content(item)

-----------------------------------------------------------------------------
Key(item) == Lower(Content(item))

ValidItem(item) ==
    /\ item.is = "object"
    /\ Len(Content(item)) \in 1 .. QuestionLength
    /\ item.domain \in QuestionDomain
    /\ item.difficulty \in QuestionDifficulty

(* The questions in their order, or None. *)
ValidateQuestionSet(raw) ==
    IF /\ raw.is = "array"
       /\ Len(raw.questions) = QuestionCount
       /\ \A i \in DOMAIN raw.questions : ValidItem(raw.questions[i])
       /\ \A i, j \in DOMAIN raw.questions :
            Key(raw.questions[i]) = Key(raw.questions[j]) => i = j
    THEN [i \in 1 .. QuestionCount |->
            [orderIndex |-> i, content |-> Content(raw.questions[i]),
             domain |-> raw.questions[i].domain,
             difficulty |-> raw.questions[i].difficulty]]
    ELSE None
=============================================================================
