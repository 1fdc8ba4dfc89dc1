------------------------------ MODULE MCRules ------------------------------
(* ModelCalls, InterviewHistory and Uploads for TLC: parts that share      *)
(* nothing, each checked with the others at rest, and the inputs of the    *)
(* first.                                                                  *)
EXTENDS ModelCalls, InterviewHistory, Uploads

VARIABLE part

(* Scores around every edge of the range and of the rounding, and values   *)
(* that are not numbers.                                                   *)
Number(n) == [is |-> "number", n |-> n]
Odd(is) == [is |-> is, n |-> 0]
Scores == {Number(n) : n \in {-5, 744, 1005}} \cup {Odd("other")}
Overalls == {Number(n) : n \in {-5, 1005}} \cup {Odd("null"), Odd("missing"), Odd("other")}

Written(length) == [is |-> "text", length |-> length]
Feedbacks == {Written(n) : n \in 0 .. MaxFeedback + 1} \cup {[is |-> "other", length |-> 0],
                                                        [is |-> "missing", length |-> 0]}

Base == [is |-> "object", content |-> Number(5), relevance |-> Number(5),
         confidence |-> Number(5), overall |-> Odd("missing"), feedback |-> Written(1),
         lists |-> "objects"]

MCRawEvaluations ==
    {[Base EXCEPT !.content = c, !.relevance = r, !.confidence = f, !.overall = o] :
        c, r, f \in Scores, o \in Overalls}
    \cup {[Base EXCEPT !.is = is, !.feedback = t, !.lists = l] :
            is \in {"object", "null", "other"}, t \in Feedbacks,
            l \in {"objects", "nullItem", "notArray"}}

(* Texts with letters, blanks and NULs before, behind and between. *)
Long == <<"x", " ", "x">>
Texts == {None, <<"NUL", " ", "NUL">>, <<"NUL", " ", "x">>, Long, <<" ", "X">>, <<"x", "NUL", "X">>}

Lists(n) == UNION {[1 .. k -> Texts] : k \in 0 .. n}

Cv == [summary |-> None, skills |-> <<>>, experiences |-> <<>>, education |-> <<>>]

AnExperience(company, position, date, technologies) ==
    [company |-> company, position |-> position, startDate |-> date,
     technologies |-> technologies]

AnEducation(institution, year) == [institution |-> institution, graduationYear |-> year]

MCRawCvs ==
    {[Cv EXCEPT !.summary = s] : s \in Texts}
    \cup {[Cv EXCEPT !.skills = l] : l \in Lists(3)}
    \cup {[Cv EXCEPT !.experiences = <<AnExperience(c, p, d, l)>>] :
            c, p \in {None, Long, <<"NUL", " ", "NUL">>},
            d \in {None, "yearMonth", "dateTime", "other"}, l \in {<<>>, <<Long, None, Long>>}}
    \cup {[Cv EXCEPT !.education = <<AnEducation(a, y), AnEducation(b, y), AnEducation(c, y)>>] :
            a, b, c \in {None, Long}, y \in {None, "year", "yearText", "other"}}

(* Sets of two questions and fewer or more, with a flaw in one of them. *)
AskedQuestion(content) ==
    [is |-> "object", content |-> content, domain |-> "TECHNICAL", difficulty |-> "EASY"]

Flawed ==
    {[AskedQuestion(<<"x">>) EXCEPT !.is = "other"], [AskedQuestion(<<"x">>) EXCEPT !.domain = "other"],
     [AskedQuestion(<<"x">>) EXCEPT !.difficulty = "other"], AskedQuestion(None)}

Contents == {<<>>, <<" ">>, <<"x">>, <<"X">>, <<" ", "x">>, <<"x", "x">>, Long}

MCRawQuestionSets ==
    {[is |-> "array", questions |-> <<AskedQuestion(a), AskedQuestion(b)>>] : a, b \in Contents}
    \cup {[is |-> "array", questions |-> <<q, AskedQuestion(<<"X", "x">>)>>] : q \in Flawed}
    \cup {[is |-> "array", questions |-> [i \in 1 .. n |-> AskedQuestion(<<"x">>)]] : n \in {0, 1, 3}}
    \cup {[is |-> "other", questions |-> <<>>]}

-----------------------------------------------------------------------------
MCInit ==
    /\ part \in {"calls", "history", "uploads"}
    /\ CallInit
    /\ part # "calls" => configured = {} /\ primary = "gemini"
    /\ HistoryInit
    /\ UploadsInit

MCNext ==
    /\ UNCHANGED part
    /\ \/ part = "calls" /\ CallNext /\ UNCHANGED <<historyVars, uploadsVars>>
       \/ part = "history" /\ HistoryNext /\ UNCHANGED <<callVars, uploadsVars>>
       \/ part = "uploads" /\ UploadsNext /\ UNCHANGED <<callVars, historyVars>>

MCSpec == MCInit /\ [][MCNext]_<<callVars, historyVars, uploadsVars, part>>
=============================================================================
