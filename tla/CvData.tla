------------------------------- MODULE CvData -------------------------------
(***************************************************************************)
(* The parsed data of a CV: the normalization that everything stored in    *)
(* cvs.parsed_data went through, of a model's answer and of a manual edit  *)
(* alike, and the validation a manual edit has to pass before.             *)
(*                                                                         *)
(* A text is a sequence of characters, of which there are four kinds that  *)
(* matter: a letter in either case, a blank and NUL.  A value of a type    *)
(* that its field does not have is None.  A date or a year is the form it  *)
(* has.  Fields that are handled alike are one here: the four lists of     *)
(* skills, the two dates of an experience, its description and a summary;  *)
(* and projects, which have a name and texts, are like education.          *)
(***************************************************************************)
EXTENDS Naturals, Sequences, SequencesExt

CONSTANTS
    TextLength,    \* PARSED_DATA_LIMITS: the lengths of texts,
    SkillLength,   \* of a skill or technology,
    ListCount,     \* and of lists
    None

Characters == {"x", "X", " ", "NUL"}

Text == Seq(Characters) \cup {None}

(* The shapes of what is normalized.  A value of a field that the code     *)
(* never looks at is left out; a list that is none is empty.               *)
Experience ==
    [company : Text, position : Text, technologies : Seq(Text),
     startDate : {None, "yearMonth", "fullDate", "dateTime", "other"}]

Education ==
    [institution : Text, graduationYear : {None, "year", "yearText", "other"}]

ParsedData ==
    [summary : Text, skills : Seq(Text),
     experiences : Seq(Experience), education : Seq(Education)]

ASSUME CvDataAssumption ==
    /\ {TextLength, SkillLength, ListCount} \subseteq Nat \ {0}
    /\ None \notin Seq(Characters) \cup Experience \cup Education

Lower(s) == [i \in DOMAIN s |-> IF s[i] = "X" THEN "x" ELSE s[i]]

Inked(s) == {i \in DOMAIN s : s[i] # " "}

Trim(s) == IF Inked(s) = {} THEN <<>> ELSE SubSeq(s, Min(Inked(s)), Max(Inked(s)))

Slice(s, length) == SubSeq(s, 1, IF Len(s) < length THEN Len(s) ELSE length)

WithoutNul(s) ==
    FoldLeft(LAMBDA text, c : IF c = "NUL" THEN text ELSE Append(text, c), <<>>, s)

-----------------------------------------------------------------------------
(* Broken forms of definitions below, one plausible bug each; none is used. *)

(* A text that is trimmed before its NULs are taken out. *)
CleanText_TrimFirst(s, length) ==
    IF s = None THEN None
    ELSE LET text == WithoutNul(Trim(s))
         IN  IF text = <<>> THEN None ELSE Slice(text, length)

-----------------------------------------------------------------------------
CleanText(s, length) ==
    IF s = None THEN None
    ELSE LET text == Trim(WithoutNul(s))
         IN  IF text = <<>> THEN None ELSE Slice(text, length)

(* Texts that differ in case only are one; the first that was seen stays. *)
CleanList(list) ==
    LET Add(kept, item) ==
            LET text == CleanText(item, SkillLength)
            IN  IF \/ text = None
                   \/ Len(kept) = ListCount
                   \/ \E i \in DOMAIN kept : Lower(kept[i]) = Lower(text)
                THEN kept ELSE Append(kept, text)
    IN  FoldLeft(Add, <<>>, list)

(* The first ten characters decide, so a date with a time is a date. *)
CleanYearMonth(form) ==
    IF form \in {"yearMonth", "fullDate", "dateTime"} THEN "yearMonth" ELSE None

CleanYear(form) == IF form \in {"year", "yearText"} THEN "year" ELSE None

(* The entries that could be built, up to ListCount. *)
Collect(entries) ==
    LET Push(items, entry) ==
            IF entry = None \/ Len(items) = ListCount THEN items ELSE Append(items, entry)
    IN  FoldLeft(Push, <<>>, entries)

BuildExperience(raw) ==
    IF None \in {CleanText(raw.company, TextLength), CleanText(raw.position, TextLength)}
    THEN None
    ELSE [company |-> CleanText(raw.company, TextLength),
          position |-> CleanText(raw.position, TextLength),
          startDate |-> CleanYearMonth(raw.startDate),
          technologies |-> CleanList(raw.technologies)]

BuildEducation(raw) ==
    IF CleanText(raw.institution, TextLength) = None THEN None
    ELSE [institution |-> CleanText(raw.institution, TextLength),
          graduationYear |-> CleanYear(raw.graduationYear)]

NormalizeParsedData(raw) ==
    [summary |-> CleanText(raw.summary, TextLength),
     skills |-> CleanList(raw.skills),
     experiences |-> Collect([i \in DOMAIN raw.experiences |->
                                BuildExperience(raw.experiences[i])]),
     education |-> Collect([i \in DOMAIN raw.education |->
                              BuildEducation(raw.education[i])])]

IsParsedDataEmpty(data) ==
    data = [summary |-> None, skills |-> <<>>, experiences |-> <<>>, education |-> <<>>]

-----------------------------------------------------------------------------
(* UpdateParsedDataRequestDto.  A blank text is not an empty one to it. *)
ValidText(s) == s # None /\ Len(s) \in 1 .. TextLength

ValidList(list) ==
    /\ Len(list) <= ListCount
    /\ \A i \in DOMAIN list : list[i] # None /\ Len(list[i]) <= SkillLength

ValidExperience(e) ==
    /\ ValidText(e.company) /\ ValidText(e.position)
    /\ e.startDate \in {None, "yearMonth"}
    /\ ValidList(e.technologies)

ValidEducation(e) ==
    ValidText(e.institution) /\ e.graduationYear \in {None, "year"}

ValidUpdate(data) ==
    /\ data.summary # None => Len(data.summary) <= TextLength
    /\ ValidList(data.skills)
    /\ Len(data.experiences) <= ListCount /\ Len(data.education) <= ListCount
    /\ \A i \in DOMAIN data.experiences : ValidExperience(data.experiences[i])
    /\ \A i \in DOMAIN data.education : ValidEducation(data.education[i])
=============================================================================
