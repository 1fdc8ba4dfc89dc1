-------------------------------- MODULE Exam --------------------------------
(***************************************************************************)
(* What the backend promises of one interview, without handlers, queues or *)
(* retries: the candidate writes on a sheet while the interview runs, the  *)
(* sheet is sealed when it is handed in, and every grade that is given, at *)
(* any time after, grades the sealed sheet.  A sheet is never unsealed.    *)
(***************************************************************************)
CONSTANTS Sessions, Sheets, Blank, Grades, None

VARIABLES
    phase,   \* "absent", "draft", "running" or "sealed"
    sheet,   \* what the candidate has answered
    grade    \* the sheet that was graded and its grade, or None

vars == <<phase, sheet, grade>>

Init ==
    /\ phase = [s \in Sessions |-> "absent"]
    /\ sheet = [s \in Sessions |-> Blank]
    /\ grade = [s \in Sessions |-> None]

Move(s, from, to) ==
    /\ phase[s] = from
    /\ phase' = [phase EXCEPT ![s] = to]
    /\ UNCHANGED <<sheet, grade>>

Create(s) == Move(s, "absent", "draft")
Begin(s) == Move(s, "draft", "running")
Seal(s) == Move(s, "running", "sealed")

Write(s) ==
    /\ phase[s] = "running"
    /\ \E x \in Sheets : sheet' = [sheet EXCEPT ![s] = x]
    /\ UNCHANGED <<phase, grade>>

Grade(s) ==
    /\ phase[s] = "sealed"
    /\ \E g \in Grades :
        grade' = [grade EXCEPT ![s] = [sheet |-> sheet[s], grade |-> g]]
    /\ UNCHANGED <<phase, sheet>>

Next ==
    \E s \in Sessions : Create(s) \/ Begin(s) \/ Write(s) \/ Seal(s) \/ Grade(s)

Spec == Init /\ [][Next]_vars
=============================================================================
