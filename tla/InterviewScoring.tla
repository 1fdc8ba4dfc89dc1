-------------------------- MODULE InterviewScoring --------------------------
(***************************************************************************)
(* The interview and the scoring modules together.  They share the session *)
(* row (its status), the answers and the queue: the interview handlers of  *)
(* InterviewSession write answers and send the job, the worker of          *)
(* ScoringPipeline reads the answers and moves the status on.  The worker  *)
(* takes no row lock across awaits, and a row is only locked while it is   *)
(* still CREATED or IN_PROGRESS, when it has no job (AttemptsFindSealedRow *)
(* checks it).  The result endpoint only reads and is left at rest here.   *)
(***************************************************************************)
EXTENDS InterviewSession

CONSTANTS Grades, Attempts, RetryLimit

VARIABLES job, owner, att, score, summary, poll, countDelivered

(* The answers of a session, the part of a sheet that can still change. *)
Sheets == [Questions -> Videos \cup {None}]
Blank == [q \in Questions |-> None]

Scoring == INSTANCE ScoringPipeline

interviewVars == <<questions, totalQuestions, rowLock, req, acked>>
scoringVars == <<job, owner, att, score, summary, poll, countDelivered>>
allVars == <<vars, scoringVars>>

SystemInit == Init /\ Scoring!ScoringInit

SystemNext ==
    \/ Next /\ UNCHANGED scoringVars
    \/ Scoring!WorkerNext /\ UNCHANGED interviewVars

SystemSpec == SystemInit /\ [][SystemNext]_allVars

-----------------------------------------------------------------------------
(* The abstract interview: every status from SUBMITTED on is a sealed one. *)
Phase(st) ==
    CASE st = "ABSENT"      -> "absent"
      [] st = "CREATED"     -> "draft"
      [] st = "IN_PROGRESS" -> "running"
      [] OTHER              -> "sealed"

phase == [s \in Sessions |-> Phase(status[s])]

Abstract == INSTANCE Exam WITH sheet <- answers, grade <- score

(* The two modules together implement Exam: no interleaving of handlers,   *)
(* attempts, stragglers and crashes unseals a sheet, writes on a sealed    *)
(* one, or grades anything but the sheet that was handed in.               *)
ImplementsExam == Abstract!Spec

(* Every answer the candidate saw acknowledged is in the sheet that was    *)
(* graded.                                                                 *)
AckedAnswersGraded ==
    \A s \in Sessions : score[s] # None =>
        \A q \in acked[s] : score[s].sheet[q] # None

(* An attempt only ever works on a session that was handed in, with no     *)
(* transaction of the interview handlers still open on its row.            *)
AttemptsFindSealedRow ==
    \A a \in Attempts : att[a].s # None =>
        status[att[a].s] \notin Open /\ rowLock[att[a].s] = None
=============================================================================
