-------------------------- MODULE ScoringPipeline --------------------------
(***************************************************************************)
(* The scoring module: the pg-boss queue of scoring jobs (external), the   *)
(* worker that handles them, the rows it writes, and the endpoints that a  *)
(* client polls for the job's state and then asks for the result.          *)
(*                                                                         *)
(* An attempt is one execution of the worker's handleJob.  pg-boss gives a *)
(* job to one attempt at a time, its owner, and stops waiting for it when  *)
(* the job expires; the attempt itself runs on, as a straggler whose       *)
(* database writes still land.  A crash ends every attempt and leaves the  *)
(* jobs active, for expiry to find.                                        *)
(***************************************************************************)
EXTENDS Naturals

CONSTANTS
    Sessions,    \* rows of interview_sessions
    Sheets,      \* what a session's questions and answers may hold
    Grades,      \* what the language model may make of a sheet
    Attempts,    \* executions of handleJob at the same time
    RetryLimit,  \* SCORING_JOB_RETRY_LIMIT, of the job and of the worker
    None         \* no row, no attempt, no session

ASSUME ScoringAssumption ==
    /\ RetryLimit \in Nat \ {0}
    /\ None \notin Sessions \cup Sheets \cup Grades \cup Attempts
    /\ None \notin [sheet : Sheets, grade : Grades]

VARIABLES
    status,          \* interview_sessions.status
    answers,         \* the sheet of each session
    sent,            \* jobs sent to pg-boss for each session
    job,             \* the job of each session, once it is sent
    owner,           \* the attempt pg-boss is waiting for, if any
    att,             \* where each attempt stands
    score,           \* the scores row of each session
    summary,         \* the interview_summaries row of each session
    poll,            \* a client that polls a job, and the result endpoint
    countDelivered   \* whether a job handed to the worker has its retry count

sessionVars == <<answers, sent>>
rowVars == <<status, score, summary>>
queueVars == <<job, owner>>
scoringVars == <<job, owner, att, score, summary, poll, countDelivered>>
vars == <<status, answers, sent, scoringVars>>

-----------------------------------------------------------------------------
Scored == {"SUBMITTED", "SCORING", "COMPLETED", "FAILED"}

Result == [sheet : Sheets, grade : Grades]

(* States of a pg-boss job; it exists once it is sent. *)
JobStates == {"created", "active", "retry", "completed", "failed"}

Job == [state : JobStates, retries : 0 .. RetryLimit]

(* The awaits of handleJob; "report" stands after it returned or threw. *)
Running == {"load", "markScoring", "evaluate", "save", "catch",
            "reportDone", "reportError"}

Attempt == [pc : Running \cup {"idle"}, s : Sessions \cup {None},
            retryCount : 0 .. RetryLimit, sheet : Sheets \cup {None},
            grade : Grades \cup {None}, fatal : BOOLEAN]

Idle == [pc |-> "idle", s |-> None, retryCount |-> 0, sheet |-> None,
         grade |-> None, fatal |-> FALSE]

Poll == [pc : {"idle", "jobDone", "refused", "checked", "ok", "notFound"},
         s : Sessions \cup {None}]

ScoringTypeOK ==
    /\ job \in [Sessions -> Job]
    /\ owner \in [Sessions -> Attempts \cup {None}]
    /\ att \in [Attempts -> Attempt]
    /\ score \in [Sessions -> Result \cup {None}]
    /\ summary \in [Sessions -> Result \cup {None}]
    /\ poll \in Poll
    /\ countDelivered \in BOOLEAN

TypeOK ==
    /\ status \in [Sessions -> Scored]
    /\ answers \in [Sessions -> Sheets]
    /\ sent \in [Sessions -> Nat]
    /\ ScoringTypeOK

ScoringInit ==
    /\ job = [s \in Sessions |-> [state |-> "created", retries |-> 0]]
    /\ owner = [s \in Sessions |-> None]
    /\ att = [a \in Attempts |-> Idle]
    /\ score = [s \in Sessions |-> None]
    /\ summary = [s \in Sessions |-> None]
    /\ poll = [pc |-> "idle", s |-> None]
    /\ countDelivered \in BOOLEAN

Init ==
    /\ status = [s \in Sessions |-> "SUBMITTED"]
    /\ answers \in [Sessions -> Sheets]
    /\ sent = [s \in Sessions |-> 0]
    /\ ScoringInit

-----------------------------------------------------------------------------
Goto(a, pc) == att' = [att EXCEPT ![a].pc = pc]

(* Broken forms of the actions below, one plausible bug each; no action    *)
(* uses them.  Each is what a property at the end of the module excludes.  *)

(* A worker that counts a job's attempts from one. *)
Fetch_CountsFromOne(a, s) ==
    /\ att[a].pc = "idle"
    /\ sent[s] > 0
    /\ job[s].state \in {"created", "retry"}
    /\ job' = [job EXCEPT ![s].state = "active",
                          ![s].retries = IF job[s].state = "retry" THEN @ + 1 ELSE @]
    /\ owner' = [owner EXCEPT ![s] = a]
    /\ att' = [att EXCEPT ![a] = [Idle EXCEPT !.pc = "load", !.s = s,
                                    !.retryCount = job'[s].retries + 1]]
    /\ UNCHANGED <<sessionVars, rowVars, poll, countDelivered>>

(* A language model call without a timeout, that does not return. *)
Evaluate_Hangs(a) ==
    /\ att[a].pc = "evaluate"
    /\ UNCHANGED vars

(* A retry clears the rows of an earlier attempt. *)
MarkScoring_ClearsResult(a) ==
    /\ att[a].pc = "markScoring"
    /\ status' = [status EXCEPT ![att[a].s] = "SCORING"]
    /\ score' = [score EXCEPT ![att[a].s] = None]
    /\ Goto(a, "evaluate")
    /\ UNCHANGED <<sessionVars, summary, queueVars, poll, countDelivered>>

(* Only some of the three writes are made. *)
SavePart(a, summaries, statuses) ==
    LET result == [sheet |-> att[a].sheet, grade |-> att[a].grade] IN
    /\ att[a].pc = "save"
    /\ score' = [score EXCEPT ![att[a].s] = result]
    /\ summary' = [s \in Sessions |->
                      IF s = att[a].s /\ summaries THEN result ELSE summary[s]]
    /\ status' = [s \in Sessions |->
                      IF s = att[a].s /\ statuses THEN "COMPLETED" ELSE status[s]]
    /\ Goto(a, "reportDone")
    /\ UNCHANGED <<sessionVars, queueVars, poll, countDelivered>>

SaveScoringResult_NoSummary(a) == SavePart(a, FALSE, TRUE)

(* A catch block that does not rethrow. *)
HandleError_Swallows(a) ==
    /\ att[a].pc = "catch"
    /\ Goto(a, "reportDone")
    /\ UNCHANGED <<sessionVars, rowVars, queueVars, poll, countDelivered>>

-----------------------------------------------------------------------------
(* The queue *)

(* A submission sends its session's job (the handler is InterviewSession). *)
Send(s) ==
    /\ sent[s] = 0
    /\ sent' = [sent EXCEPT ![s] = 1]
    /\ UNCHANGED <<status, answers, scoringVars>>

(* pg-boss hands a waiting job to a worker; a retry counts when it is       *)
(* fetched.  Without its metadata a job has no retry count: 0 is read.      *)
Fetch(a, s) ==
    LET retries == IF job[s].state = "retry" THEN job[s].retries + 1
                                             ELSE job[s].retries
    IN
    /\ att[a].pc = "idle"
    /\ sent[s] > 0
    /\ job[s].state \in {"created", "retry"}
    /\ job' = [job EXCEPT ![s].state = "active", ![s].retries = retries]
    /\ owner' = [owner EXCEPT ![s] = a]
    /\ att' = [att EXCEPT ![a] = [Idle EXCEPT !.pc = "load", !.s = s,
                    !.retryCount = IF countDelivered THEN retries ELSE 0]]
    /\ UNCHANGED <<sessionVars, rowVars, poll, countDelivered>>

(* pg-boss' state after an active job failed or expired. *)
FailedJob(s) == IF job[s].retries < RetryLimit THEN "retry" ELSE "failed"

(* The queue gives up on an active job; its attempt, if it lives, runs on. *)
Expire(s) ==
    /\ job[s].state = "active"
    /\ job' = [job EXCEPT ![s].state = FailedJob(s)]
    /\ owner' = [owner EXCEPT ![s] = None]
    /\ UNCHANGED <<sessionVars, rowVars, att, poll, countDelivered>>

(* handleJob returned or threw.  The queue hears of it from the owner, not *)
(* from a straggler, unless the report itself is lost.                     *)
Report(a) ==
    LET s == att[a].s IN
    /\ att[a].pc \in {"reportDone", "reportError"}
    /\ \/ /\ owner[s] = a
          /\ job' = [job EXCEPT ![s].state =
                        IF att[a].pc = "reportDone" THEN "completed" ELSE FailedJob(s)]
       \/ UNCHANGED job
    /\ owner' = [t \in Sessions |-> IF owner[t] = a THEN None ELSE owner[t]]
    /\ att' = [att EXCEPT ![a] = Idle]
    /\ UNCHANGED <<sessionVars, rowVars, poll, countDelivered>>

(* The process dies with all its attempts. *)
Crash ==
    /\ \E a \in Attempts : att[a].pc # "idle"
    /\ att' = [a \in Attempts |-> Idle]
    /\ owner' = [s \in Sessions |-> None]
    /\ UNCHANGED <<sessionVars, rowVars, job, poll, countDelivered>>

-----------------------------------------------------------------------------
(* handleJob *)

(* findSessionForScoring: one read of the session and its answers.  Before *)
(* it succeeds the catch block has no session to mark.                     *)
LoadSession(a) ==
    /\ att[a].pc = "load"
    /\ \/ att' = [att EXCEPT ![a].pc = "markScoring",
                             ![a].sheet = answers[att[a].s]]
       \/ Goto(a, "reportError")
    /\ UNCHANGED <<sessionVars, rowVars, queueVars, poll, countDelivered>>

(* updateSessionStatus: whatever the status is, it becomes SCORING. *)
MarkScoring(a) ==
    /\ att[a].pc = "markScoring"
    /\ \/ /\ status' = [status EXCEPT ![att[a].s] = "SCORING"]
          /\ Goto(a, "evaluate")
       \/ /\ Goto(a, "catch")
          /\ UNCHANGED status
    /\ UNCHANGED <<sessionVars, score, summary, queueVars, poll, countDelivered>>

(* The language model's evaluation makes a score and a summary, or it      *)
(* fails, or it breaks their rules, which no retry mends.                  *)
Evaluate(a) ==
    /\ att[a].pc = "evaluate"
    /\ \/ \E g \in Grades :
            att' = [att EXCEPT ![a].pc = "save", ![a].grade = g]
       \/ \E fatal \in BOOLEAN :
            att' = [att EXCEPT ![a].pc = "catch", ![a].fatal = fatal]
    /\ UNCHANGED <<sessionVars, rowVars, queueVars, poll, countDelivered>>

(* saveScoringResult: one transaction upserts both rows and completes the  *)
(* session.  It may fail, or commit and have its reply lost.               *)
SaveScoringResult(a) ==
    LET s == att[a].s
        result == [sheet |-> att[a].sheet, grade |-> att[a].grade]
    IN
    /\ att[a].pc = "save"
    /\ \/ /\ score' = [score EXCEPT ![s] = result]
          /\ summary' = [summary EXCEPT ![s] = result]
          /\ status' = [status EXCEPT ![s] = "COMPLETED"]
          /\ Goto(a, "reportDone") \/ Goto(a, "catch")
       \/ /\ Goto(a, "catch")
          /\ UNCHANGED rowVars
    /\ UNCHANGED <<sessionVars, queueVars, poll, countDelivered>>

(* The catch block: on a fatal error or what it takes for the last attempt *)
(* it marks a SCORING session FAILED, which may itself fail; it rethrows.  *)
HandleError(a) ==
    LET s == att[a].s
        last == att[a].retryCount + 1 >= RetryLimit
    IN
    /\ att[a].pc = "catch"
    /\ \/ /\ att[a].fatal \/ last
          /\ status[s] = "SCORING"
          /\ status' = [status EXCEPT ![s] = "FAILED"]
       \/ UNCHANGED status
    /\ Goto(a, "reportError")
    /\ UNCHANGED <<sessionVars, score, summary, queueVars, poll, countDelivered>>

-----------------------------------------------------------------------------
(* GET /scoring/jobs/:id/status shows the queue's state of the job; other  *)
(* states than completed tell the client to ask again, or to give up.      *)
PollJob(s) ==
    /\ poll.pc # "checked"
    /\ job[s].state = "completed"
    /\ poll' = [pc |-> "jobDone", s |-> s]
    /\ UNCHANGED <<sessionVars, rowVars, queueVars, att, countDelivered>>

(* GET /scoring/sessions/:id/result reads the status, then the rows.  It   *)
(* refuses a session that is not COMPLETED; only to a client that has seen *)
(* the job completed does the refusal tell anything.                       *)
PollStatus(s) ==
    /\ poll.pc # "checked"
    /\ \/ /\ status[s] = "COMPLETED"
          /\ poll' = [pc |-> "checked", s |-> s]
       \/ /\ status[s] # "COMPLETED"
          /\ poll = [pc |-> "jobDone", s |-> s]
          /\ poll' = [poll EXCEPT !.pc = "refused"]
    /\ UNCHANGED <<sessionVars, rowVars, queueVars, att, countDelivered>>

PollResult ==
    /\ poll.pc = "checked"
    /\ poll' = [poll EXCEPT !.pc =
            IF score[poll.s] # None /\ summary[poll.s] # None THEN "ok"
                                                              ELSE "notFound"]
    /\ UNCHANGED <<sessionVars, rowVars, queueVars, att, countDelivered>>

-----------------------------------------------------------------------------
(* A step of an attempt that handleJob takes on its own. *)
Advance(a) ==
    \/ LoadSession(a)
    \/ MarkScoring(a)
    \/ Evaluate(a)
    \/ SaveScoringResult(a)
    \/ HandleError(a)
    \/ Report(a)

WorkerNext ==
    \/ \E a \in Attempts, s \in Sessions : Fetch(a, s)
    \/ \E a \in Attempts : Advance(a)
    \/ \E s \in Sessions : Expire(s)
    \/ Crash

Next ==
    \/ WorkerNext
    \/ PollResult
    \/ \E s \in Sessions : Send(s) \/ PollJob(s) \/ PollStatus(s)

(* The worker polls, its awaits return, and pg-boss' monitor expires jobs. *)
Fairness ==
    /\ \A s \in Sessions : WF_vars(Expire(s))
    /\ \A s \in Sessions : SF_vars(\E a \in Attempts : Fetch(a, s))
    /\ \A a \in Attempts : WF_vars(Advance(a))

Spec == Init /\ [][Next]_vars

FairSpec == Spec /\ Fairness

-----------------------------------------------------------------------------
(* Properties *)

(* A COMPLETED session has its score and its summary, and both come from   *)
(* the same evaluation, however many attempts overlapped on the session.   *)
CompletedHasResult ==
    \A s \in Sessions : status[s] = "COMPLETED" =>
        score[s] # None /\ summary[s] = score[s]

(* A job the queue counts as completed has produced its result. *)
CompletedJobHasResult ==
    \A s \in Sessions : job[s].state = "completed" => score[s] # None

(* The result endpoint's second read finds what its first one promised,    *)
(* whatever retries and stragglers did in between: its 404 for a missing   *)
(* result is never reached.                                                *)
PollFindsResult == poll.pc # "notFound"

(* Every job that is sent ends completed or failed: retries are bounded,   *)
(* and expiry finds what a crash left active.                              *)
JobsEnd ==
    \A s \in Sessions : sent[s] > 0 ~> job[s].state \in {"completed", "failed"}

(* docs/api-contract-scoring.md:54-57 and :163: once the retries are used   *)
(* up the worker marks the session FAILED and fails the job, so a job that *)
(* its worker reports as failed for good leaves a FAILED session.          *)
LastFailureFailsSession ==
    [][\A s \in Sessions :
            /\ job[s].state = "active"
            /\ job'[s].state = "failed"
            /\ \E a \in Attempts : owner[s] = a /\ att[a].pc = "reportError"
            => status'[s] = "FAILED"]_vars

(* The same table, of a success: a COMPLETED job has a COMPLETED session,  *)
(* so a client that has seen the job COMPLETED is given the result at its  *)
(* first request for it (docs/api-contract-scoring.md:162, :206, :306).    *)
CompletedJobGivesResult == poll.pc # "refused"
=============================================================================
