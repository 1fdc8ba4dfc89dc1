-------------------------- MODULE InterviewSession --------------------------
(***************************************************************************)
(* The interview module of the backend: the rows of interview_sessions,    *)
(* questions and answers, and the HTTP handlers that create a session,     *)
(* generate its questions, start it, save answers and submit it.           *)
(*                                                                         *)
(* A handler is a slot of the server that serves one request at a time.    *)
(* Its program counter stands at the await it is suspended on; between two *)
(* awaits other handlers run.  A database transaction is two steps, the    *)
(* guarded UPDATE that takes the row lock and the commit, so that what the *)
(* row lock protects is visible.  Abort is a database error, a lost        *)
(* connection or a crash of the server at any of the awaits.               *)
(***************************************************************************)
EXTENDS Naturals, FiniteSets

CONSTANTS
    Sessions,    \* rows of interview_sessions, by publicId
    Questions,   \* question rows, local to a session
    Videos,      \* what an answer may hold: video, transcript and duration
    Handlers,    \* requests the server serves at the same time
    None         \* no handler, no answer, no question

ASSUME ConstantsAssumption ==
    /\ IsFiniteSet(Questions)
    /\ None \notin Sessions \cup Questions \cup Videos \cup Handlers

VARIABLES
    status,          \* interview_sessions.status, "ABSENT" without a row
    questions,       \* the question rows of each session
    totalQuestions,  \* interview_sessions.total_questions, 0 for NULL
    answers,         \* the answer row of each question, None without one
    rowLock,         \* the handler whose transaction locks the session row
    req,             \* where each handler stands, and its arguments
    sent,            \* jobs sent to pg-boss for each session
    acked            \* history: questions whose answer a 200 acknowledged

dbVars == <<status, questions, totalQuestions, answers>>
vars == <<status, questions, totalQuestions, answers, rowLock, req, sent, acked>>

-----------------------------------------------------------------------------
(* SessionStatus; CANCELLED is in the enum and no code writes it. *)
Status == {"ABSENT", "CREATED", "IN_PROGRESS", "SUBMITTED",
           "SCORING", "COMPLETED", "FAILED"}

(* The statuses before submission. *)
Open == {"ABSENT", "CREATED", "IN_PROGRESS"}

(* A handler at rest stands at the reply to its last request: success, an   *)
(* error, or the two replies to a submission that say more, the 202 that    *)
(* carries a job id and the 400 for a status it is not accepted in.         *)
Replies == {"ok", "failed", "queued", "notSubmittable"}

(* The awaits a handler suspends on, after its authorization read. *)
Busy == {"start", "submit", "enqueue", "enqueued", "getVideo", "lockForAnswer",
         "commitAnswer", "generate", "lockForQuestions", "commitQuestions"}

(* The awaits inside a transaction, after its guarded UPDATE. *)
InTransaction == {"commitAnswer", "commitQuestions"}

Request == [pc : Busy \cup Replies, s : Sessions \cup {None},
            q : Questions \cup {None}, v : Videos \cup {None},
            set : SUBSET Questions]

AtRestRequest == [pc |-> "ok", s |-> None, q |-> None, v |-> None, set |-> {}]

TypeOK ==
    /\ status \in [Sessions -> Status]
    /\ questions \in [Sessions -> SUBSET Questions]
    /\ totalQuestions \in [Sessions -> Nat]
    /\ answers \in [Sessions -> [Questions -> Videos \cup {None}]]
    /\ rowLock \in [Sessions -> Handlers \cup {None}]
    /\ req \in [Handlers -> Request]
    /\ sent \in [Sessions -> Nat]
    /\ acked \in [Sessions -> SUBSET Questions]

Init ==
    /\ status = [s \in Sessions |-> "ABSENT"]
    /\ questions = [s \in Sessions |-> {}]
    /\ totalQuestions = [s \in Sessions |-> 0]
    /\ answers = [s \in Sessions |-> [q \in Questions |-> None]]
    /\ rowLock = [s \in Sessions |-> None]
    /\ req = [h \in Handlers |-> AtRestRequest]
    /\ sent = [s \in Sessions |-> 0]
    /\ acked = [s \in Sessions |-> {}]

-----------------------------------------------------------------------------
(* Moves of a handler's program counter. *)

AtRest(h) == req[h].pc \in Replies

(* A request on session s passes its first read and goes to await pc. *)
Accept(h, pc, s) == req' = [req EXCEPT ![h] = [AtRestRequest EXCEPT !.pc = pc, !.s = s]]

Goto(h, pc) == req' = [req EXCEPT ![h].pc = pc]

Reply(h, r) == req' = [req EXCEPT ![h] = [AtRestRequest EXCEPT !.pc = r]]

(* The client of a committed write gets its answer or an error: the        *)
(* connection may break between the commit and the reply.                  *)
ReplyCommitted(h) == \E r \in {"ok", "failed"} : Reply(h, r)

Unlocked(s) == rowLock[s] = None

-----------------------------------------------------------------------------
(* Broken forms of the actions below, one plausible bug each; no action    *)
(* uses them.  Each is what a property at the end of the module excludes.  *)

(* A submission sent before the status is moved on. *)
AuthorizeSubmit_EnqueueFirst(h, s) ==
    /\ AtRest(h)
    /\ status[s] = "IN_PROGRESS"
    /\ Accept(h, "enqueue", s)
    /\ UNCHANGED <<dbVars, rowLock, sent, acked>>

(* A submission with a weaker guard, or a count its DTO did not check. *)
SubmitWith(h, from, lockFree, counts) ==
    LET s == req[h].s IN
    /\ req[h].pc = "submit"
    /\ lockFree
    /\ status[s] \in from
    /\ status' = [status EXCEPT ![s] = "SUBMITTED"]
    /\ \E n \in counts : totalQuestions' = [totalQuestions EXCEPT ![s] = n]
    /\ Goto(h, "enqueue")
    /\ UNCHANGED <<questions, answers, rowLock, sent, acked>>

SubmitInterviewSession_NoRowLock(h) == SubmitWith(h, {"IN_PROGRESS"}, TRUE, {1})

SubmitInterviewSession_Resubmit(h) ==
    SubmitWith(h, {"IN_PROGRESS", "SUBMITTED"}, Unlocked(req[h].s), {1})

SubmitInterviewSession_NoCount(h) ==
    SubmitWith(h, {"IN_PROGRESS"}, Unlocked(req[h].s), {None})

(* A missing job id is not noticed. *)
EnqueueScoring_NothingSent(h) ==
    /\ req[h].pc = "enqueue"
    /\ Goto(h, "enqueued")
    /\ UNCHANGED <<dbVars, rowLock, sent, acked>>

(* A status that is read instead of locked. *)
ReadStatus(h, pc, st, next) ==
    /\ req[h].pc = pc
    /\ status[req[h].s] = st
    /\ Goto(h, next)
    /\ UNCHANGED <<dbVars, rowLock, sent, acked>>

LockForAnswer_OnlyRead(h) == ReadStatus(h, "lockForAnswer", "IN_PROGRESS", "commitAnswer")

LockForQuestions_OnlyRead(h) == ReadStatus(h, "lockForQuestions", "CREATED", "commitQuestions")

(* A lock taken without a condition on the status. *)
LockForQuestions_NoGuard(h) ==
    LET s == req[h].s IN
    /\ req[h].pc = "lockForQuestions"
    /\ Unlocked(s)
    /\ rowLock' = [rowLock EXCEPT ![s] = h]
    /\ Goto(h, "commitQuestions")
    /\ UNCHANGED <<dbVars, sent, acked>>

(* The count of the row is not written. *)
ReplaceQuestions_NoCount(h) ==
    LET s == req[h].s IN
    /\ req[h].pc = "commitQuestions"
    /\ questions' = [questions EXCEPT ![s] = req[h].set]
    /\ answers' = [answers EXCEPT ![s] = [q \in Questions |-> None]]
    /\ rowLock' = [rowLock EXCEPT ![s] = None]
    /\ ReplyCommitted(h)
    /\ UNCHANGED <<status, totalQuestions, sent, acked>>

(* A transaction that is neither committed nor rolled back. *)
Abort_KeepsLock(h) ==
    /\ req[h].pc \in Busy
    /\ Reply(h, "failed")
    /\ UNCHANGED <<dbVars, rowLock, sent, acked>>

-----------------------------------------------------------------------------
(* POST /interview-session: the CV is authorized, then the row inserted. *)
CreateInterviewSession(h, s) ==
    /\ AtRest(h)
    /\ status[s] = "ABSENT"
    /\ status' = [status EXCEPT ![s] = "CREATED"]
    /\ ReplyCommitted(h)
    /\ UNCHANGED <<questions, totalQuestions, answers, rowLock, sent, acked>>

(* A request that ends at its first reads, because a row is missing, is    *)
(* another user's or has the wrong status, or because of its CV, which is  *)
(* another module's row.  Only a submission's refusal is kept apart.       *)
RejectRequest(h) ==
    /\ AtRest(h)
    /\ Reply(h, "failed")
    /\ UNCHANGED <<dbVars, rowLock, sent, acked>>

-----------------------------------------------------------------------------
(* POST /interview-session/:id/start *)
AuthorizeStart(h, s) ==
    /\ AtRest(h)
    /\ status[s] = "CREATED"
    /\ Accept(h, "start", s)
    /\ UNCHANGED <<dbVars, rowLock, sent, acked>>

(* The UPDATE waits for a row lock, then its WHERE is evaluated anew. *)
StartInterviewSession(h) ==
    LET s == req[h].s IN
    /\ req[h].pc = "start"
    /\ Unlocked(s)
    /\ \/ /\ status[s] = "CREATED"
          /\ status' = [status EXCEPT ![s] = "IN_PROGRESS"]
          /\ ReplyCommitted(h)
       \/ /\ status[s] # "CREATED"
          /\ Reply(h, "failed")
          /\ UNCHANGED status
    /\ UNCHANGED <<questions, totalQuestions, answers, rowLock, sent, acked>>

-----------------------------------------------------------------------------
(* POST /interview-session/:id/submit *)
AuthorizeSubmit(h, s) ==
    /\ AtRest(h)
    /\ status[s] # "ABSENT"
    /\ Accept(h, IF status[s] = "IN_PROGRESS" THEN "submit" ELSE "notSubmittable", s)
    /\ UNCHANGED <<dbVars, rowLock, sent, acked>>

(* The one transition into SUBMITTED; the question count of the row        *)
(* becomes the number the client sent, at least 1 by its DTO.              *)
SubmitInterviewSession(h) ==
    LET s == req[h].s IN
    /\ req[h].pc = "submit"
    /\ Unlocked(s)
    /\ \/ /\ status[s] = "IN_PROGRESS"
          /\ status' = [status EXCEPT ![s] = "SUBMITTED"]
          /\ \E n \in 1 .. Cardinality(Questions) + 1 :
                totalQuestions' = [totalQuestions EXCEPT ![s] = n]
          /\ Goto(h, "enqueue")
       \/ /\ status[s] # "IN_PROGRESS"
          /\ Reply(h, "failed")
          /\ UNCHANGED <<status, totalQuestions>>
    /\ UNCHANGED <<questions, answers, rowLock, sent, acked>>

(* boss.send inserts the job; a null job id or an exception is Abort. *)
EnqueueScoring(h) ==
    /\ req[h].pc = "enqueue"
    /\ sent' = [sent EXCEPT ![req[h].s] = @ + 1]
    /\ Goto(h, "enqueued")
    /\ UNCHANGED <<dbVars, rowLock, acked>>

ReplyQueued(h) ==
    /\ req[h].pc = "enqueued"
    /\ Goto(h, "queued")
    /\ UNCHANGED <<dbVars, rowLock, sent, acked>>

-----------------------------------------------------------------------------
(* PUT /interview-session/:id/questions/:qid/answer *)
AuthorizeQuestion(h, s, q, v) ==
    /\ AtRest(h)
    /\ q \in questions[s]
    /\ status[s] = "IN_PROGRESS"
    /\ req' = [req EXCEPT ![h] =
                [pc |-> "getVideo", s |-> s, q |-> q, v |-> v, set |-> {}]]
    /\ UNCHANGED <<dbVars, rowLock, sent, acked>>

(* The provider reports the uploaded video: valid, or refused as missing   *)
(* or malformed.  A provider error is Abort.                               *)
GetVideo(h) ==
    /\ req[h].pc = "getVideo"
    /\ Goto(h, "lockForAnswer") \/ Reply(h, "failed")
    /\ UNCHANGED <<dbVars, rowLock, sent, acked>>

(* The guarded no-op UPDATE of saveAnswer's transaction. *)
LockForAnswer(h) ==
    LET s == req[h].s IN
    /\ req[h].pc = "lockForAnswer"
    /\ Unlocked(s)
    /\ \/ /\ status[s] = "IN_PROGRESS"
          /\ rowLock' = [rowLock EXCEPT ![s] = h]
          /\ Goto(h, "commitAnswer")
       \/ /\ status[s] # "IN_PROGRESS"
          /\ Reply(h, "failed")
          /\ UNCHANGED rowLock
    /\ UNCHANGED <<dbVars, sent, acked>>

(* The question is looked up, the answer upserted, the transaction ends. *)
SaveAnswer(h) ==
    LET s == req[h].s
        q == req[h].q
    IN
    /\ req[h].pc = "commitAnswer"
    /\ \/ /\ q \in questions[s]
          /\ answers' = [answers EXCEPT ![s][q] = req[h].v]
          /\ ReplyCommitted(h)
          /\ acked' = [acked EXCEPT ![s] =
                            IF req'[h].pc = "ok" THEN @ \cup {q} ELSE @]
       \/ /\ q \notin questions[s]
          /\ Reply(h, "failed")
          /\ UNCHANGED <<answers, acked>>
    /\ rowLock' = [rowLock EXCEPT ![s] = None]
    /\ UNCHANGED <<status, questions, totalQuestions, sent>>

-----------------------------------------------------------------------------
(* POST /interview-session/:id/questions *)
GetGenerationContext(h, s) ==
    /\ AtRest(h)
    /\ status[s] = "CREATED"
    /\ Accept(h, "generate", s)
    /\ UNCHANGED <<dbVars, rowLock, sent, acked>>

(* The language model returns a valid question set within the timeout; an  *)
(* error, two invalid sets or the timeout is Abort.                        *)
GenerateQuestions(h) ==
    /\ req[h].pc = "generate"
    /\ \E set \in SUBSET Questions \ {{}} :
        req' = [req EXCEPT ![h].pc = "lockForQuestions", ![h].set = set]
    /\ UNCHANGED <<dbVars, rowLock, sent, acked>>

(* replaceQuestions' guarded UPDATE of total_questions takes the row lock; *)
(* what it writes is visible when the transaction commits.                 *)
LockForQuestions(h) ==
    LET s == req[h].s IN
    /\ req[h].pc = "lockForQuestions"
    /\ Unlocked(s)
    /\ \/ /\ status[s] = "CREATED"
          /\ rowLock' = [rowLock EXCEPT ![s] = h]
          /\ Goto(h, "commitQuestions")
       \/ /\ status[s] # "CREATED"
          /\ Reply(h, "failed")
          /\ UNCHANGED rowLock
    /\ UNCHANGED <<dbVars, sent, acked>>

(* The old questions and, by cascade, their answers are deleted, the new   *)
(* ones inserted, and the transaction commits.                             *)
ReplaceQuestions(h) ==
    LET s == req[h].s IN
    /\ req[h].pc = "commitQuestions"
    /\ questions' = [questions EXCEPT ![s] = req[h].set]
    /\ totalQuestions' = [totalQuestions EXCEPT ![s] = Cardinality(req[h].set)]
    /\ answers' = [answers EXCEPT ![s] = [q \in Questions |-> None]]
    /\ rowLock' = [rowLock EXCEPT ![s] = None]
    /\ ReplyCommitted(h)
    /\ UNCHANGED <<status, sent, acked>>

-----------------------------------------------------------------------------
(* A request ends in an error or with its server: the database rolls its   *)
(* transaction back and frees the row.                                     *)
Abort(h) ==
    /\ req[h].pc \in Busy
    /\ rowLock' = [s \in Sessions |-> IF rowLock[s] = h THEN None ELSE rowLock[s]]
    /\ Reply(h, "failed")
    /\ UNCHANGED <<dbVars, sent, acked>>

(* What a handler does on its own once a request is accepted. *)
Continue(h) ==
    \/ StartInterviewSession(h)
    \/ SubmitInterviewSession(h)
    \/ EnqueueScoring(h)
    \/ ReplyQueued(h)
    \/ GetVideo(h)
    \/ LockForAnswer(h)
    \/ SaveAnswer(h)
    \/ GenerateQuestions(h)
    \/ LockForQuestions(h)
    \/ ReplaceQuestions(h)

(* What a client may ask for at any time. *)
Arrive(h, s) ==
    \/ CreateInterviewSession(h, s)
    \/ AuthorizeStart(h, s)
    \/ AuthorizeSubmit(h, s)
    \/ \E q \in Questions, v \in Videos : AuthorizeQuestion(h, s, q, v)
    \/ GetGenerationContext(h, s)

Next ==
    \E h \in Handlers :
        \/ \E s \in Sessions : Arrive(h, s)
        \/ RejectRequest(h)
        \/ Continue(h)
        \/ Abort(h)

(* A step that waits for a row lock gets it in turn (PostgreSQL queues the *)
(* waiters of a row), hence strong fairness.  Clients owe nothing, and a   *)
(* failure need not happen.                                                *)
Fairness == \A h \in Handlers : SF_vars(Continue(h))

Spec == Init /\ [][Next]_vars

FairSpec == Spec /\ Fairness

-----------------------------------------------------------------------------
(* Properties *)

(* An answer row changes only while its session is IN_PROGRESS, before and *)
(* after the step: no save that raced a submission lands after it, so what *)
(* is scored is what was handed in (the lock of saveAnswer).               *)
AnswersChangeOnlyInProgress ==
    [][\A s \in Sessions : answers'[s] # answers[s] =>
            status[s] = "IN_PROGRESS" /\ status'[s] = "IN_PROGRESS"]_vars

(* The question set is replaced only before the interview starts, so a     *)
(* generation that was slow to return never pulls the questions away from  *)
(* a running interview (the lock of replaceQuestions).                     *)
QuestionsFrozenOnceStarted ==
    [][\A s \in Sessions : questions'[s] # questions[s] =>
            status[s] = "CREATED" /\ status'[s] = "CREATED"]_vars

(* An answer that was acknowledged with 200 is never lost: its question    *)
(* still exists and still has an answer.                                   *)
AckedAnswersKept ==
    \A s \in Sessions : \A q \in acked[s] :
        q \in questions[s] /\ answers[s][q] # None

(* Until submission total_questions is the size of the stored question set,*)
(* however many generations and starts overlapped.                         *)
CountMatchesQuestions ==
    \A s \in Sessions : status[s] \in Open =>
        totalQuestions[s] = Cardinality(questions[s])

(* At most one scoring job is ever sent for a session, and none before it  *)
(* is submitted, whatever submissions race, fail or are retried: pg-boss   *)
(* does not deduplicate for the code (singletonKey alone does not).        *)
AtMostOneJob ==
    \A s \in Sessions :
        /\ sent[s] \in {0, 1}
        /\ status[s] \in Open => sent[s] = 0

(* A submission acknowledged with 202 has its job in the queue. *)
AckedSubmitHasJob ==
    \A h \in Handlers :
        req[h].pc = "queued" => sent[req[h].s] = 1

(* Every request accepted past its first read is answered: no handler      *)
(* waits on a row lock forever.                                            *)
RequestsAnswered ==
    \A h \in Handlers : req[h].pc \in Busy ~> req[h].pc \in Replies

(* A submitted session without a job, and nobody left who would send one. *)
Stranded(s) ==
    /\ status[s] = "SUBMITTED"
    /\ sent[s] = 0
    /\ \A h \in Handlers : req[h].s = s => req[h].pc # "enqueue"

(* docs/interview-answer-upload.md:173: when enqueueing fails after the    *)
(* save, retrying the submission enqueues scoring again.  So a submission  *)
(* of a stranded session is not refused.                                   *)
SubmitRetryAccepted ==
    [][\A h \in Handlers :
            (req'[h] # req[h] /\ req'[h].pc = "notSubmittable")
            => ~Stranded(req'[h].s)]_vars
=============================================================================
