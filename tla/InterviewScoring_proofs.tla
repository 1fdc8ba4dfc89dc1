----------------------- MODULE InterviewScoring_proofs -----------------------
(***************************************************************************)
(* Theorems about InterviewSession and about InterviewScoring, for any     *)
(* number of sessions, questions, videos, handlers and attempts.           *)
(*                                                                         *)
(* First the handlers alone.  IInv is their inductive invariant: it ties   *)
(* the row lock to the program counters of the handlers, and the program   *)
(* counters to the status of the session that they work on.                *)
(*                                                                         *)
(* Then the handlers and the worker together, which implement Exam.  The   *)
(* two sides meet in the row of a session and are kept apart by its job.   *)
(* A session without one is left alone by the worker, and one with a job   *)
(* is sealed: its answers stay (SealedStays), so what an attempt has       *)
(* loaded is what was handed in (Works), and so is what was graded         *)
(* (Graded), however old the attempt is.  The worker does not disturb IInv.*)
(***************************************************************************)
EXTENDS InterviewScoring, FiniteSetTheorems, TLAPS

(* A handler at work has a session, and an answer its question and video. *)
Arguments ==
    \A h \in Handlers :
        /\ req[h].pc \notin {"ok", "failed"} => req[h].s \in Sessions
        /\ req[h].pc \in {"getVideo", "lockForAnswer", "commitAnswer"} =>
                req[h].q \in Questions /\ req[h].v \in Videos

(* The row lock belongs to the handler inside its transaction. *)
LockOwned ==
    \A h \in Handlers, s \in Sessions :
        rowLock[s] = h <=> req[h].pc \in InTransaction /\ req[h].s = s

(* What a transaction checked when it took the lock still holds. *)
LockedStatus ==
    \A h \in Handlers :
        /\ req[h].pc = "commitAnswer" => status[req[h].s] = "IN_PROGRESS"
        /\ req[h].pc = "commitQuestions" => status[req[h].s] = "CREATED"

(* A submission that has passed its UPDATE is the only one of its session, *)
(* and its session is no longer open.                                      *)
OneSubmission ==
    \A h \in Handlers :
        /\ req[h].pc \in {"enqueue", "enqueued", "queued"} =>
                status[req[h].s] \notin Open
        /\ req[h].pc = "enqueue" =>
                /\ sent[req[h].s] = 0
                /\ \A g \in Handlers :
                        req[g].pc = "enqueue" /\ req[g].s = req[h].s => g = h
        /\ req[h].pc \in {"enqueued", "queued"} => sent[req[h].s] = 1

(* Nothing is answered or acknowledged before the interview runs. *)
BlankBeforeStart ==
    \A s \in Sessions : status[s] \in {"ABSENT", "CREATED"} =>
        acked[s] = {} /\ answers[s] = [q \in Questions |-> None]

IInv ==
    /\ TypeOK
    /\ Arguments
    /\ LockOwned
    /\ LockedStatus
    /\ OneSubmission
    /\ BlankBeforeStart
    /\ AtMostOneJob
    /\ AckedAnswersKept
    /\ CountMatchesQuestions
-----------------------------------------------------------------------------
(* The move of one handler, and what it keeps. *)

(* A set of questions can be counted. *)
LEMMA CardinalityInNat ==
    \A set \in SUBSET Questions : Cardinality(set) \in Nat
  BY ConstantsAssumption, FS_CardinalityType, FS_Subset DEF ConstantsAssumption

(* Handler h moves to pc with arguments s, q and v; the others stay. *)
Moves(h, pc, s, q, v) ==
    /\ req' \in [Handlers -> Request]
    /\ req'[h].pc = pc
    /\ req'[h].s = s
    /\ req'[h].q = q
    /\ req'[h].v = v
    /\ \A g \in Handlers \ {h} : req'[g] = req[g]

(* A reply clears the arguments of the request. *)
LEMMA ReplyMoves ==
    ASSUME TypeOK, NEW h \in Handlers, NEW r \in Replies, Reply(h, r)
    PROVE  Moves(h, r, None, None, None)
  BY DEF TypeOK, Request, Reply, AtRestRequest, Moves

(* Goto keeps the arguments of the request. *)
LEMMA GotoMoves ==
    ASSUME TypeOK, NEW h \in Handlers, NEW pc \in Busy \cup Replies, Goto(h, pc)
    PROVE  Moves(h, pc, req[h].s, req[h].q, req[h].v)
  BY DEF TypeOK, Request, Goto, Moves

(* An accepted request has its session. *)
LEMMA AcceptMoves ==
    ASSUME TypeOK, NEW h \in Handlers, NEW pc \in Busy \cup Replies,
           NEW s \in Sessions, Accept(h, pc, s)
    PROVE  Moves(h, pc, s, None, None)
  BY DEF TypeOK, Request, Accept, AtRestRequest, Moves

(* A move with the arguments its await needs keeps Arguments. *)
LEMMA ArgumentsKept ==
    ASSUME Arguments, NEW h \in Handlers, NEW pc, NEW s, NEW q, NEW v,
           Moves(h, pc, s, q, v),
           pc \notin {"ok", "failed"} => s \in Sessions,
           pc \in {"getVideo", "lockForAnswer", "commitAnswer"} =>
                q \in Questions /\ v \in Videos
    PROVE  Arguments'
  BY DEF Arguments, Moves

(* A move outside transactions leaves the locks to their owners. *)
LEMMA LockUntouched ==
    ASSUME LockOwned, NEW h \in Handlers, NEW pc, NEW s, NEW q, NEW v,
           Moves(h, pc, s, q, v),
           req[h].pc \notin InTransaction, pc \notin InTransaction,
           rowLock' = rowLock
    PROVE  LockOwned'
  BY DEF LockOwned, Moves

(* Taking a free row lock makes the handler its owner. *)
LEMMA LockTaken ==
    ASSUME TypeOK, LockOwned, NEW h \in Handlers, NEW pc, NEW s \in Sessions,
           NEW q, NEW v, Moves(h, pc, s, q, v),
           req[h].pc \notin InTransaction, pc \in InTransaction,
           Unlocked(s), rowLock' = [rowLock EXCEPT ![s] = h]
    PROVE  LockOwned'
<1> SUFFICES ASSUME NEW g \in Handlers, NEW t \in Sessions
             PROVE  rowLock'[t] = g <=> req'[g].pc \in InTransaction /\ req'[g].s = t
  BY DEF LockOwned
<1>1. rowLock \in [Sessions -> Handlers \cup {None}] /\ None \notin Handlers
  BY ConstantsAssumption DEF ConstantsAssumption, TypeOK
<1>2. rowLock'[s] = h /\ (t # s => rowLock'[t] = rowLock[t])
  BY <1>1
<1>3. CASE g = h
  <2>1. rowLock[t] # h /\ req'[h].pc \in InTransaction /\ req'[h].s = s
    BY DEF LockOwned, Moves
  <2> QED
    BY <1>2, <1>3, <2>1
<1>4. CASE g # h
  <2>1. req'[g] = req[g] /\ rowLock[s] # g
    BY <1>1, <1>4 DEF Moves, Unlocked
  <2> QED
    BY <1>2, <1>4, <2>1 DEF LockOwned
<1> QED
  BY <1>3, <1>4

(* Leaving a transaction frees the handler's lock and no other. *)
LEMMA LockFreed ==
    ASSUME LockOwned, NEW h \in Handlers, NEW pc, NEW s, NEW q, NEW v,
           Moves(h, pc, s, q, v), pc \notin InTransaction,
           \A t \in Sessions :
                rowLock'[t] = IF rowLock[t] = h THEN None ELSE rowLock[t]
    PROVE  LockOwned'
  BY ConstantsAssumption DEF ConstantsAssumption, LockOwned, Moves

(* A row that is locked keeps its status. *)
LEMMA LockedStatusKept ==
    ASSUME Arguments, LockOwned, LockedStatus,
           NEW h \in Handlers, NEW pc, NEW s, NEW q, NEW v, Moves(h, pc, s, q, v),
           pc = "commitAnswer" => status'[s] = "IN_PROGRESS",
           pc = "commitQuestions" => status'[s] = "CREATED",
           \A t \in Sessions : status'[t] # status[t] => Unlocked(t)
    PROVE  LockedStatus'
<1> SUFFICES ASSUME NEW g \in Handlers, g # h, req[g].pc \in InTransaction
             PROVE  status'[req[g].s] = status[req[g].s]
  BY DEF Moves, LockedStatus, InTransaction
<1>1. req[g].s \in Sessions /\ rowLock[req[g].s] = g
  BY DEF Arguments, LockOwned, InTransaction
<1> QED
  BY <1>1, ConstantsAssumption DEF ConstantsAssumption, Unlocked

(* A handler without a part in a submission disturbs none. *)
LEMMA OneSubmissionKept ==
    ASSUME Arguments, OneSubmission,
           NEW h \in Handlers, NEW pc, NEW s, NEW q, NEW v, Moves(h, pc, s, q, v),
           pc \notin {"enqueue", "enqueued", "queued"}, sent' = sent,
           \A t \in Sessions : status'[t] \in Open => status[t] \in Open
    PROVE  OneSubmission'
  BY DEF Arguments, OneSubmission, Moves

-----------------------------------------------------------------------------
(* One lemma for each action: it preserves the invariant. *)

(* Creating a session preserves the invariant. *)
LEMMA CreateInterviewSessionStep ==
    ASSUME IInv, NEW h \in Handlers, NEW s \in Sessions,
           CreateInterviewSession(h, s)
    PROVE  IInv'
<1> USE DEF IInv
<1>1. PICK r \in {"ok", "failed"} : Moves(h, r, None, None, None)
  BY ReplyMoves DEF CreateInterviewSession, ReplyCommitted, Replies
<1>2. TypeOK'
  BY <1>1 DEF TypeOK, CreateInterviewSession, dbVars, Moves, Status
<1>3. Arguments'
  BY <1>1, ArgumentsKept
<1>4. LockOwned'
  BY <1>1, LockUntouched DEF CreateInterviewSession, AtRest, Replies, InTransaction
<1>5. LockedStatus'
  <2>1. Unlocked(s)
    BY DEF CreateInterviewSession, TypeOK, LockOwned, LockedStatus, InTransaction, Unlocked
  <2> QED
    BY <1>1, <2>1, LockedStatusKept DEF CreateInterviewSession, TypeOK
<1>6. OneSubmission'
  BY <1>1, OneSubmissionKept DEF CreateInterviewSession, TypeOK, Open
<1>7. BlankBeforeStart' /\ AtMostOneJob'
  BY <1>1 DEF TypeOK, CreateInterviewSession, Unlocked, dbVars, BlankBeforeStart, AtMostOneJob, Open
<1>8. AckedAnswersKept'
  BY <1>1 DEF TypeOK, CreateInterviewSession, dbVars, AckedAnswersKept
<1>9. CountMatchesQuestions'
  BY <1>1 DEF TypeOK, CreateInterviewSession, dbVars, CountMatchesQuestions, Open
<1> QED
  BY <1>1, <1>2, <1>3, <1>4, <1>5, <1>6, <1>7, <1>8, <1>9

(* A refused request preserves the invariant. *)
LEMMA RejectRequestStep ==
    ASSUME IInv, NEW h \in Handlers,
           RejectRequest(h)
    PROVE  IInv'
<1> USE DEF IInv
<1>1. Moves(h, "failed", None, None, None)
  BY ReplyMoves DEF RejectRequest, Replies
<1>2. TypeOK'
  BY <1>1 DEF TypeOK, RejectRequest, dbVars, Moves, Status
<1>3. Arguments'
  BY <1>1, ArgumentsKept
<1>4. LockOwned'
  BY <1>1, LockUntouched DEF RejectRequest, AtRest, Replies, InTransaction
<1>5. LockedStatus'
  BY <1>1, LockedStatusKept DEF RejectRequest, dbVars
<1>6. OneSubmission'
  BY <1>1, OneSubmissionKept DEF RejectRequest, dbVars
<1>7. BlankBeforeStart' /\ AtMostOneJob'
  BY <1>1 DEF TypeOK, RejectRequest, Unlocked, dbVars, BlankBeforeStart, AtMostOneJob, Open
<1>8. AckedAnswersKept'
  BY <1>1 DEF TypeOK, RejectRequest, dbVars, AckedAnswersKept
<1>9. CountMatchesQuestions'
  BY <1>1 DEF TypeOK, RejectRequest, dbVars, CountMatchesQuestions, Open
<1> QED
  BY <1>1, <1>2, <1>3, <1>4, <1>5, <1>6, <1>7, <1>8, <1>9

(* The first read of a start preserves the invariant. *)
LEMMA AuthorizeStartStep ==
    ASSUME IInv, NEW h \in Handlers, NEW s \in Sessions,
           AuthorizeStart(h, s)
    PROVE  IInv'
<1> USE DEF IInv
<1>1. Moves(h, "start", s, None, None)
  BY AcceptMoves DEF AuthorizeStart, Busy
<1>2. TypeOK'
  BY <1>1 DEF TypeOK, AuthorizeStart, dbVars, Moves, Status
<1>3. Arguments'
  BY <1>1, ArgumentsKept
<1>4. LockOwned'
  BY <1>1, LockUntouched DEF AuthorizeStart, AtRest, Replies, InTransaction
<1>5. LockedStatus'
  BY <1>1, LockedStatusKept DEF AuthorizeStart, dbVars
<1>6. OneSubmission'
  BY <1>1, OneSubmissionKept DEF AuthorizeStart, dbVars
<1>7. BlankBeforeStart' /\ AtMostOneJob'
  BY <1>1 DEF TypeOK, AuthorizeStart, Unlocked, dbVars, BlankBeforeStart, AtMostOneJob, Open
<1>8. AckedAnswersKept'
  BY <1>1 DEF TypeOK, AuthorizeStart, dbVars, AckedAnswersKept
<1>9. CountMatchesQuestions'
  BY <1>1 DEF TypeOK, AuthorizeStart, dbVars, CountMatchesQuestions, Open
<1> QED
  BY <1>1, <1>2, <1>3, <1>4, <1>5, <1>6, <1>7, <1>8, <1>9

(* Starting an interview preserves the invariant. *)
LEMMA StartInterviewSessionStep ==
    ASSUME IInv, NEW h \in Handlers,
           StartInterviewSession(h)
    PROVE  IInv'
<1> USE DEF IInv
<1>1. /\ \E r \in {"ok", "failed"} : Moves(h, r, None, None, None)
      /\ req[h].s \in Sessions
      /\ \A t \in Sessions : status'[t] # status[t] =>
            t = req[h].s /\ status[t] = "CREATED" /\ status'[t] = "IN_PROGRESS"
  BY ReplyMoves DEF StartInterviewSession, ReplyCommitted, Replies, Arguments, TypeOK
<1>2. TypeOK'
  BY <1>1 DEF TypeOK, StartInterviewSession, dbVars, Moves, Status
<1>3. Arguments'
  BY <1>1, ArgumentsKept
<1>4. LockOwned'
  BY <1>1, LockUntouched DEF StartInterviewSession, AtRest, Replies, InTransaction
<1>5. LockedStatus'
  BY <1>1, LockedStatusKept DEF StartInterviewSession
<1>6. OneSubmission'
  BY <1>1, OneSubmissionKept DEF StartInterviewSession, Open
<1>7. BlankBeforeStart' /\ AtMostOneJob'
  BY <1>1 DEF TypeOK, StartInterviewSession, Unlocked, dbVars, BlankBeforeStart, AtMostOneJob, Open
<1>8. AckedAnswersKept'
  BY <1>1 DEF TypeOK, StartInterviewSession, dbVars, AckedAnswersKept
<1>9. CountMatchesQuestions'
  BY <1>1 DEF TypeOK, StartInterviewSession, dbVars, CountMatchesQuestions, Open
<1> QED
  BY <1>1, <1>2, <1>3, <1>4, <1>5, <1>6, <1>7, <1>8, <1>9

(* The first read of a submission preserves the invariant. *)
LEMMA AuthorizeSubmitStep ==
    ASSUME IInv, NEW h \in Handlers, NEW s \in Sessions,
           AuthorizeSubmit(h, s)
    PROVE  IInv'
<1> USE DEF IInv
<1>1. PICK pc \in {"submit", "notSubmittable"} : Moves(h, pc, s, None, None)
  BY AcceptMoves DEF AuthorizeSubmit, Busy, Replies
<1>2. TypeOK'
  BY <1>1 DEF TypeOK, AuthorizeSubmit, dbVars, Moves, Status
<1>3. Arguments'
  BY <1>1, ArgumentsKept
<1>4. LockOwned'
  BY <1>1, LockUntouched DEF AuthorizeSubmit, AtRest, Replies, InTransaction
<1>5. LockedStatus'
  BY <1>1, LockedStatusKept DEF AuthorizeSubmit, dbVars
<1>6. OneSubmission'
  BY <1>1, OneSubmissionKept DEF AuthorizeSubmit, dbVars
<1>7. BlankBeforeStart' /\ AtMostOneJob'
  BY <1>1 DEF TypeOK, AuthorizeSubmit, Unlocked, dbVars, BlankBeforeStart, AtMostOneJob, Open
<1>8. AckedAnswersKept'
  BY <1>1 DEF TypeOK, AuthorizeSubmit, dbVars, AckedAnswersKept
<1>9. CountMatchesQuestions'
  BY <1>1 DEF TypeOK, AuthorizeSubmit, dbVars, CountMatchesQuestions, Open
<1> QED
  BY <1>1, <1>2, <1>3, <1>4, <1>5, <1>6, <1>7, <1>8, <1>9

(* The submission's UPDATE preserves the invariant. *)
LEMMA SubmitInterviewSessionStep ==
    ASSUME IInv, NEW h \in Handlers,
           SubmitInterviewSession(h)
    PROVE  IInv'
<1> USE DEF IInv
<1>1. req[h].s \in Sessions /\ req[h].pc = "submit" /\ Unlocked(req[h].s)
  BY DEF SubmitInterviewSession, Arguments
<1>2. CASE status[req[h].s] # "IN_PROGRESS"
  <2>1. Moves(h, "failed", None, None, None) /\ status' = status /\ totalQuestions' = totalQuestions
    BY <1>2, ReplyMoves DEF SubmitInterviewSession, Replies
  <2>2. TypeOK'
    BY <2>1 DEF TypeOK, SubmitInterviewSession, Moves
  <2>3. Arguments' /\ LockOwned' /\ LockedStatus' /\ OneSubmission'
    BY <1>1, <2>1, ArgumentsKept, LockUntouched, LockedStatusKept, OneSubmissionKept
       DEF SubmitInterviewSession, InTransaction
  <2>4. BlankBeforeStart' /\ AtMostOneJob' /\ AckedAnswersKept' /\ CountMatchesQuestions'
    BY <2>1 DEF SubmitInterviewSession, BlankBeforeStart, AtMostOneJob, AckedAnswersKept,
                CountMatchesQuestions
  <2> QED
    BY <2>2, <2>3, <2>4
<1>3. CASE status[req[h].s] = "IN_PROGRESS"
  <2>1. /\ Moves(h, "enqueue", req[h].s, req[h].q, req[h].v)
        /\ status' = [status EXCEPT ![req[h].s] = "SUBMITTED"]
        /\ \A t \in Sessions \ {req[h].s} : totalQuestions'[t] = totalQuestions[t]
    BY <1>3, GotoMoves DEF SubmitInterviewSession, Busy, TypeOK
  <2>2. TypeOK'
    <3>1. totalQuestions' \in [Sessions -> Nat]
      BY <1>1, <1>3, CardinalityInNat DEF SubmitInterviewSession, TypeOK
    <3> QED
      BY <2>1, <3>1 DEF TypeOK, SubmitInterviewSession, Moves, Status
  <2>3. Arguments' /\ LockOwned' /\ LockedStatus'
    <3>1. Arguments'
      BY <1>1, <2>1, ArgumentsKept
    <3>2. LockOwned'
      BY <1>1, <2>1, LockUntouched DEF SubmitInterviewSession, InTransaction
    <3>3. \A t \in Sessions : status'[t] # status[t] => Unlocked(t)
      BY <1>1, <2>1 DEF TypeOK
    <3>4. LockedStatus'
      BY <2>1, <3>3, LockedStatusKept
    <3> QED
      BY <3>1, <3>2, <3>4
  <2>4. OneSubmission'
    <3>1. sent[req[h].s] = 0 /\ sent' = sent
      BY <1>1, <1>3 DEF SubmitInterviewSession, AtMostOneJob, Open
    <3>2. \A g \in Handlers : req[g].pc \in {"enqueue", "enqueued", "queued"} => req[g].s # req[h].s
      BY <1>3 DEF OneSubmission, Open
    <3>3. req'[h].pc = "enqueue" /\ req'[h].s = req[h].s /\ status'[req[h].s] = "SUBMITTED"
      BY <1>1, <2>1 DEF Moves, TypeOK
    <3>4. ASSUME NEW g \in Handlers, g # h,
                 req'[g].pc \in {"enqueue", "enqueued", "queued"}
          PROVE  /\ req'[g] = req[g]
                 /\ req[g].s \in Sessions \ {req[h].s}
                 /\ status'[req[g].s] = status[req[g].s]
      <4>1. req'[g] = req[g]
        BY <2>1, <3>4 DEF Moves
      <4>2. req[g].s \in Sessions \ {req[h].s}
        BY <3>2, <3>4, <4>1 DEF Arguments
      <4> QED
        BY <1>1, <2>1, <4>1, <4>2 DEF TypeOK
    <3> HIDE DEF IInv
    <3>5. OneSubmission
      BY DEF IInv
    <3> QED
      BY <3>1, <3>3, <3>4, <3>5 DEF OneSubmission, Open
  <2>5. BlankBeforeStart' /\ AtMostOneJob' /\ AckedAnswersKept' /\ CountMatchesQuestions'
    BY <1>1, <2>1 DEF SubmitInterviewSession, TypeOK, BlankBeforeStart, AtMostOneJob, AckedAnswersKept,
                CountMatchesQuestions, Open
  <2> QED
    BY <2>2, <2>3, <2>4, <2>5
<1> QED
  BY <1>2, <1>3

(* Sending the job preserves the invariant. *)
LEMMA EnqueueScoringStep ==
    ASSUME IInv, NEW h \in Handlers,
           EnqueueScoring(h)
    PROVE  IInv'
<1> USE DEF IInv
<1>1. /\ req[h].s \in Sessions
      /\ status[req[h].s] \notin Open
      /\ sent[req[h].s] = 0
      /\ sent' = [sent EXCEPT ![req[h].s] = 1]
      /\ Moves(h, "enqueued", req[h].s, req[h].q, req[h].v)
  <2>1. Moves(h, "enqueued", req[h].s, req[h].q, req[h].v)
    BY GotoMoves DEF EnqueueScoring, Busy
  <2>2. req[h].s \in Sessions /\ status[req[h].s] \notin Open /\ sent[req[h].s] = 0
    BY DEF EnqueueScoring, Arguments, OneSubmission
  <2>3. sent' = [sent EXCEPT ![req[h].s] = 1]
    BY <2>2 DEF EnqueueScoring, TypeOK
  <2> QED
    BY <2>1, <2>2, <2>3
<1>2. TypeOK'
  BY <1>1 DEF TypeOK, EnqueueScoring, dbVars, Moves, Status
<1>3. Arguments'
  BY <1>1, ArgumentsKept
<1>4. LockOwned'
  BY <1>1, LockUntouched DEF EnqueueScoring, InTransaction
<1>5. LockedStatus'
  BY <1>1, LockedStatusKept DEF EnqueueScoring, dbVars
<1>6. OneSubmission'
  <2>1. req[h].pc = "enqueue" /\ status' = status
    BY DEF EnqueueScoring, dbVars
  <2>2. \A g \in Handlers \ {h} : req[g].pc \in {"enqueue", "enqueued", "queued"} =>
            /\ req[g].pc = "enqueue" => req[g].s # req[h].s
            /\ req[g].pc # "enqueue" => req[g].s # req[h].s
    BY <1>1, <2>1 DEF OneSubmission
  <2>3. \A g \in Handlers \ {h} : req[g].pc \in {"enqueue", "enqueued", "queued"} =>
            sent'[req[g].s] = sent[req[g].s]
    BY <1>1, <2>2 DEF Arguments, TypeOK
  <2>4. sent'[req[h].s] = 1
    BY <1>1 DEF TypeOK
  <2> QED
    BY <1>1, <2>1, <2>2, <2>3, <2>4 DEF OneSubmission, Moves
<1>7. BlankBeforeStart' /\ AtMostOneJob'
  BY <1>1 DEF TypeOK, EnqueueScoring, Unlocked, dbVars, BlankBeforeStart, AtMostOneJob, Open
<1>8. AckedAnswersKept'
  BY <1>1 DEF TypeOK, EnqueueScoring, dbVars, AckedAnswersKept
<1>9. CountMatchesQuestions'
  BY <1>1 DEF TypeOK, EnqueueScoring, dbVars, CountMatchesQuestions, Open
<1> QED
  BY <1>1, <1>2, <1>3, <1>4, <1>5, <1>6, <1>7, <1>8, <1>9

(* The 202 reply preserves the invariant. *)
LEMMA ReplyQueuedStep ==
    ASSUME IInv, NEW h \in Handlers,
           ReplyQueued(h)
    PROVE  IInv'
<1> USE DEF IInv
<1>1. /\ Moves(h, "queued", req[h].s, req[h].q, req[h].v)
      /\ req[h].s \in Sessions
  BY GotoMoves DEF ReplyQueued, Replies, Arguments
<1>2. TypeOK'
  BY <1>1 DEF TypeOK, ReplyQueued, dbVars, Moves, Status
<1>3. Arguments'
  BY <1>1, ArgumentsKept
<1>4. LockOwned'
  BY <1>1, LockUntouched DEF ReplyQueued, InTransaction
<1>5. LockedStatus'
  BY <1>1, LockedStatusKept DEF ReplyQueued, dbVars
<1>6. OneSubmission'
  BY <1>1 DEF ReplyQueued, dbVars, OneSubmission, Moves
<1>7. BlankBeforeStart' /\ AtMostOneJob'
  BY <1>1 DEF TypeOK, ReplyQueued, Unlocked, dbVars, BlankBeforeStart, AtMostOneJob, Open
<1>8. AckedAnswersKept'
  BY <1>1 DEF TypeOK, ReplyQueued, dbVars, AckedAnswersKept
<1>9. CountMatchesQuestions'
  BY <1>1 DEF TypeOK, ReplyQueued, dbVars, CountMatchesQuestions, Open
<1> QED
  BY <1>1, <1>2, <1>3, <1>4, <1>5, <1>6, <1>7, <1>8, <1>9

(* The first read of an answer preserves the invariant. *)
LEMMA AuthorizeQuestionStep ==
    ASSUME IInv, NEW h \in Handlers, NEW s \in Sessions, NEW q \in Questions, NEW v \in Videos,
           AuthorizeQuestion(h, s, q, v)
    PROVE  IInv'
<1> USE DEF IInv
<1>1. Moves(h, "getVideo", s, q, v)
  BY DEF TypeOK, Request, Busy, AuthorizeQuestion, Moves
<1>2. TypeOK'
  BY <1>1 DEF TypeOK, AuthorizeQuestion, dbVars, Moves, Status
<1>3. Arguments'
  BY <1>1, ArgumentsKept
<1>4. LockOwned'
  BY <1>1, LockUntouched DEF AuthorizeQuestion, AtRest, Replies, InTransaction
<1>5. LockedStatus'
  BY <1>1, LockedStatusKept DEF AuthorizeQuestion, dbVars
<1>6. OneSubmission'
  BY <1>1, OneSubmissionKept DEF AuthorizeQuestion, dbVars
<1>7. BlankBeforeStart' /\ AtMostOneJob'
  BY <1>1 DEF TypeOK, AuthorizeQuestion, Unlocked, dbVars, BlankBeforeStart, AtMostOneJob, Open
<1>8. AckedAnswersKept'
  BY <1>1 DEF TypeOK, AuthorizeQuestion, dbVars, AckedAnswersKept
<1>9. CountMatchesQuestions'
  BY <1>1 DEF TypeOK, AuthorizeQuestion, dbVars, CountMatchesQuestions, Open
<1> QED
  BY <1>1, <1>2, <1>3, <1>4, <1>5, <1>6, <1>7, <1>8, <1>9

(* The look at the video preserves the invariant. *)
LEMMA GetVideoStep ==
    ASSUME IInv, NEW h \in Handlers,
           GetVideo(h)
    PROVE  IInv'
<1> USE DEF IInv
<1>1. /\ req[h].s \in Sessions
      /\ \/ Moves(h, "lockForAnswer", req[h].s, req[h].q, req[h].v)
         \/ Moves(h, "failed", None, None, None)
  BY GotoMoves, ReplyMoves DEF GetVideo, Busy, Replies, Arguments
<1>2. TypeOK'
  BY <1>1 DEF TypeOK, GetVideo, dbVars, Moves, Status
<1>3. Arguments'
  BY <1>1, ArgumentsKept DEF GetVideo, Arguments
<1>4. LockOwned'
  BY <1>1, LockUntouched DEF GetVideo, InTransaction
<1>5. LockedStatus'
  BY <1>1, LockedStatusKept DEF GetVideo, dbVars
<1>6. OneSubmission'
  BY <1>1, OneSubmissionKept DEF GetVideo, dbVars
<1>7. BlankBeforeStart' /\ AtMostOneJob'
  BY <1>1 DEF TypeOK, GetVideo, Unlocked, dbVars, BlankBeforeStart, AtMostOneJob, Open
<1>8. AckedAnswersKept'
  BY <1>1 DEF TypeOK, GetVideo, dbVars, AckedAnswersKept
<1>9. CountMatchesQuestions'
  BY <1>1 DEF TypeOK, GetVideo, dbVars, CountMatchesQuestions, Open
<1> QED
  BY <1>1, <1>2, <1>3, <1>4, <1>5, <1>6, <1>7, <1>8, <1>9

(* Locking the row for an answer preserves the invariant. *)
LEMMA LockForAnswerStep ==
    ASSUME IInv, NEW h \in Handlers,
           LockForAnswer(h)
    PROVE  IInv'
<1> USE DEF IInv
<1>1. /\ req[h].s \in Sessions
      /\ Unlocked(req[h].s)
      /\ req[h].pc \notin InTransaction
      /\ \/ /\ Moves(h, "commitAnswer", req[h].s, req[h].q, req[h].v)
            /\ status[req[h].s] = "IN_PROGRESS"
            /\ rowLock' = [rowLock EXCEPT ![req[h].s] = h]
         \/ Moves(h, "failed", None, None, None) /\ rowLock' = rowLock
  BY GotoMoves, ReplyMoves DEF LockForAnswer, Busy, Replies, Arguments, InTransaction
<1>2. TypeOK'
  BY <1>1 DEF TypeOK, LockForAnswer, dbVars, Moves, Status
<1>3. Arguments'
  BY <1>1, ArgumentsKept DEF LockForAnswer, Arguments
<1>4. LockOwned'
  BY <1>1, LockUntouched, LockTaken DEF InTransaction
<1>5. LockedStatus'
  BY <1>1, LockedStatusKept DEF LockForAnswer, dbVars
<1>6. OneSubmission'
  BY <1>1, OneSubmissionKept DEF LockForAnswer, dbVars
<1>7. BlankBeforeStart' /\ AtMostOneJob'
  BY <1>1 DEF TypeOK, LockForAnswer, Unlocked, dbVars, BlankBeforeStart, AtMostOneJob, Open
<1>8. AckedAnswersKept'
  BY <1>1 DEF TypeOK, LockForAnswer, dbVars, AckedAnswersKept
<1>9. CountMatchesQuestions'
  BY <1>1 DEF TypeOK, LockForAnswer, dbVars, CountMatchesQuestions, Open
<1> QED
  BY <1>1, <1>2, <1>3, <1>4, <1>5, <1>6, <1>7, <1>8, <1>9

(* Saving an answer preserves the invariant. *)
LEMMA SaveAnswerStep ==
    ASSUME IInv, NEW h \in Handlers,
           SaveAnswer(h)
    PROVE  IInv'
<1> USE DEF IInv
<1>1. /\ req[h].s \in Sessions /\ req[h].q \in Questions /\ req[h].v \in Videos
      /\ status[req[h].s] = "IN_PROGRESS"
      /\ \E r \in {"ok", "failed"} : Moves(h, r, None, None, None)
  BY ReplyMoves DEF SaveAnswer, ReplyCommitted, Replies, Arguments, LockedStatus
<1>2. /\ answers' \in [Sessions -> [Questions -> Videos \cup {None}]]
      /\ acked' \in [Sessions -> SUBSET Questions]
      /\ \A t \in Sessions : t # req[h].s => acked'[t] = acked[t] /\ answers'[t] = answers[t]
      /\ \A q \in acked'[req[h].s] \ acked[req[h].s] :
            /\ q = req[h].q
            /\ q \in questions[req[h].s]
            /\ answers'[req[h].s][q] = req[h].v
      /\ \A q \in Questions :
            answers'[req[h].s][q] \in {answers[req[h].s][q], req[h].v}
  <2>1. CASE req[h].q \in questions[req[h].s]
    <3>1. answers' = [answers EXCEPT ![req[h].s] =
                        [answers[req[h].s] EXCEPT ![req[h].q] = req[h].v]]
      BY <1>1, <2>1 DEF SaveAnswer, TypeOK
    <3>2. \/ acked' = [acked EXCEPT ![req[h].s] = acked[req[h].s] \cup {req[h].q}]
          \/ acked' = acked
      BY <1>1, <2>1 DEF SaveAnswer, TypeOK
    <3>3. /\ answers \in [Sessions -> [Questions -> Videos \cup {None}]]
          /\ acked \in [Sessions -> SUBSET Questions]
      BY DEF TypeOK
    <3>4. /\ answers' \in [Sessions -> [Questions -> Videos \cup {None}]]
          /\ \A t \in Sessions : t # req[h].s => answers'[t] = answers[t]
          /\ answers'[req[h].s][req[h].q] = req[h].v
          /\ \A q \in Questions : q # req[h].q =>
                answers'[req[h].s][q] = answers[req[h].s][q]
      BY <1>1, <3>1, <3>3
    <3>5. /\ acked' \in [Sessions -> SUBSET Questions]
          /\ \A t \in Sessions : t # req[h].s => acked'[t] = acked[t]
          /\ \A q \in acked'[req[h].s] : q \in acked[req[h].s] \/ q = req[h].q
      BY <1>1, <3>2, <3>3
    <3> QED
      BY <2>1, <3>4, <3>5
  <2>2. CASE req[h].q \notin questions[req[h].s]
    <3>1. answers' = answers /\ acked' = acked
      BY <2>2 DEF SaveAnswer
    <3>2. /\ answers \in [Sessions -> [Questions -> Videos \cup {None}]]
          /\ acked \in [Sessions -> SUBSET Questions]
      BY DEF TypeOK
    <3> QED
      BY <3>1, <3>2
  <2> QED
    BY <2>1, <2>2
<1>3. TypeOK'
  BY <1>1, <1>2 DEF TypeOK, SaveAnswer, Moves
<1>4. Arguments'
  BY <1>1, ArgumentsKept
<1>5. LockOwned'
  <2>1. \A t \in Sessions : rowLock'[t] = IF rowLock[t] = h THEN None ELSE rowLock[t]
    BY <1>1 DEF SaveAnswer, LockOwned, InTransaction, TypeOK
  <2> QED
    BY <1>1, <2>1, LockFreed DEF InTransaction
<1>6. LockedStatus' /\ OneSubmission'
  BY <1>1, LockedStatusKept, OneSubmissionKept DEF SaveAnswer
<1>7. BlankBeforeStart' /\ AtMostOneJob'
  BY <1>1, <1>2 DEF TypeOK, SaveAnswer, BlankBeforeStart, AtMostOneJob
<1>8. AckedAnswersKept'
  BY <1>1, <1>2, ConstantsAssumption DEF ConstantsAssumption, TypeOK, SaveAnswer, AckedAnswersKept
<1>9. CountMatchesQuestions'
  BY DEF SaveAnswer, CountMatchesQuestions
<1> QED
  BY <1>1, <1>2, <1>3, <1>4, <1>5, <1>6, <1>7, <1>8, <1>9

(* The first read of a generation preserves the invariant. *)
LEMMA GetGenerationContextStep ==
    ASSUME IInv, NEW h \in Handlers, NEW s \in Sessions,
           GetGenerationContext(h, s)
    PROVE  IInv'
<1> USE DEF IInv
<1>1. Moves(h, "generate", s, None, None)
  BY AcceptMoves DEF GetGenerationContext, Busy
<1>2. TypeOK'
  BY <1>1 DEF TypeOK, GetGenerationContext, dbVars, Moves, Status
<1>3. Arguments'
  BY <1>1, ArgumentsKept
<1>4. LockOwned'
  BY <1>1, LockUntouched DEF GetGenerationContext, AtRest, Replies, InTransaction
<1>5. LockedStatus'
  BY <1>1, LockedStatusKept DEF GetGenerationContext, dbVars
<1>6. OneSubmission'
  BY <1>1, OneSubmissionKept DEF GetGenerationContext, dbVars
<1>7. BlankBeforeStart' /\ AtMostOneJob'
  BY <1>1 DEF TypeOK, GetGenerationContext, Unlocked, dbVars, BlankBeforeStart, AtMostOneJob, Open
<1>8. AckedAnswersKept'
  BY <1>1 DEF TypeOK, GetGenerationContext, dbVars, AckedAnswersKept
<1>9. CountMatchesQuestions'
  BY <1>1 DEF TypeOK, GetGenerationContext, dbVars, CountMatchesQuestions, Open
<1> QED
  BY <1>1, <1>2, <1>3, <1>4, <1>5, <1>6, <1>7, <1>8, <1>9

(* The generation preserves the invariant. *)
LEMMA GenerateQuestionsStep ==
    ASSUME IInv, NEW h \in Handlers,
           GenerateQuestions(h)
    PROVE  IInv'
<1> USE DEF IInv
<1>1. /\ Moves(h, "lockForQuestions", req[h].s, req[h].q, req[h].v)
      /\ req[h].s \in Sessions
  <2>1. PICK set \in SUBSET Questions :
            req' = [req EXCEPT ![h].pc = "lockForQuestions", ![h].set = set]
    BY DEF GenerateQuestions
  <2>2. req[h] \in Request
    BY DEF TypeOK
  <2>3. [req[h] EXCEPT !.pc = "lockForQuestions", !.set = set] \in Request
    BY <2>2 DEF Request, Busy
  <2> QED
    BY <2>1, <2>2, <2>3 DEF TypeOK, Request, Moves, Arguments, GenerateQuestions
<1>2. TypeOK'
  BY <1>1 DEF TypeOK, GenerateQuestions, dbVars, Moves, Status
<1>3. Arguments'
  BY <1>1, ArgumentsKept
<1>4. LockOwned'
  BY <1>1, LockUntouched DEF GenerateQuestions, InTransaction
<1>5. LockedStatus'
  BY <1>1, LockedStatusKept DEF GenerateQuestions, dbVars
<1>6. OneSubmission'
  BY <1>1, OneSubmissionKept DEF GenerateQuestions, dbVars
<1>7. BlankBeforeStart' /\ AtMostOneJob'
  BY <1>1 DEF TypeOK, GenerateQuestions, Unlocked, dbVars, BlankBeforeStart, AtMostOneJob, Open
<1>8. AckedAnswersKept'
  BY <1>1 DEF TypeOK, GenerateQuestions, dbVars, AckedAnswersKept
<1>9. CountMatchesQuestions'
  BY <1>1 DEF TypeOK, GenerateQuestions, dbVars, CountMatchesQuestions, Open
<1> QED
  BY <1>1, <1>2, <1>3, <1>4, <1>5, <1>6, <1>7, <1>8, <1>9

(* Locking the row for questions preserves the invariant. *)
LEMMA LockForQuestionsStep ==
    ASSUME IInv, NEW h \in Handlers,
           LockForQuestions(h)
    PROVE  IInv'
<1> USE DEF IInv
<1>1. /\ req[h].s \in Sessions
      /\ Unlocked(req[h].s)
      /\ req[h].pc \notin InTransaction
      /\ \/ /\ Moves(h, "commitQuestions", req[h].s, req[h].q, req[h].v)
            /\ status[req[h].s] = "CREATED"
            /\ rowLock' = [rowLock EXCEPT ![req[h].s] = h]
         \/ Moves(h, "failed", None, None, None) /\ rowLock' = rowLock
  BY GotoMoves, ReplyMoves DEF LockForQuestions, Busy, Replies, Arguments, InTransaction
<1>2. TypeOK'
  BY <1>1 DEF TypeOK, LockForQuestions, dbVars, Moves, Status
<1>3. Arguments'
  BY <1>1, ArgumentsKept DEF LockForQuestions, Arguments
<1>4. LockOwned'
  BY <1>1, LockUntouched, LockTaken DEF InTransaction
<1>5. LockedStatus'
  BY <1>1, LockedStatusKept DEF LockForQuestions, dbVars
<1>6. OneSubmission'
  BY <1>1, OneSubmissionKept DEF LockForQuestions, dbVars
<1>7. BlankBeforeStart' /\ AtMostOneJob'
  BY <1>1 DEF TypeOK, LockForQuestions, Unlocked, dbVars, BlankBeforeStart, AtMostOneJob, Open
<1>8. AckedAnswersKept'
  BY <1>1 DEF TypeOK, LockForQuestions, dbVars, AckedAnswersKept
<1>9. CountMatchesQuestions'
  BY <1>1 DEF TypeOK, LockForQuestions, dbVars, CountMatchesQuestions, Open
<1> QED
  BY <1>1, <1>2, <1>3, <1>4, <1>5, <1>6, <1>7, <1>8, <1>9

(* Replacing the questions preserves the invariant. *)
LEMMA ReplaceQuestionsStep ==
    ASSUME IInv, NEW h \in Handlers,
           ReplaceQuestions(h)
    PROVE  IInv'
<1> USE DEF IInv
<1>1. /\ req[h].s \in Sessions
      /\ status[req[h].s] = "CREATED"
      /\ req[h].set \in SUBSET Questions
      /\ \E r \in {"ok", "failed"} : Moves(h, r, None, None, None)
  BY ReplyMoves DEF ReplaceQuestions, ReplyCommitted, Replies, Arguments, LockedStatus, TypeOK, Request
<1>2. TypeOK'
  BY <1>1, CardinalityInNat DEF TypeOK, ReplaceQuestions, Moves
<1>3. Arguments'
  BY <1>1, ArgumentsKept
<1>4. LockOwned'
  <2>1. \A t \in Sessions : rowLock'[t] = IF rowLock[t] = h THEN None ELSE rowLock[t]
    BY <1>1 DEF ReplaceQuestions, LockOwned, InTransaction, TypeOK
  <2> QED
    BY <1>1, <2>1, LockFreed DEF InTransaction
<1>5. LockedStatus'
  BY <1>1, LockedStatusKept DEF ReplaceQuestions, dbVars
<1>6. OneSubmission'
  BY <1>1, OneSubmissionKept DEF ReplaceQuestions, dbVars
<1>7. BlankBeforeStart' /\ AtMostOneJob'
  BY DEF ReplaceQuestions, BlankBeforeStart, AtMostOneJob
<1>8. AckedAnswersKept'
  BY <1>1 DEF TypeOK, ReplaceQuestions, AckedAnswersKept, BlankBeforeStart
<1>9. CountMatchesQuestions'
  BY <1>1 DEF TypeOK, ReplaceQuestions, CountMatchesQuestions
<1> QED
  BY <1>1, <1>2, <1>3, <1>4, <1>5, <1>6, <1>7, <1>8, <1>9

(* A failure preserves the invariant. *)
LEMMA AbortStep ==
    ASSUME IInv, NEW h \in Handlers,
           Abort(h)
    PROVE  IInv'
<1> USE DEF IInv
<1>1. Moves(h, "failed", None, None, None)
  BY ReplyMoves DEF Abort, Replies
<1>2. TypeOK'
  BY <1>1 DEF TypeOK, Abort, dbVars, Moves, Status
<1>3. Arguments'
  BY <1>1, ArgumentsKept
<1>4. LockOwned'
  BY <1>1, LockFreed DEF Abort, InTransaction
<1>5. LockedStatus'
  BY <1>1, LockedStatusKept DEF Abort, dbVars
<1>6. OneSubmission'
  BY <1>1, OneSubmissionKept DEF Abort, dbVars
<1>7. BlankBeforeStart' /\ AtMostOneJob'
  BY <1>1 DEF TypeOK, Abort, Unlocked, dbVars, BlankBeforeStart, AtMostOneJob, Open
<1>8. AckedAnswersKept'
  BY <1>1 DEF TypeOK, Abort, dbVars, AckedAnswersKept
<1>9. CountMatchesQuestions'
  BY <1>1 DEF TypeOK, Abort, dbVars, CountMatchesQuestions, Open
<1> QED
  BY <1>1, <1>2, <1>3, <1>4, <1>5, <1>6, <1>7, <1>8, <1>9

-----------------------------------------------------------------------------
(* The theorems. *)

(* The initial states satisfy the invariant. *)
LEMMA InitInvariant == Init => IInv
<1> SUFFICES ASSUME Init PROVE IInv
  OBVIOUS
<1> USE DEF Init
<1>1. TypeOK
  BY DEF TypeOK, Request, AtRestRequest, Busy, Replies, Status
<1>2. Arguments /\ OneSubmission /\ LockedStatus
  BY DEF Arguments, OneSubmission, LockedStatus, AtRestRequest
<1>3. LockOwned
  BY ConstantsAssumption DEF ConstantsAssumption, LockOwned, AtRestRequest, InTransaction
<1>4. BlankBeforeStart /\ AtMostOneJob /\ AckedAnswersKept
  BY DEF BlankBeforeStart, AtMostOneJob, AckedAnswersKept
<1>5. CountMatchesQuestions
  BY FS_EmptySet DEF CountMatchesQuestions
<1> QED
  BY <1>1, <1>2, <1>3, <1>4, <1>5 DEF IInv

(* Every step preserves the invariant. *)
LEMMA NextInvariant == IInv /\ [Next]_vars => IInv'
<1> SUFFICES ASSUME IInv, [Next]_vars PROVE IInv'
  OBVIOUS
<1>1. ASSUME NEW h \in Handlers, NEW s \in Sessions, Arrive(h, s) PROVE IInv'
  BY <1>1, CreateInterviewSessionStep, AuthorizeStartStep, AuthorizeSubmitStep,
     AuthorizeQuestionStep, GetGenerationContextStep DEF Arrive
<1>2. ASSUME NEW h \in Handlers, Continue(h) PROVE IInv'
  BY <1>2, StartInterviewSessionStep, SubmitInterviewSessionStep, EnqueueScoringStep,
     ReplyQueuedStep, GetVideoStep, LockForAnswerStep, SaveAnswerStep,
     GenerateQuestionsStep, LockForQuestionsStep, ReplaceQuestionsStep DEF Continue
<1>3. CASE UNCHANGED vars
  BY <1>3 DEF vars, IInv, TypeOK, Arguments, LockOwned, LockedStatus, OneSubmission,
     BlankBeforeStart, AtMostOneJob, AckedAnswersKept, CountMatchesQuestions
<1> QED
  BY <1>1, <1>2, <1>3, RejectRequestStep, AbortStep DEF Next

(* The inductive invariant holds in every reachable state. *)
THEOREM Invariant == Spec => []IInv
  BY InitInvariant, NextInvariant, PTL DEF Spec

(* Type correctness, for every size of the system. *)
THEOREM TypeCorrect == Spec => []TypeOK
<1>1. IInv => TypeOK
  BY DEF IInv
<1> QED
  BY <1>1, Invariant, PTL

(* Racing, failing and retried submissions send at most one scoring job    *)
(* per session, and only once it is handed in.                             *)
THEOREM OneJob == Spec => []AtMostOneJob
<1>1. IInv => AtMostOneJob
  BY DEF IInv
<1> QED
  BY <1>1, Invariant, PTL

(* A 202 answer to a submission implies its job is in the queue. *)
THEOREM QueuedMeansSent == Spec => []AckedSubmitHasJob
<1>1. IInv => AckedSubmitHasJob
  BY DEF IInv, OneSubmission, AckedSubmitHasJob
<1> QED
  BY <1>1, Invariant, PTL

(* No acknowledged answer is lost. *)
THEOREM AckedKept == Spec => []AckedAnswersKept
<1>1. IInv => AckedAnswersKept
  BY DEF IInv
<1> QED
  BY <1>1, Invariant, PTL

(* Until submission total_questions counts the stored questions. *)
THEOREM CountMatches == Spec => []CountMatchesQuestions
<1>1. IInv => CountMatchesQuestions
  BY DEF IInv
<1> QED
  BY <1>1, Invariant, PTL

(* No answer is written before the interview runs or after its submission: *)
(* the transaction that writes one holds the row since it read the status. *)
THEOREM AnswersInProgress == Spec => AnswersChangeOnlyInProgress
<1> DEFINE A == \A s \in Sessions : answers'[s] # answers[s] =>
                    status[s] = "IN_PROGRESS" /\ status'[s] = "IN_PROGRESS"
<1>1. ASSUME IInv, Next PROVE A
  <2>1. PICK h \in Handlers :
            (\E s \in Sessions : Arrive(h, s)) \/ RejectRequest(h) \/ Continue(h) \/ Abort(h)
    BY <1>1 DEF Next
  <2>2. CASE SaveAnswer(h)
    BY <1>1, <2>2 DEF IInv, LockedStatus, SaveAnswer, TypeOK
  <2>3. CASE ReplaceQuestions(h)
    BY <1>1, <2>3 DEF IInv, LockedStatus, BlankBeforeStart, ReplaceQuestions, TypeOK
  <2>4. CASE ~SaveAnswer(h) /\ ~ReplaceQuestions(h)
    <3>1. answers' = answers
      BY <2>1, <2>4 DEF Arrive, Continue, RejectRequest, Abort, CreateInterviewSession,
         AuthorizeStart, AuthorizeSubmit, AuthorizeQuestion, GetGenerationContext,
         StartInterviewSession, SubmitInterviewSession, EnqueueScoring, ReplyQueued,
         GetVideo, LockForAnswer, GenerateQuestions, LockForQuestions, dbVars
    <3> QED
      BY <3>1
  <2> QED
    BY <2>2, <2>3, <2>4
<1>2. IInv /\ [Next]_vars => [A]_vars
  BY <1>1
<1> QED
  BY <1>2, Invariant, PTL DEF Spec, AnswersChangeOnlyInProgress

(* A running or finished interview keeps its questions. *)
THEOREM QuestionsFrozen == Spec => QuestionsFrozenOnceStarted
<1> DEFINE A == \A s \in Sessions : questions'[s] # questions[s] =>
                    status[s] = "CREATED" /\ status'[s] = "CREATED"
<1>1. ASSUME IInv, Next PROVE A
  <2>1. PICK h \in Handlers :
            (\E s \in Sessions : Arrive(h, s)) \/ RejectRequest(h) \/ Continue(h) \/ Abort(h)
    BY <1>1 DEF Next
  <2>2. CASE ReplaceQuestions(h)
    BY <1>1, <2>2 DEF IInv, LockedStatus, ReplaceQuestions, TypeOK
  <2>3. CASE ~ReplaceQuestions(h)
    <3>1. questions' = questions
      BY <2>1, <2>3 DEF Arrive, Continue, RejectRequest, Abort, CreateInterviewSession,
         AuthorizeStart, AuthorizeSubmit, AuthorizeQuestion, GetGenerationContext,
         StartInterviewSession, SubmitInterviewSession, EnqueueScoring, ReplyQueued,
         GetVideo, LockForAnswer, SaveAnswer, GenerateQuestions, LockForQuestions, dbVars
    <3> QED
      BY <3>1
  <2> QED
    BY <2>2, <2>3
<1>2. IInv /\ [Next]_vars => [A]_vars
  BY <1>1
<1> QED
  BY <1>2, Invariant, PTL DEF Spec, QuestionsFrozenOnceStarted

-----------------------------------------------------------------------------
(***************************************************************************)
(* The handlers and the worker together.                                   *)
(***************************************************************************)
AnAttempt == [pc : Scoring!Running \cup {"idle"}, s : Sessions \cup {None},
              retryCount : Nat, sheet : Sheets \cup {None}, grade : Grades \cup {None},
              fatal : BOOLEAN]

WorkerTypes ==
    /\ job \in [Sessions -> [state : Scoring!JobStates, retries : Nat]]
    /\ att \in [Attempts -> AnAttempt]
    /\ score \in [Sessions -> Scoring!Result \cup {None}]

(* An attempt works on a job that was sent, with the answers as they are.  *)
Works ==
    \A a \in Attempts :
        /\ att[a].pc = "idle" => att[a].s = None
        /\ att[a].pc # "idle" => att[a].s \in Sessions /\ sent[att[a].s] > 0
        /\ att[a].pc \in {"markScoring", "evaluate", "save"} =>
                att[a].sheet = answers[att[a].s]
        /\ att[a].pc = "save" => att[a].grade \in Grades

(* A grade is one of the answers as they are. *)
Graded ==
    \A s \in Sessions : score[s] # None => sent[s] > 0 /\ score[s].sheet = answers[s]

SysInv == IInv /\ WorkerTypes /\ Works /\ Graded

-----------------------------------------------------------------------------
(* The invariant holds at the start. *)
LEMMA SystemInitInv == SystemInit => SysInv
<1> SUFFICES ASSUME SystemInit PROVE SysInv
    OBVIOUS
<1>1. IInv
    BY InitInvariant DEF SystemInit
<1>2. WorkerTypes
    BY DEF SystemInit, Scoring!ScoringInit, WorkerTypes, AnAttempt, Scoring!Idle,
       Scoring!Running, Scoring!JobStates
<1>3. Works /\ Graded
    BY DEF SystemInit, Scoring!ScoringInit, Works, Graded, Scoring!Idle
<1> QED
    BY <1>1, <1>2, <1>3 DEF SysInv

(* A session with a job is sealed and its row free. *)
LEMMA Sealed ==
    ASSUME IInv, NEW s \in Sessions, sent[s] > 0
    PROVE  status[s] \notin Open /\ rowLock[s] = None
<1>1. status[s] \notin Open
    BY DEF IInv, AtMostOneJob
<1>2. ASSUME NEW h \in Handlers, rowLock[s] = h PROVE FALSE
    <2>1. req[h].pc \in InTransaction /\ req[h].s = s
        BY <1>2 DEF IInv, LockOwned
    <2> QED
        BY <1>1, <2>1 DEF IInv, LockedStatus, InTransaction, Open
<1>3. rowLock[s] \in Handlers \cup {None}
    BY DEF IInv, TypeOK
<1> QED
    BY <1>1, <1>2, <1>3

(* A step of the handlers leaves the answers alone but for a save while    *)
(* the interview runs.                                                     *)
LEMMA AnswersStep ==
    ASSUME IInv, Next
    PROVE  \/ answers' = answers
           \/ \E h \in Handlers : SaveAnswer(h)
<1>1. PICK h \in Handlers :
        (\E s \in Sessions : Arrive(h, s)) \/ RejectRequest(h) \/ Continue(h) \/ Abort(h)
    BY DEF Next
<1>2. CASE ReplaceQuestions(h)
    <2>1. req[h].s \in Sessions /\ status[req[h].s] = "CREATED"
        BY <1>2 DEF IInv, Arguments, LockedStatus, ReplaceQuestions
    <2>2. answers[req[h].s] = [q \in Questions |-> None]
        BY <2>1 DEF IInv, BlankBeforeStart
    <2>3. answers \in [Sessions -> [Questions -> Videos \cup {None}]]
        BY DEF IInv, TypeOK
    <2>4. answers' = [answers EXCEPT ![req[h].s] = [q \in Questions |-> None]]
        BY <1>2 DEF ReplaceQuestions
    <2> QED
        BY <2>1, <2>2, <2>3, <2>4
<1> QED
    BY <1>1, <1>2 DEF Arrive, Continue, RejectRequest, Abort, CreateInterviewSession,
       AuthorizeStart, AuthorizeSubmit, AuthorizeQuestion, GetGenerationContext,
       StartInterviewSession, SubmitInterviewSession, EnqueueScoring, ReplyQueued,
       GetVideo, LockForAnswer, GenerateQuestions, LockForQuestions, dbVars

(* A save happens in a running interview and is of one answer. *)
LEMMA SaveStep ==
    ASSUME IInv, NEW h \in Handlers, SaveAnswer(h)
    PROVE  /\ req[h].s \in Sessions
           /\ status[req[h].s] = "IN_PROGRESS"
           /\ status' = status
           /\ \/ answers' = answers
              \/ \E x \in Sheets : answers' = [answers EXCEPT ![req[h].s] = x]
<1>1. req[h].s \in Sessions /\ req[h].q \in Questions /\ req[h].v \in Videos
    BY DEF IInv, Arguments, SaveAnswer
<1>2. status[req[h].s] = "IN_PROGRESS" /\ status' = status
    BY DEF IInv, LockedStatus, SaveAnswer
<1>3. CASE answers' = [answers EXCEPT ![req[h].s][req[h].q] = req[h].v]
    <2> DEFINE x == [answers[req[h].s] EXCEPT ![req[h].q] = req[h].v]
    <2>1. answers[req[h].s] \in [Questions -> Videos \cup {None}]
        BY <1>1 DEF IInv, TypeOK
    <2>2. x \in Sheets
        BY <1>1, <2>1 DEF Sheets
    <2>3. answers' = [answers EXCEPT ![req[h].s] = x]
        BY <1>3
    <2> QED
        BY <1>1, <1>2, <2>2, <2>3
<1> QED
    BY <1>1, <1>2, <1>3 DEF SaveAnswer

(* What has a job keeps it and its answers. *)
LEMMA SealedStays ==
    ASSUME IInv, [Next]_vars, NEW s \in Sessions, sent[s] > 0
    PROVE  sent'[s] > 0 /\ answers'[s] = answers[s]
<1>1. status[s] \notin Open
    BY Sealed
<1>2. answers'[s] = answers[s]
    <2>1. ASSUME NEW h \in Handlers, SaveAnswer(h) PROVE answers'[s] = answers[s]
        <3>1. req[h].s # s
            BY <1>1, <2>1, SaveStep DEF Open
        <3>2. answers \in [Sessions -> [Questions -> Videos \cup {None}]]
            BY DEF IInv, TypeOK
        <3> QED
            BY <2>1, <3>1, <3>2, SaveStep
    <2> QED
        BY <2>1, AnswersStep DEF vars
<1>3. sent'[s] > 0
    <2>1. ASSUME NEW h \in Handlers, EnqueueScoring(h) PROVE sent'[s] > 0
        BY <2>1 DEF EnqueueScoring, IInv, TypeOK
    <2>2. CASE UNCHANGED vars
        BY <2>2 DEF vars
    <2>3. CASE Next
        <3>1. PICK h \in Handlers :
                (\E t \in Sessions : Arrive(h, t)) \/ RejectRequest(h) \/ Continue(h) \/ Abort(h)
            BY <2>3 DEF Next
        <3>2. sent' = sent \/ EnqueueScoring(h)
            BY <3>1 DEF Arrive, Continue, RejectRequest, Abort, CreateInterviewSession,
               AuthorizeStart, AuthorizeSubmit, AuthorizeQuestion, GetGenerationContext,
               StartInterviewSession, SubmitInterviewSession, ReplyQueued, GetVideo,
               LockForAnswer, SaveAnswer, GenerateQuestions, LockForQuestions,
               ReplaceQuestions
        <3> QED
            BY <2>1, <3>2
    <2> QED
        BY <2>2, <2>3
<1> QED
    BY <1>2, <1>3

(* A step of the handlers preserves the invariant. *)
LEMMA HandlersStep ==
    ASSUME SysInv, [Next]_vars, UNCHANGED scoringVars
    PROVE  SysInv'
<1> USE DEF SysInv, scoringVars
<1>1. IInv'
    BY NextInvariant
<1>2. WorkerTypes'
    BY DEF WorkerTypes
<1>3. Works'
    BY SealedStays DEF Works
<1>4. Graded'
    BY SealedStays DEF Graded
<1> QED
    BY <1>1, <1>2, <1>3, <1>4

-----------------------------------------------------------------------------
(* What any step of the worker does to the rows of the interview. *)
WorkerMoves ==
    /\ UNCHANGED <<interviewVars, answers, sent>>
    /\ \/ UNCHANGED status
       \/ \E s \in Sessions, st \in {"SCORING", "COMPLETED", "FAILED"} :
            sent[s] > 0 /\ status' = [status EXCEPT ![s] = st]

(* It disturbs no handler. *)
LEMMA HandlersUndisturbed ==
    ASSUME IInv, WorkerMoves
    PROVE  /\ IInv'
           /\ \A s \in Sessions : status'[s] # status[s] =>
                status[s] \notin Open /\ status'[s] \notin Open
<1>1. \A s \in Sessions : status'[s] # status[s] =>
            status[s] \notin Open /\ status'[s] \notin Open
    BY Sealed DEF WorkerMoves, IInv, TypeOK, Open
<1>2. status' \in [Sessions -> Status]
    BY DEF WorkerMoves, IInv, TypeOK, Status
<1> USE DEF IInv, WorkerMoves, interviewVars
<1>3. TypeOK'
    BY <1>2 DEF TypeOK
<1>4. Arguments' /\ LockOwned'
    BY DEF Arguments, LockOwned
<1>5. LockedStatus'
    BY <1>1 DEF LockedStatus, Arguments, Open
<1>6. OneSubmission'
    BY <1>1 DEF OneSubmission, Arguments
<1>7. BlankBeforeStart'
    BY <1>1 DEF BlankBeforeStart, Open
<1>8. AtMostOneJob' /\ AckedAnswersKept' /\ CountMatchesQuestions'
    BY <1>1 DEF AtMostOneJob, AckedAnswersKept, CountMatchesQuestions
<1> QED
    BY <1>1, <1>3, <1>4, <1>5, <1>6, <1>7, <1>8

(* An attempt that only goes from one await to another. *)
LEMMA AttemptGoes ==
    ASSUME WorkerTypes, Works, NEW a \in Attempts, att[a].pc # "idle",
           NEW pc \in {"evaluate", "catch", "reportDone", "reportError"},
           att' = [att EXCEPT ![a].pc = pc], UNCHANGED <<answers, sent>>,
           pc = "evaluate" => att[a].sheet = answers[att[a].s]
    PROVE  att' \in [Attempts -> AnAttempt] /\ Works'
<1> DEFINE r == [att[a] EXCEPT !.pc = pc]
<1>1. att \in [Attempts -> AnAttempt] /\ att[a] \in AnAttempt
    BY DEF WorkerTypes
<1>2. r \in AnAttempt /\ r.pc = pc /\ r.s = att[a].s /\ r.sheet = att[a].sheet
    BY <1>1 DEF AnAttempt, Scoring!Running
<1>3. att' = [att EXCEPT ![a] = r]
    OBVIOUS
<1> HIDE DEF r
<1>4. att' \in [Attempts -> AnAttempt]
    BY <1>1, <1>2, <1>3
<1>5. \A b \in Attempts : att'[b] = IF b = a THEN r ELSE att[b]
    BY <1>1, <1>3
<1>6. att[a].s \in Sessions /\ sent[att[a].s] > 0
    BY DEF Works
<1>7. Works'
    BY <1>2, <1>5, <1>6 DEF Works
<1> QED
    BY <1>4, <1>7

(* A step of the worker, on its own rows and on those it shares. *)
LEMMA WorkerStep ==
    ASSUME SysInv, Scoring!WorkerNext, UNCHANGED interviewVars
    PROVE  /\ WorkerMoves
           /\ WorkerTypes' /\ Works' /\ Graded'
           /\ \/ score' = score
              \/ \E s \in Sessions, g \in Grades :
                    /\ sent[s] > 0
                    /\ score' = [score EXCEPT ![s] = [sheet |-> answers[s], grade |-> g]]
                    /\ status' = [status EXCEPT ![s] = "COMPLETED"]
<1> DEFINE Good == /\ WorkerMoves
                   /\ WorkerTypes' /\ Works' /\ Graded'
                   /\ \/ score' = score
                      \/ \E s \in Sessions, g \in Grades :
                            /\ sent[s] > 0
                            /\ score' = [score EXCEPT ![s] =
                                            [sheet |-> answers[s], grade |-> g]]
                            /\ status' = [status EXCEPT ![s] = "COMPLETED"]
<1>t. IInv /\ WorkerTypes /\ Works /\ Graded
    BY DEF SysInv
<1>i. Scoring!Idle \in AnAttempt
    BY DEF Scoring!Idle, AnAttempt, Scoring!Running
<1>s. \A s \in Sessions : answers[s] \in Sheets
    BY <1>t DEF IInv, TypeOK, Sheets
<1> USE DEF Scoring!sessionVars, Scoring!rowVars, Scoring!queueVars, Scoring!Goto
<1>1. ASSUME NEW a \in Attempts, NEW s \in Sessions, Scoring!Fetch(a, s) PROVE Good
    <2>1. UNCHANGED <<status, answers, sent, score>> /\ sent[s] > 0
        BY <1>1 DEF Scoring!Fetch
    <2>n. job[s].retries \in Nat /\ job[s].retries + 1 \in Nat
        BY <1>t DEF WorkerTypes
    <2>2. PICK n \in Nat : att' = [att EXCEPT ![a] =
                [Scoring!Idle EXCEPT !.pc = "load", !.s = s, !.retryCount = n]]
        <3> DEFINE retries == IF job[s].state = "retry" THEN job[s].retries + 1
                                                       ELSE job[s].retries
                   count == IF countDelivered THEN retries ELSE 0
        <3>1. count \in Nat
            BY <2>n
        <3>2. att' = [att EXCEPT ![a] =
                        [Scoring!Idle EXCEPT !.pc = "load", !.s = s, !.retryCount = count]]
            BY <1>1 DEF Scoring!Fetch
        <3> HIDE DEF count
        <3> QED
            BY <3>1, <3>2
    <2>3. [Scoring!Idle EXCEPT !.pc = "load", !.s = s, !.retryCount = n] \in AnAttempt
        BY <1>i DEF AnAttempt, Scoring!Running
    <2>4. WorkerTypes'
        <3>1. PICK m \in Nat : job' = [job EXCEPT ![s].state = "active", ![s].retries = m]
            BY <1>1, <2>n DEF Scoring!Fetch
        <3>2. job' \in [Sessions -> [state : Scoring!JobStates, retries : Nat]]
            BY <1>t, <3>1 DEF WorkerTypes, Scoring!JobStates
        <3>3. att' \in [Attempts -> AnAttempt]
            BY <1>t, <2>2, <2>3 DEF WorkerTypes
        <3> QED
            BY <1>t, <2>1, <3>2, <3>3 DEF WorkerTypes
    <2>5. Works'
        BY <1>t, <2>1, <2>2 DEF Works, WorkerTypes, Scoring!Idle
    <2>6. Graded'
        BY <1>t, <2>1 DEF Graded
    <2> QED
        BY <2>1, <2>4, <2>5, <2>6 DEF WorkerMoves
<1>2. ASSUME NEW s \in Sessions, Scoring!Expire(s) PROVE Good
    <2>1. UNCHANGED <<status, answers, sent, score, att>>
        BY <1>2 DEF Scoring!Expire
    <2>2. WorkerTypes'
        <3>1. Scoring!FailedJob(s) \in Scoring!JobStates
            BY DEF Scoring!FailedJob, Scoring!JobStates
        <3>2. job' = [job EXCEPT ![s].state = Scoring!FailedJob(s)]
            BY <1>2 DEF Scoring!Expire
        <3>3. job' \in [Sessions -> [state : Scoring!JobStates, retries : Nat]]
            BY <1>t, <3>1, <3>2 DEF WorkerTypes
        <3> QED
            BY <1>t, <2>1, <3>3 DEF WorkerTypes
    <2> QED
        BY <1>t, <2>1, <2>2 DEF WorkerMoves, Works, Graded
<1>3. ASSUME NEW a \in Attempts, Scoring!Report(a) PROVE Good
    <2>1. UNCHANGED <<status, answers, sent, score>> /\ att' = [att EXCEPT ![a] = Scoring!Idle]
        BY <1>3 DEF Scoring!Report
    <2>2. att[a].s \in Sessions
        BY <1>t, <1>3 DEF Scoring!Report, Works
    <2>3. job' \in [Sessions -> [state : Scoring!JobStates, retries : Nat]]
        BY <1>t, <1>3, <2>2 DEF Scoring!Report, Scoring!FailedJob, WorkerTypes,
           Scoring!JobStates
    <2>4. WorkerTypes'
        BY <1>t, <1>i, <2>1, <2>3 DEF WorkerTypes
    <2>5. Works'
        BY <1>t, <2>1 DEF Works, WorkerTypes, Scoring!Idle
    <2> QED
        BY <1>t, <2>1, <2>4, <2>5 DEF WorkerMoves, Graded
<1>4. ASSUME Scoring!Crash PROVE Good
    <2>1. UNCHANGED <<status, answers, sent, score, job>>
          /\ att' = [a \in Attempts |-> Scoring!Idle]
        BY <1>4 DEF Scoring!Crash
    <2>2. WorkerTypes'
        BY <1>t, <1>i, <2>1 DEF WorkerTypes
    <2>3. Works'
        BY <2>1 DEF Works, Scoring!Idle
    <2> QED
        BY <1>t, <2>1, <2>2, <2>3 DEF WorkerMoves, Graded
<1>5. ASSUME NEW a \in Attempts, Scoring!LoadSession(a) PROVE Good
    <2>1. att[a].s \in Sessions /\ sent[att[a].s] > 0 /\ answers[att[a].s] \in Sheets
        BY <1>t, <1>s, <1>5 DEF Scoring!LoadSession, Works
    <2>2. UNCHANGED <<status, answers, sent, score, job>>
        BY <1>5 DEF Scoring!LoadSession
    <2>3. WorkerTypes'
        BY <1>t, <1>5, <2>1, <2>2 DEF Scoring!LoadSession, WorkerTypes, AnAttempt,
           Scoring!Running
    <2>4. Works'
        BY <1>t, <1>5, <2>1, <2>2 DEF Scoring!LoadSession, Works, WorkerTypes, AnAttempt
    <2> QED
        BY <1>t, <2>2, <2>3, <2>4 DEF WorkerMoves, Graded
<1>6. ASSUME NEW a \in Attempts, Scoring!MarkScoring(a) PROVE Good
    <2>1. att[a].s \in Sessions /\ sent[att[a].s] > 0
        BY <1>t, <1>6 DEF Scoring!MarkScoring, Works
    <2>2. UNCHANGED <<answers, sent, score, job>>
          /\ (status' = status \/ status' = [status EXCEPT ![att[a].s] = "SCORING"])
        BY <1>6 DEF Scoring!MarkScoring
    <2>3. att' \in [Attempts -> AnAttempt] /\ Works'
        <3>1. att[a].pc # "idle" /\ att[a].sheet = answers[att[a].s]
            BY <1>t, <1>6 DEF Scoring!MarkScoring, Works
        <3>2. att' = [att EXCEPT ![a].pc = "evaluate"] \/ att' = [att EXCEPT ![a].pc = "catch"]
            BY <1>6 DEF Scoring!MarkScoring
        <3> QED
            BY <1>t, <2>2, <3>1, <3>2, AttemptGoes
    <2>4. WorkerTypes'
        BY <1>t, <2>2, <2>3 DEF WorkerTypes
    <2>5. WorkerMoves
        BY <2>1, <2>2 DEF WorkerMoves
    <2> QED
        BY <1>t, <2>2, <2>3, <2>4, <2>5 DEF Graded
<1>7. ASSUME NEW a \in Attempts, Scoring!Evaluate(a) PROVE Good
    <2>1. UNCHANGED <<status, answers, sent, score, job>>
        BY <1>7 DEF Scoring!Evaluate
    <2>2. att[a].pc = "evaluate" /\ att[a] \in AnAttempt /\ att \in [Attempts -> AnAttempt]
        BY <1>t, <1>7 DEF Scoring!Evaluate, WorkerTypes
    <2>3. \E r \in AnAttempt :
            /\ att' = [att EXCEPT ![a] = r]
            /\ r.pc \in {"save", "catch"} /\ r.s = att[a].s /\ r.sheet = att[a].sheet
            /\ r.pc = "save" => r.grade \in Grades
        <3>1. ASSUME NEW g \in Grades, att' = [att EXCEPT ![a].pc = "save", ![a].grade = g]
              PROVE  <2>3
            <4> DEFINE r == [att[a] EXCEPT !.pc = "save", !.grade = g]
            <4>1. r \in AnAttempt
                BY <2>2 DEF AnAttempt, Scoring!Running
            <4>2. r.pc = "save" /\ r.s = att[a].s /\ r.sheet = att[a].sheet /\ r.grade = g
                BY <2>2 DEF AnAttempt
            <4>3. att' = [att EXCEPT ![a] = r]
                BY <2>2, <3>1
            <4> HIDE DEF r
            <4> QED
                BY <4>1, <4>2, <4>3
        <3>2. ASSUME NEW fatal \in BOOLEAN, att' = [att EXCEPT ![a].pc = "catch", ![a].fatal = fatal]
              PROVE  <2>3
            <4> DEFINE r == [att[a] EXCEPT !.pc = "catch", !.fatal = fatal]
            <4>1. r \in AnAttempt
                BY <2>2 DEF AnAttempt, Scoring!Running
            <4>2. r.pc = "catch" /\ r.s = att[a].s /\ r.sheet = att[a].sheet
                BY <2>2 DEF AnAttempt
            <4>3. att' = [att EXCEPT ![a] = r]
                BY <2>2, <3>2
            <4> HIDE DEF r
            <4> QED
                BY <4>1, <4>2, <4>3
        <3> QED
            BY <1>7, <3>1, <3>2 DEF Scoring!Evaluate
    <2>4. PICK r \in AnAttempt :
            /\ att' = [att EXCEPT ![a] = r]
            /\ r.pc \in {"save", "catch"} /\ r.s = att[a].s /\ r.sheet = att[a].sheet
            /\ r.pc = "save" => r.grade \in Grades
        BY <2>3
    <2>5. WorkerTypes'
        BY <1>t, <2>1, <2>4 DEF WorkerTypes
    <2>6. Works'
        <3>1. \A b \in Attempts : att'[b] = IF b = a THEN r ELSE att[b]
            BY <2>2, <2>4
        <3>2. att[a].s \in Sessions /\ sent[att[a].s] > 0
              /\ att[a].sheet = answers[att[a].s]
            BY <1>t, <2>2 DEF Works
        <3> QED
            BY <1>t, <2>1, <2>4, <3>1, <3>2 DEF Works
    <2> QED
        BY <1>t, <2>1, <2>5, <2>6 DEF WorkerMoves, Graded
<1>8. ASSUME NEW a \in Attempts, Scoring!SaveScoringResult(a) PROVE Good
    <2> DEFINE s == att[a].s
    <2>1. s \in Sessions /\ sent[s] > 0 /\ att[a].sheet = answers[s] /\ att[a].grade \in Grades
          /\ answers[s] \in Sheets
        BY <1>t, <1>s, <1>8 DEF Scoring!SaveScoringResult, Works
    <2>2. UNCHANGED <<answers, sent, job>>
          /\ (att' = [att EXCEPT ![a].pc = "reportDone"] \/ att' = [att EXCEPT ![a].pc = "catch"])
        BY <1>8 DEF Scoring!SaveScoringResult
    <2>3. \/ UNCHANGED <<status, score>>
          \/ /\ score' = [score EXCEPT ![s] = [sheet |-> answers[s], grade |-> att[a].grade]]
             /\ status' = [status EXCEPT ![s] = "COMPLETED"]
        BY <1>8, <2>1 DEF Scoring!SaveScoringResult
    <2>4. [sheet |-> answers[s], grade |-> att[a].grade] \in Scoring!Result
        BY <2>1 DEF Scoring!Result
    <2>5. att[a].pc # "idle"
        BY <1>8 DEF Scoring!SaveScoringResult
    <2>6. att' \in [Attempts -> AnAttempt] /\ Works'
        BY <1>t, <2>2, <2>5, AttemptGoes
    <2> HIDE DEF s
    <2>7. WorkerTypes'
        BY <1>t, <2>1, <2>2, <2>3, <2>4, <2>6 DEF WorkerTypes
    <2>8. Graded'
        BY <1>t, <2>1, <2>2, <2>3 DEF Graded, WorkerTypes
    <2>9. WorkerMoves
        BY <2>1, <2>2, <2>3 DEF WorkerMoves
    <2> QED
        BY <2>1, <2>3, <2>6, <2>7, <2>8, <2>9
<1>9. ASSUME NEW a \in Attempts, Scoring!HandleError(a) PROVE Good
    <2>1. att[a].s \in Sessions /\ sent[att[a].s] > 0
        BY <1>t, <1>9 DEF Scoring!HandleError, Works
    <2>2. UNCHANGED <<answers, sent, score, job>>
          /\ (status' = status \/ status' = [status EXCEPT ![att[a].s] = "FAILED"])
          /\ att' = [att EXCEPT ![a].pc = "reportError"]
        BY <1>9 DEF Scoring!HandleError
    <2>3. att' \in [Attempts -> AnAttempt] /\ Works'
        <3>1. att[a].pc # "idle"
            BY <1>9 DEF Scoring!HandleError
        <3> QED
            BY <1>t, <2>2, <3>1, AttemptGoes
    <2>4. WorkerTypes'
        BY <1>t, <2>2, <2>3 DEF WorkerTypes
    <2>5. WorkerMoves
        BY <2>1, <2>2 DEF WorkerMoves
    <2> QED
        BY <1>t, <2>2, <2>3, <2>4, <2>5 DEF Graded
<1> HIDE DEF Good
<1>10. Good
    BY <1>1, <1>2, <1>3, <1>4, <1>5, <1>6, <1>7, <1>8, <1>9
       DEF Scoring!WorkerNext, Scoring!Advance
<1> QED
    BY <1>10 DEF Good

(* Every step preserves the invariant. *)
LEMMA SystemNextInv == SysInv /\ [SystemNext]_allVars => SysInv'
<1> SUFFICES ASSUME SysInv, [SystemNext]_allVars PROVE SysInv'
    OBVIOUS
<1>1. CASE Next /\ UNCHANGED scoringVars
    BY <1>1, HandlersStep
<1>2. CASE Scoring!WorkerNext /\ UNCHANGED interviewVars
    BY <1>2, WorkerStep, HandlersUndisturbed DEF SysInv
<1>3. CASE UNCHANGED allVars
    BY <1>3, HandlersStep DEF allVars
<1> QED
    BY <1>1, <1>2, <1>3 DEF SystemNext

(* The invariant holds in every reachable state. *)
THEOREM SystemInvariant == SystemSpec => []SysInv
BY SystemInitInv, SystemNextInv, PTL DEF SystemSpec

-----------------------------------------------------------------------------
(* Every acknowledged answer is in the sheet that was graded. *)
THEOREM AnswersGraded == SystemSpec => []AckedAnswersGraded
<1>1. SysInv => AckedAnswersGraded
    BY DEF SysInv, IInv, Graded, AckedAnswersKept, AckedAnswersGraded
<1> QED
    BY <1>1, SystemInvariant, PTL

(* Attempts find a row that is sealed and not locked, however late they    *)
(* are, so that leaving the lock out of the worker's writes is no loss.    *)
THEOREM SealedRowFound == SystemSpec => []AttemptsFindSealedRow
<1>1. SysInv => AttemptsFindSealedRow
    <2> SUFFICES ASSUME SysInv, NEW a \in Attempts, att[a].s # None
                 PROVE  status[att[a].s] \notin Open /\ rowLock[att[a].s] = None
        BY DEF AttemptsFindSealedRow
    <2>1. att[a].s \in Sessions /\ sent[att[a].s] > 0
        BY DEF SysInv, Works
    <2> QED
        BY <2>1, Sealed DEF SysInv
<1> QED
    BY <1>1, SystemInvariant, PTL

-----------------------------------------------------------------------------
(* The refinement of Exam. *)

(* The first states are first states of Exam. *)
LEMMA ExamInit == SystemInit => Abstract!Init
BY DEF SystemInit, Init, Scoring!ScoringInit, Abstract!Init, phase, Phase, Blank

(* One session that goes on from one status to another. *)
LEMMA PhaseMoves ==
    ASSUME NEW s \in Sessions, status \in [Sessions -> Status], NEW st \in Status,
           status' = [status EXCEPT ![s] = st]
    PROVE  phase' = [phase EXCEPT ![s] = Phase(st)] /\ phase[s] = Phase(status[s])
<1>1. \A t \in Sessions : status'[t] = IF t = s THEN st ELSE status[t]
    OBVIOUS
<1> QED
    BY <1>1 DEF phase

(* A step of the handlers is a step of Exam, or none. *)
LEMMA HandlersExam ==
    ASSUME SysInv, Next, UNCHANGED scoringVars
    PROVE  [Abstract!Next]_(Abstract!vars)
<1>t. IInv /\ status \in [Sessions -> Status] /\ score' = score
    BY DEF SysInv, IInv, TypeOK, scoringVars
<1>1. PICK h \in Handlers :
        (\E s \in Sessions : Arrive(h, s)) \/ RejectRequest(h) \/ Continue(h) \/ Abort(h)
    BY DEF Next
<1>2. ASSUME NEW s \in Sessions, CreateInterviewSession(h, s) PROVE Abstract!Next
    <2>1. status[s] = "ABSENT" /\ status' = [status EXCEPT ![s] = "CREATED"]
          /\ answers' = answers
        BY <1>2 DEF CreateInterviewSession
    <2>2. phase' = [phase EXCEPT ![s] = "draft"] /\ phase[s] = "absent"
        BY <1>t, <2>1, PhaseMoves DEF Status, Phase
    <2> QED
        BY <1>t, <2>1, <2>2 DEF Abstract!Next, Abstract!Create, Abstract!Move
<1>3. ASSUME StartInterviewSession(h), status' # status PROVE Abstract!Next
    <2>1. req[h].s \in Sessions /\ status[req[h].s] = "CREATED"
          /\ status' = [status EXCEPT ![req[h].s] = "IN_PROGRESS"] /\ answers' = answers
        BY <1>t, <1>3 DEF StartInterviewSession, IInv, Arguments
    <2>2. phase' = [phase EXCEPT ![req[h].s] = "running"] /\ phase[req[h].s] = "draft"
        BY <1>t, <2>1, PhaseMoves DEF Status, Phase
    <2> QED
        BY <1>t, <2>1, <2>2 DEF Abstract!Next, Abstract!Begin, Abstract!Move
<1>4. ASSUME SubmitInterviewSession(h), status' # status PROVE Abstract!Next
    <2>1. req[h].s \in Sessions /\ status[req[h].s] = "IN_PROGRESS"
          /\ status' = [status EXCEPT ![req[h].s] = "SUBMITTED"] /\ answers' = answers
        BY <1>t, <1>4 DEF SubmitInterviewSession, IInv, Arguments
    <2>2. phase' = [phase EXCEPT ![req[h].s] = "sealed"] /\ phase[req[h].s] = "running"
        BY <1>t, <2>1, PhaseMoves DEF Status, Phase
    <2> QED
        BY <1>t, <2>1, <2>2 DEF Abstract!Next, Abstract!Seal, Abstract!Move
<1>5. ASSUME NEW g \in Handlers, SaveAnswer(g), answers' # answers PROVE Abstract!Next
    <2>1. req[g].s \in Sessions /\ status[req[g].s] = "IN_PROGRESS" /\ status' = status
          /\ \E x \in Sheets : answers' = [answers EXCEPT ![req[g].s] = x]
        BY <1>t, <1>5, SaveStep
    <2>2. phase' = phase /\ phase[req[g].s] = "running"
        BY <2>1 DEF phase, Phase
    <2> QED
        BY <1>t, <2>1, <2>2 DEF Abstract!Next, Abstract!Write
<1>6. CASE status' = status /\ answers' = answers
    BY <1>t, <1>6 DEF Abstract!vars, phase
<1>7. CASE answers' # answers
    BY <1>t, <1>5, <1>7, AnswersStep
<1>8. CASE status' # status /\ answers' = answers
    BY <1>1, <1>2, <1>3, <1>4, <1>8 DEF Arrive, Continue, RejectRequest, Abort,
       AuthorizeStart, AuthorizeSubmit, AuthorizeQuestion, GetGenerationContext,
       EnqueueScoring, ReplyQueued, GetVideo, LockForAnswer, SaveAnswer,
       GenerateQuestions, LockForQuestions, ReplaceQuestions, dbVars
<1> QED
    BY <1>6, <1>7, <1>8

(* A step of the worker is a grade, or none. *)
LEMMA WorkerExam ==
    ASSUME SysInv, Scoring!WorkerNext, UNCHANGED interviewVars
    PROVE  [Abstract!Next]_(Abstract!vars)
<1>1. WorkerMoves
    BY WorkerStep
<1>2. phase' = phase
    <2>1. \A s \in Sessions : Phase(status'[s]) = Phase(status[s])
        BY <1>1, HandlersUndisturbed DEF SysInv, Phase, Open
    <2> QED
        BY <2>1 DEF phase
<1>3. answers' = answers
    BY <1>1 DEF WorkerMoves
<1>4. CASE score' = score
    BY <1>2, <1>3, <1>4 DEF Abstract!vars
<1>5. ASSUME NEW s \in Sessions, NEW g \in Grades, sent[s] > 0,
             score' = [score EXCEPT ![s] = [sheet |-> answers[s], grade |-> g]]
      PROVE  Abstract!Next
    <2>1. phase[s] = "sealed"
        BY <1>5, Sealed DEF SysInv, phase, Phase, Open
    <2> QED
        BY <1>2, <1>3, <1>5, <2>1 DEF Abstract!Next, Abstract!Grade
<1> QED
    BY <1>4, <1>5, WorkerStep

(* The handlers and the worker, with all their interleavings, implement    *)
(* the abstract exam.                                                      *)
THEOREM Refinement == SystemSpec => ImplementsExam
<1>1. SysInv /\ [SystemNext]_allVars => [Abstract!Next]_(Abstract!vars)
    <2> SUFFICES ASSUME SysInv, [SystemNext]_allVars
                 PROVE  [Abstract!Next]_(Abstract!vars)
        OBVIOUS
    <2>1. CASE UNCHANGED allVars
        BY <2>1 DEF allVars, vars, scoringVars, Abstract!vars, phase
    <2> QED
        BY <2>1, HandlersExam, WorkerExam DEF SystemNext
<1> QED
    BY <1>1, ExamInit, SystemInvariant, PTL DEF SystemSpec, ImplementsExam, Abstract!Spec
=============================================================================
