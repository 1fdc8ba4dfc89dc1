------------------------ MODULE ScoringPipeline_proofs ------------------------
(***************************************************************************)
(* Proofs about ScoringPipeline, for any number of sessions, sheets,       *)
(* grades and attempts and any retry limit.  IInv is the inductive         *)
(* invariant: it says which attempts may still write a session's rows, and *)
(* what an attempt has written when it reports to the queue.               *)
(***************************************************************************)
EXTENDS ScoringPipeline, TLAPS

(* An attempt at work has a session, and what its next step needs. *)
AttemptArguments ==
    \A a \in Attempts :
        /\ att[a].pc # "idle" => att[a].s \in Sessions
        /\ att[a].pc \in {"markScoring", "evaluate", "save"} => att[a].sheet \in Sheets
        /\ att[a].pc = "save" => att[a].grade \in Grades

(* The queue waits only for an attempt at work on an active job. *)
OwnerActive ==
    \A s \in Sessions : owner[s] # None =>
        /\ att[owner[s]].pc # "idle"
        /\ att[owner[s]].s = s
        /\ job[s].state = "active"

(* A job waits for a retry only while it has one left. *)
RetriesLeft ==
    \A s \in Sessions : job[s].state = "retry" => job[s].retries < RetryLimit

(* The two rows of a result are written together, before COMPLETED. *)
RowsTogether ==
    /\ summary = score
    /\ \A s \in Sessions : status[s] = "COMPLETED" => score[s] # None

(* What an attempt that reports success has done. *)
DoneMeansSaved ==
    \A a \in Attempts : att[a].pc = "reportDone" => score[att[a].s] # None

(* The result endpoint has seen a COMPLETED session, which keeps its rows. *)
PollKnows ==
    /\ poll.pc = "checked" => poll.s \in Sessions /\ score[poll.s] # None
    /\ PollFindsResult

IInv ==
    /\ TypeOK
    /\ AttemptArguments
    /\ OwnerActive
    /\ RetriesLeft
    /\ RowsTogether
    /\ DoneMeansSaved
    /\ PollKnows
    /\ CompletedJobHasResult

-----------------------------------------------------------------------------
(* Attempt a moves to pc on session s; the others stay. *)
Moves(a, pc, s) ==
    /\ att' \in [Attempts -> Attempt]
    /\ att'[a].pc = pc
    /\ att'[a].s = s
    /\ \A b \in Attempts \ {a} : att'[b] = att[b]

(* Goto changes the program counter only. *)
LEMMA GotoMoves ==
    ASSUME TypeOK, NEW a \in Attempts, NEW pc \in Running, Goto(a, pc)
    PROVE  /\ Moves(a, pc, att[a].s)
           /\ att'[a].sheet = att[a].sheet
           /\ att'[a].grade = att[a].grade
<1>1. att \in [Attempts -> Attempt] /\ att' = [att EXCEPT ![a].pc = pc]
  BY DEF TypeOK, ScoringTypeOK, Goto
<1>2. [att[a] EXCEPT !.pc = pc] \in Attempt
  BY <1>1 DEF Attempt
<1>3. att' = [att EXCEPT ![a] = [att[a] EXCEPT !.pc = pc]]
  BY <1>1
<1>4. att'[a] = [att[a] EXCEPT !.pc = pc]
  BY <1>1, <1>3
<1>5. att'[a].pc = pc /\ att'[a].s = att[a].s /\ att'[a].sheet = att[a].sheet
      /\ att'[a].grade = att[a].grade
  BY <1>1, <1>4 DEF Attempt
<1> QED
  BY <1>1, <1>2, <1>3, <1>5 DEF Moves

(* Sending a job preserves the invariant. *)
LEMMA SendStep ==
    ASSUME IInv, NEW s \in Sessions, Send(s)
    PROVE  IInv'
<1> USE DEF IInv
<1>1. TRUE
  OBVIOUS
<1>2. TypeOK'
  BY <1>1, ScoringAssumption DEF ScoringAssumption, Send, sessionVars, rowVars, queueVars, scoringVars, TypeOK, ScoringTypeOK, Scored, Moves
<1>3. AttemptArguments'
  BY <1>1, ScoringAssumption DEF ScoringAssumption, Send, sessionVars, rowVars, queueVars, scoringVars, AttemptArguments, Moves
<1>4. OwnerActive'
  BY <1>1, ScoringAssumption DEF ScoringAssumption, Send, sessionVars, rowVars, queueVars, scoringVars, OwnerActive, Moves, TypeOK, ScoringTypeOK
<1>5. RetriesLeft'
  BY <1>1, ScoringAssumption DEF ScoringAssumption, Send, sessionVars, rowVars, queueVars, scoringVars, RetriesLeft, TypeOK, ScoringTypeOK
<1>6. RowsTogether'
  BY <1>1, ScoringAssumption DEF ScoringAssumption, Send, sessionVars, rowVars, queueVars, scoringVars, RowsTogether, TypeOK, ScoringTypeOK
<1>7. DoneMeansSaved'
  BY <1>1, ScoringAssumption DEF ScoringAssumption, Send, sessionVars, rowVars, queueVars, scoringVars, DoneMeansSaved, AttemptArguments, RowsTogether, Moves, TypeOK, ScoringTypeOK
<1>8. PollKnows'
  BY <1>1, ScoringAssumption DEF ScoringAssumption, Send, sessionVars, rowVars, queueVars, scoringVars, PollKnows, PollFindsResult, RowsTogether, TypeOK, ScoringTypeOK, Poll
<1>9. CompletedJobHasResult'
  BY <1>1, ScoringAssumption DEF ScoringAssumption, Send, sessionVars, rowVars, queueVars, scoringVars, CompletedJobHasResult, TypeOK, ScoringTypeOK
<1> QED
  BY <1>2, <1>3, <1>4, <1>5, <1>6, <1>7, <1>8, <1>9

(* Handing out a job preserves the invariant. *)
LEMMA FetchStep ==
    ASSUME IInv, NEW a \in Attempts, NEW s \in Sessions, Fetch(a, s)
    PROVE  IInv'
<1> USE DEF IInv
<1>1. /\ Moves(a, "load", s)
      /\ att[a].pc = "idle"
      /\ owner[s] = None
      /\ owner' = [owner EXCEPT ![s] = a]
      /\ job' \in [Sessions -> Job]
      /\ \A t \in Sessions \ {s} : job'[t] = job[t]
      /\ job'[s].state = "active"
  <2> DEFINE retries == IF job[s].state = "retry" THEN job[s].retries + 1
                                                  ELSE job[s].retries
             next == [job[s] EXCEPT !.state = "active", !.retries = retries]
  <2>0. /\ retries \in 0 .. RetryLimit
        /\ next \in Job /\ next.state = "active"
        /\ job' = [job EXCEPT ![s] = next]
    <3>1. job[s] \in Job
      BY DEF TypeOK, ScoringTypeOK
    <3>2. retries \in 0 .. RetryLimit
      BY <3>1, ScoringAssumption DEF ScoringAssumption, Job, RetriesLeft
    <3>3. job' = [job EXCEPT ![s] = next]
      BY DEF Fetch
    <3> HIDE DEF retries
    <3> QED
      BY <3>1, <3>2, <3>3 DEF Job, JobStates
  <2>1. owner[s] = None /\ att[a].pc = "idle" /\ owner' = [owner EXCEPT ![s] = a]
    BY DEF Fetch, OwnerActive
  <2>2. Moves(a, "load", s)
    <3>1. \E n \in 0 .. RetryLimit : att' = [att EXCEPT ![a] =
                [Idle EXCEPT !.pc = "load", !.s = s, !.retryCount = n]]
      <4>1. att' = [att EXCEPT ![a] = [Idle EXCEPT !.pc = "load", !.s = s,
                        !.retryCount = IF countDelivered THEN retries ELSE 0]]
        BY DEF Fetch
      <4>2. (IF countDelivered THEN retries ELSE 0) \in 0 .. RetryLimit
        BY <2>0, ScoringAssumption DEF ScoringAssumption
      <4> QED
        BY <4>1, <4>2
    <3>2. \A n \in 0 .. RetryLimit :
            [Idle EXCEPT !.pc = "load", !.s = s, !.retryCount = n] \in Attempt
      BY DEF Idle, Attempt, Running
    <3>3. PICK n \in 0 .. RetryLimit : att' = [att EXCEPT ![a] =
                [Idle EXCEPT !.pc = "load", !.s = s, !.retryCount = n]]
      BY <3>1
    <3> DEFINE started == [Idle EXCEPT !.pc = "load", !.s = s, !.retryCount = n]
    <3>4. started \in Attempt /\ started.pc = "load" /\ started.s = s
      BY <3>2 DEF Idle
    <3>5. att \in [Attempts -> Attempt] /\ att' = [att EXCEPT ![a] = started]
      BY <3>3 DEF TypeOK, ScoringTypeOK
    <3> HIDE DEF started
    <3> QED
      BY <3>4, <3>5 DEF Moves
  <2>3. /\ job' \in [Sessions -> Job]
        /\ \A t \in Sessions \ {s} : job'[t] = job[t]
        /\ job'[s].state = "active"
    <3>1. job \in [Sessions -> Job]
      BY DEF TypeOK, ScoringTypeOK
    <3> HIDE DEF next
    <3> QED
      BY <2>0, <3>1
  <2> QED
    BY <2>1, <2>2, <2>3
<1>2. TypeOK'
  BY <1>1, ScoringAssumption DEF ScoringAssumption, Fetch, sessionVars, rowVars, queueVars, scoringVars, TypeOK, ScoringTypeOK, Scored, Moves
<1>3. AttemptArguments'
  BY <1>1, ScoringAssumption DEF ScoringAssumption, Fetch, sessionVars, rowVars, queueVars, scoringVars, AttemptArguments, Moves
<1>4. OwnerActive'
  BY <1>1, ScoringAssumption DEF ScoringAssumption, Fetch, sessionVars, rowVars, queueVars, scoringVars, OwnerActive, Moves, TypeOK, ScoringTypeOK
<1>5. RetriesLeft'
  BY <1>1, ScoringAssumption DEF ScoringAssumption, Fetch, sessionVars, rowVars, queueVars, scoringVars, RetriesLeft, TypeOK, ScoringTypeOK
<1>6. RowsTogether'
  BY <1>1, ScoringAssumption DEF ScoringAssumption, Fetch, sessionVars, rowVars, queueVars, scoringVars, RowsTogether, TypeOK, ScoringTypeOK
<1>7. DoneMeansSaved'
  BY <1>1, ScoringAssumption DEF ScoringAssumption, Fetch, sessionVars, rowVars, queueVars, scoringVars, DoneMeansSaved, AttemptArguments, RowsTogether, Moves, TypeOK, ScoringTypeOK
<1>8. PollKnows'
  BY <1>1, ScoringAssumption DEF ScoringAssumption, Fetch, sessionVars, rowVars, queueVars, scoringVars, PollKnows, PollFindsResult, RowsTogether, TypeOK, ScoringTypeOK, Poll
<1>9. CompletedJobHasResult'
  BY <1>1, ScoringAssumption DEF ScoringAssumption, Fetch, sessionVars, rowVars, queueVars, scoringVars, CompletedJobHasResult, TypeOK, ScoringTypeOK
<1> QED
  BY <1>2, <1>3, <1>4, <1>5, <1>6, <1>7, <1>8, <1>9

(* Expiry preserves the invariant. *)
LEMMA ExpireStep ==
    ASSUME IInv, NEW s \in Sessions, Expire(s)
    PROVE  IInv'
<1> USE DEF IInv
<1>1. /\ job' \in [Sessions -> Job]
      /\ owner' = [owner EXCEPT ![s] = None]
      /\ \A t \in Sessions \ {s} : job'[t] = job[t]
      /\ job'[s].state \in {"retry", "failed"}
      /\ job'[s].state = "retry" => job'[s].retries < RetryLimit
  BY DEF Expire, FailedJob, TypeOK, ScoringTypeOK, Job, JobStates
<1>2. TypeOK'
  BY <1>1, ScoringAssumption DEF ScoringAssumption, Expire, sessionVars, rowVars, queueVars, scoringVars, TypeOK, ScoringTypeOK, Scored, Moves
<1>3. AttemptArguments'
  BY <1>1, ScoringAssumption DEF ScoringAssumption, Expire, sessionVars, rowVars, queueVars, scoringVars, AttemptArguments, Moves
<1>4. OwnerActive'
  BY <1>1, ScoringAssumption DEF ScoringAssumption, Expire, sessionVars, rowVars, queueVars, scoringVars, OwnerActive, Moves, TypeOK, ScoringTypeOK
<1>5. RetriesLeft'
  BY <1>1, ScoringAssumption DEF ScoringAssumption, Expire, sessionVars, rowVars, queueVars, scoringVars, RetriesLeft, TypeOK, ScoringTypeOK
<1>6. RowsTogether'
  BY <1>1, ScoringAssumption DEF ScoringAssumption, Expire, sessionVars, rowVars, queueVars, scoringVars, RowsTogether, TypeOK, ScoringTypeOK
<1>7. DoneMeansSaved'
  BY <1>1, ScoringAssumption DEF ScoringAssumption, Expire, sessionVars, rowVars, queueVars, scoringVars, DoneMeansSaved, AttemptArguments, RowsTogether, Moves, TypeOK, ScoringTypeOK
<1>8. PollKnows'
  BY <1>1, ScoringAssumption DEF ScoringAssumption, Expire, sessionVars, rowVars, queueVars, scoringVars, PollKnows, PollFindsResult, RowsTogether, TypeOK, ScoringTypeOK, Poll
<1>9. CompletedJobHasResult'
  BY <1>1, ScoringAssumption DEF ScoringAssumption, Expire, sessionVars, rowVars, queueVars, scoringVars, CompletedJobHasResult, TypeOK, ScoringTypeOK
<1> QED
  BY <1>2, <1>3, <1>4, <1>5, <1>6, <1>7, <1>8, <1>9

(* A report preserves the invariant. *)
LEMMA ReportStep ==
    ASSUME IInv, NEW a \in Attempts, Report(a)
    PROVE  IInv'
<1> USE DEF IInv
<1>1. /\ att[a].s \in Sessions
      /\ att[a].pc \in {"reportDone", "reportError"}
      /\ Moves(a, "idle", None)
      /\ owner' = [t \in Sessions |-> IF owner[t] = a THEN None ELSE owner[t]]
      /\ \/ job' = job
         \/ /\ owner[att[a].s] = a
            /\ job' \in [Sessions -> Job]
            /\ \A t \in Sessions \ {att[a].s} : job'[t] = job[t]
            /\ job'[att[a].s].retries = job[att[a].s].retries
            /\ job'[att[a].s].state = "retry" => job[att[a].s].retries < RetryLimit
            /\ job'[att[a].s].state = "completed" => att[a].pc = "reportDone"
  <2>1. att[a].s \in Sessions /\ att[a].pc \in {"reportDone", "reportError"}
    BY DEF Report, AttemptArguments
  <2>2. Moves(a, "idle", None)
    BY ScoringAssumption DEF ScoringAssumption, Report, TypeOK, ScoringTypeOK,
       Attempt, Idle, Moves
  <2>3. CASE job' = job
    BY <2>1, <2>2, <2>3 DEF Report
  <2>4. CASE /\ owner[att[a].s] = a
             /\ job' = [job EXCEPT ![att[a].s].state =
                            IF att[a].pc = "reportDone" THEN "completed"
                                                        ELSE FailedJob(att[a].s)]
    BY <2>1, <2>2, <2>4 DEF Report, FailedJob, TypeOK, ScoringTypeOK, Job, JobStates
  <2> QED
    BY <2>3, <2>4 DEF Report
<1>2. TypeOK'
  BY <1>1, ScoringAssumption DEF ScoringAssumption, Report, sessionVars, rowVars, queueVars, scoringVars, TypeOK, ScoringTypeOK, Scored, Moves
<1>3. AttemptArguments'
  BY <1>1, ScoringAssumption DEF ScoringAssumption, Report, sessionVars, rowVars, queueVars, scoringVars, AttemptArguments, Moves
<1>4. OwnerActive'
  BY <1>1, ScoringAssumption DEF ScoringAssumption, Report, sessionVars, rowVars, queueVars, scoringVars, OwnerActive, Moves, TypeOK, ScoringTypeOK
<1>5. RetriesLeft'
  BY <1>1, ScoringAssumption DEF ScoringAssumption, Report, sessionVars, rowVars, queueVars, scoringVars, RetriesLeft, TypeOK, ScoringTypeOK
<1>6. RowsTogether'
  BY <1>1, ScoringAssumption DEF ScoringAssumption, Report, sessionVars, rowVars, queueVars, scoringVars, RowsTogether, TypeOK, ScoringTypeOK
<1>7. DoneMeansSaved'
  BY <1>1, ScoringAssumption DEF ScoringAssumption, Report, sessionVars, rowVars, queueVars, scoringVars, DoneMeansSaved, AttemptArguments, RowsTogether, Moves, TypeOK, ScoringTypeOK
<1>8. PollKnows'
  BY <1>1, ScoringAssumption DEF ScoringAssumption, Report, sessionVars, rowVars, queueVars, scoringVars, PollKnows, PollFindsResult, RowsTogether, TypeOK, ScoringTypeOK, Poll
<1>9. CompletedJobHasResult'
  BY <1>1, ScoringAssumption DEF ScoringAssumption, Report, sessionVars, rowVars, queueVars, scoringVars, CompletedJobHasResult, DoneMeansSaved, TypeOK, ScoringTypeOK
<1> QED
  BY <1>2, <1>3, <1>4, <1>5, <1>6, <1>7, <1>8, <1>9

(* A crash preserves the invariant. *)
LEMMA CrashStep ==
    ASSUME IInv, Crash
    PROVE  IInv'
<1> USE DEF IInv
<1>1. /\ att' \in [Attempts -> Attempt]
      /\ \A a \in Attempts : att'[a].pc = "idle"
      /\ \A s \in Sessions : owner'[s] = None
  BY ScoringAssumption DEF ScoringAssumption, Crash, Attempt, Idle
<1>2. TypeOK'
  BY <1>1, ScoringAssumption DEF ScoringAssumption, Crash, sessionVars, rowVars, queueVars, scoringVars, TypeOK, ScoringTypeOK, Scored, Moves
<1>3. AttemptArguments'
  BY <1>1, ScoringAssumption DEF ScoringAssumption, Crash, sessionVars, rowVars, queueVars, scoringVars, AttemptArguments, Moves
<1>4. OwnerActive'
  BY <1>1, ScoringAssumption DEF ScoringAssumption, Crash, sessionVars, rowVars, queueVars, scoringVars, OwnerActive, Moves, TypeOK, ScoringTypeOK
<1>5. RetriesLeft'
  BY <1>1, ScoringAssumption DEF ScoringAssumption, Crash, sessionVars, rowVars, queueVars, scoringVars, RetriesLeft, TypeOK, ScoringTypeOK
<1>6. RowsTogether'
  BY <1>1, ScoringAssumption DEF ScoringAssumption, Crash, sessionVars, rowVars, queueVars, scoringVars, RowsTogether, TypeOK, ScoringTypeOK
<1>7. DoneMeansSaved'
  BY <1>1, ScoringAssumption DEF ScoringAssumption, Crash, sessionVars, rowVars, queueVars, scoringVars, DoneMeansSaved, AttemptArguments, RowsTogether, Moves, TypeOK, ScoringTypeOK
<1>8. PollKnows'
  BY <1>1, ScoringAssumption DEF ScoringAssumption, Crash, sessionVars, rowVars, queueVars, scoringVars, PollKnows, PollFindsResult, RowsTogether, TypeOK, ScoringTypeOK, Poll
<1>9. CompletedJobHasResult'
  BY <1>1, ScoringAssumption DEF ScoringAssumption, Crash, sessionVars, rowVars, queueVars, scoringVars, CompletedJobHasResult, TypeOK, ScoringTypeOK
<1> QED
  BY <1>2, <1>3, <1>4, <1>5, <1>6, <1>7, <1>8, <1>9

(* Reading the session preserves the invariant. *)
LEMMA LoadSessionStep ==
    ASSUME IInv, NEW a \in Attempts, LoadSession(a)
    PROVE  IInv'
<1> USE DEF IInv
<1>1. /\ att[a].s \in Sessions
      /\ Moves(a, "markScoring", att[a].s) \/ Moves(a, "reportError", att[a].s)
      /\ att'[a].pc = "markScoring" => att'[a].sheet \in Sheets
  BY GotoMoves DEF LoadSession, AttemptArguments, Running, TypeOK, ScoringTypeOK, Attempt, Moves
<1>2. TypeOK'
  BY <1>1, ScoringAssumption DEF ScoringAssumption, LoadSession, sessionVars, rowVars, queueVars, scoringVars, TypeOK, ScoringTypeOK, Scored, Moves
<1>3. AttemptArguments'
  BY <1>1, ScoringAssumption DEF ScoringAssumption, LoadSession, sessionVars, rowVars, queueVars, scoringVars, AttemptArguments, Moves
<1>4. OwnerActive'
  BY <1>1, ScoringAssumption DEF ScoringAssumption, LoadSession, sessionVars, rowVars, queueVars, scoringVars, OwnerActive, Moves, TypeOK, ScoringTypeOK
<1>5. RetriesLeft'
  BY <1>1, ScoringAssumption DEF ScoringAssumption, LoadSession, sessionVars, rowVars, queueVars, scoringVars, RetriesLeft, TypeOK, ScoringTypeOK
<1>6. RowsTogether'
  BY <1>1, ScoringAssumption DEF ScoringAssumption, LoadSession, sessionVars, rowVars, queueVars, scoringVars, RowsTogether, TypeOK, ScoringTypeOK
<1>7. DoneMeansSaved'
  BY <1>1, ScoringAssumption DEF ScoringAssumption, LoadSession, sessionVars, rowVars, queueVars, scoringVars, DoneMeansSaved, AttemptArguments, RowsTogether, Moves, TypeOK, ScoringTypeOK
<1>8. PollKnows'
  BY <1>1, ScoringAssumption DEF ScoringAssumption, LoadSession, sessionVars, rowVars, queueVars, scoringVars, PollKnows, PollFindsResult, RowsTogether, TypeOK, ScoringTypeOK, Poll
<1>9. CompletedJobHasResult'
  BY <1>1, ScoringAssumption DEF ScoringAssumption, LoadSession, sessionVars, rowVars, queueVars, scoringVars, CompletedJobHasResult, TypeOK, ScoringTypeOK
<1> QED
  BY <1>2, <1>3, <1>4, <1>5, <1>6, <1>7, <1>8, <1>9

(* Marking the session preserves the invariant. *)
LEMMA MarkScoringStep ==
    ASSUME IInv, NEW a \in Attempts, MarkScoring(a)
    PROVE  IInv'
<1> USE DEF IInv
<1>1. /\ att[a].s \in Sessions
      /\ att[a].pc = "markScoring"
      /\ Moves(a, "evaluate", att[a].s) \/ (Moves(a, "catch", att[a].s) /\ status' = status)
      /\ att'[a].sheet = att[a].sheet
  BY GotoMoves DEF MarkScoring, AttemptArguments, Running
<1>2. TypeOK'
  BY <1>1, ScoringAssumption DEF ScoringAssumption, MarkScoring, sessionVars, rowVars, queueVars, scoringVars, TypeOK, ScoringTypeOK, Scored, Moves
<1>3. AttemptArguments'
  BY <1>1, ScoringAssumption DEF ScoringAssumption, MarkScoring, sessionVars, rowVars, queueVars, scoringVars, AttemptArguments, Moves
<1>4. OwnerActive'
  BY <1>1, ScoringAssumption DEF ScoringAssumption, MarkScoring, sessionVars, rowVars, queueVars, scoringVars, OwnerActive, Moves, TypeOK, ScoringTypeOK
<1>5. RetriesLeft'
  BY <1>1, ScoringAssumption DEF ScoringAssumption, MarkScoring, sessionVars, rowVars, queueVars, scoringVars, RetriesLeft, TypeOK, ScoringTypeOK
<1>6. RowsTogether'
  BY <1>1, ScoringAssumption DEF ScoringAssumption, MarkScoring, sessionVars, rowVars, queueVars, scoringVars, RowsTogether, TypeOK, ScoringTypeOK
<1>7. DoneMeansSaved'
  BY <1>1, ScoringAssumption DEF ScoringAssumption, MarkScoring, sessionVars, rowVars, queueVars, scoringVars, DoneMeansSaved, AttemptArguments, RowsTogether, Moves, TypeOK, ScoringTypeOK
<1>8. PollKnows'
  BY <1>1, ScoringAssumption DEF ScoringAssumption, MarkScoring, sessionVars, rowVars, queueVars, scoringVars, PollKnows, PollFindsResult, RowsTogether, TypeOK, ScoringTypeOK, Poll
<1>9. CompletedJobHasResult'
  BY <1>1, ScoringAssumption DEF ScoringAssumption, MarkScoring, sessionVars, rowVars, queueVars, scoringVars, CompletedJobHasResult, TypeOK, ScoringTypeOK
<1> QED
  BY <1>2, <1>3, <1>4, <1>5, <1>6, <1>7, <1>8, <1>9

(* The evaluation preserves the invariant. *)
LEMMA EvaluateStep ==
    ASSUME IInv, NEW a \in Attempts, Evaluate(a)
    PROVE  IInv'
<1> USE DEF IInv
<1>1. /\ att[a].s \in Sessions
      /\ Moves(a, "save", att[a].s) \/ Moves(a, "catch", att[a].s)
      /\ att'[a].sheet = att[a].sheet
      /\ att'[a].pc = "save" => att'[a].grade \in Grades
  <2>1. att \in [Attempts -> Attempt]
    BY DEF TypeOK, ScoringTypeOK
  <2>2. CASE \E g \in Grades : att' = [att EXCEPT ![a].pc = "save", ![a].grade = g]
    <3>1. PICK g \in Grades : att' = [att EXCEPT ![a] =
                                [att[a] EXCEPT !.pc = "save", !.grade = g]]
      BY <2>2
    <3>2. [att[a] EXCEPT !.pc = "save", !.grade = g] \in Attempt
      BY <2>1 DEF Attempt, Running
    <3> QED
      BY <2>1, <3>1, <3>2 DEF Evaluate, AttemptArguments, Moves, Attempt
  <2>3. CASE \E fatal \in BOOLEAN :
                att' = [att EXCEPT ![a].pc = "catch", ![a].fatal = fatal]
    <3>1. PICK fatal \in BOOLEAN : att' = [att EXCEPT ![a] =
                                [att[a] EXCEPT !.pc = "catch", !.fatal = fatal]]
      BY <2>3
    <3>2. [att[a] EXCEPT !.pc = "catch", !.fatal = fatal] \in Attempt
      BY <2>1 DEF Attempt, Running
    <3> QED
      BY <2>1, <3>1, <3>2 DEF Evaluate, AttemptArguments, Moves, Attempt
  <2> QED
    BY <2>2, <2>3 DEF Evaluate
<1>2. TypeOK'
  BY <1>1, ScoringAssumption DEF ScoringAssumption, Evaluate, sessionVars, rowVars, queueVars, scoringVars, TypeOK, ScoringTypeOK, Scored, Moves
<1>3. AttemptArguments'
  BY <1>1, ScoringAssumption DEF ScoringAssumption, Evaluate, sessionVars, rowVars, queueVars, scoringVars, AttemptArguments, Moves
<1>4. OwnerActive'
  BY <1>1, ScoringAssumption DEF ScoringAssumption, Evaluate, sessionVars, rowVars, queueVars, scoringVars, OwnerActive, Moves, TypeOK, ScoringTypeOK
<1>5. RetriesLeft'
  BY <1>1, ScoringAssumption DEF ScoringAssumption, Evaluate, sessionVars, rowVars, queueVars, scoringVars, RetriesLeft, TypeOK, ScoringTypeOK
<1>6. RowsTogether'
  BY <1>1, ScoringAssumption DEF ScoringAssumption, Evaluate, sessionVars, rowVars, queueVars, scoringVars, RowsTogether, TypeOK, ScoringTypeOK
<1>7. DoneMeansSaved'
  BY <1>1, ScoringAssumption DEF ScoringAssumption, Evaluate, sessionVars, rowVars, queueVars, scoringVars, DoneMeansSaved, AttemptArguments, RowsTogether, Moves, TypeOK, ScoringTypeOK
<1>8. PollKnows'
  BY <1>1, ScoringAssumption DEF ScoringAssumption, Evaluate, sessionVars, rowVars, queueVars, scoringVars, PollKnows, PollFindsResult, RowsTogether, TypeOK, ScoringTypeOK, Poll
<1>9. CompletedJobHasResult'
  BY <1>1, ScoringAssumption DEF ScoringAssumption, Evaluate, sessionVars, rowVars, queueVars, scoringVars, CompletedJobHasResult, TypeOK, ScoringTypeOK
<1> QED
  BY <1>2, <1>3, <1>4, <1>5, <1>6, <1>7, <1>8, <1>9

(* Saving the result preserves the invariant. *)
LEMMA SaveScoringResultStep ==
    ASSUME IInv, NEW a \in Attempts, SaveScoringResult(a)
    PROVE  IInv'
<1> USE DEF IInv
<1>1. /\ att[a].s \in Sessions
      /\ att[a].pc = "save"
      /\ \/ /\ status' = [status EXCEPT ![att[a].s] = "COMPLETED"]
            /\ \E result \in Result \ {None} :
                    /\ score' = [score EXCEPT ![att[a].s] = result]
                    /\ summary' = [summary EXCEPT ![att[a].s] = result]
            /\ Moves(a, "reportDone", att[a].s) \/ Moves(a, "catch", att[a].s)
         \/ /\ status' = status /\ score' = score /\ summary' = summary
            /\ Moves(a, "catch", att[a].s)
  <2>1. att[a].s \in Sessions /\ att[a].pc = "save"
    BY DEF SaveScoringResult, AttemptArguments
  <2>2. [sheet |-> att[a].sheet, grade |-> att[a].grade] \in Result \ {None}
    BY <2>1, ScoringAssumption DEF ScoringAssumption, AttemptArguments, Result
  <2> QED
    BY <2>1, <2>2, GotoMoves DEF SaveScoringResult, Running, rowVars
<1>2. TypeOK'
  BY <1>1, ScoringAssumption DEF ScoringAssumption, SaveScoringResult, sessionVars, rowVars, queueVars, scoringVars, TypeOK, ScoringTypeOK, Scored, Moves
<1>3. AttemptArguments'
  BY <1>1, ScoringAssumption DEF ScoringAssumption, SaveScoringResult, sessionVars, rowVars, queueVars, scoringVars, AttemptArguments, Moves
<1>4. OwnerActive'
  BY <1>1, ScoringAssumption DEF ScoringAssumption, SaveScoringResult, sessionVars, rowVars, queueVars, scoringVars, OwnerActive, Moves, TypeOK, ScoringTypeOK
<1>5. RetriesLeft'
  BY <1>1, ScoringAssumption DEF ScoringAssumption, SaveScoringResult, sessionVars, rowVars, queueVars, scoringVars, RetriesLeft, TypeOK, ScoringTypeOK
<1>6. RowsTogether'
  BY <1>1, ScoringAssumption DEF ScoringAssumption, SaveScoringResult, sessionVars, rowVars, queueVars, scoringVars, RowsTogether, TypeOK, ScoringTypeOK
<1>7. DoneMeansSaved'
  BY <1>1, ScoringAssumption DEF ScoringAssumption, SaveScoringResult, sessionVars, rowVars, queueVars, scoringVars, DoneMeansSaved, AttemptArguments, RowsTogether, Moves, TypeOK, ScoringTypeOK
<1>8. PollKnows'
  BY <1>1, ScoringAssumption DEF ScoringAssumption, SaveScoringResult, sessionVars, rowVars, queueVars, scoringVars, PollKnows, PollFindsResult, RowsTogether, TypeOK, ScoringTypeOK, Poll
<1>9. CompletedJobHasResult'
  BY <1>1, ScoringAssumption DEF ScoringAssumption, SaveScoringResult, sessionVars, rowVars, queueVars, scoringVars, CompletedJobHasResult, TypeOK, ScoringTypeOK
<1> QED
  BY <1>2, <1>3, <1>4, <1>5, <1>6, <1>7, <1>8, <1>9

(* The catch block preserves the invariant. *)
LEMMA HandleErrorStep ==
    ASSUME IInv, NEW a \in Attempts, HandleError(a)
    PROVE  IInv'
<1> USE DEF IInv
<1>1. /\ att[a].s \in Sessions
      /\ att[a].pc = "catch"
      /\ Moves(a, "reportError", att[a].s)
  BY GotoMoves DEF HandleError, AttemptArguments, Running
<1>2. TypeOK'
  BY <1>1, ScoringAssumption DEF ScoringAssumption, HandleError, sessionVars, rowVars, queueVars, scoringVars, TypeOK, ScoringTypeOK, Scored, Moves
<1>3. AttemptArguments'
  BY <1>1, ScoringAssumption DEF ScoringAssumption, HandleError, sessionVars, rowVars, queueVars, scoringVars, AttemptArguments, Moves
<1>4. OwnerActive'
  BY <1>1, ScoringAssumption DEF ScoringAssumption, HandleError, sessionVars, rowVars, queueVars, scoringVars, OwnerActive, Moves, TypeOK, ScoringTypeOK
<1>5. RetriesLeft'
  BY <1>1, ScoringAssumption DEF ScoringAssumption, HandleError, sessionVars, rowVars, queueVars, scoringVars, RetriesLeft, TypeOK, ScoringTypeOK
<1>6. RowsTogether'
  BY <1>1, ScoringAssumption DEF ScoringAssumption, HandleError, sessionVars, rowVars, queueVars, scoringVars, RowsTogether, TypeOK, ScoringTypeOK
<1>7. DoneMeansSaved'
  BY <1>1, ScoringAssumption DEF ScoringAssumption, HandleError, sessionVars, rowVars, queueVars, scoringVars, DoneMeansSaved, AttemptArguments, RowsTogether, Moves, TypeOK, ScoringTypeOK
<1>8. PollKnows'
  BY <1>1, ScoringAssumption DEF ScoringAssumption, HandleError, sessionVars, rowVars, queueVars, scoringVars, PollKnows, PollFindsResult, RowsTogether, TypeOK, ScoringTypeOK, Poll
<1>9. CompletedJobHasResult'
  BY <1>1, ScoringAssumption DEF ScoringAssumption, HandleError, sessionVars, rowVars, queueVars, scoringVars, CompletedJobHasResult, TypeOK, ScoringTypeOK
<1> QED
  BY <1>2, <1>3, <1>4, <1>5, <1>6, <1>7, <1>8, <1>9

(* Asking for the job's state preserves the invariant. *)
LEMMA PollJobStep ==
    ASSUME IInv, NEW s \in Sessions, PollJob(s)
    PROVE  IInv'
<1> USE DEF IInv
<1>1. TRUE
  OBVIOUS
<1>2. TypeOK'
  BY <1>1, ScoringAssumption DEF ScoringAssumption, PollJob, sessionVars, rowVars, queueVars, scoringVars, TypeOK, ScoringTypeOK, Scored, Poll, PollKnows
<1>3. AttemptArguments'
  BY <1>1, ScoringAssumption DEF ScoringAssumption, PollJob, sessionVars, rowVars, queueVars, scoringVars, AttemptArguments, Moves
<1>4. OwnerActive'
  BY <1>1, ScoringAssumption DEF ScoringAssumption, PollJob, sessionVars, rowVars, queueVars, scoringVars, OwnerActive, Moves, TypeOK, ScoringTypeOK
<1>5. RetriesLeft'
  BY <1>1, ScoringAssumption DEF ScoringAssumption, PollJob, sessionVars, rowVars, queueVars, scoringVars, RetriesLeft, TypeOK, ScoringTypeOK
<1>6. RowsTogether'
  BY <1>1, ScoringAssumption DEF ScoringAssumption, PollJob, sessionVars, rowVars, queueVars, scoringVars, RowsTogether, TypeOK, ScoringTypeOK
<1>7. DoneMeansSaved'
  BY <1>1, ScoringAssumption DEF ScoringAssumption, PollJob, sessionVars, rowVars, queueVars, scoringVars, DoneMeansSaved, AttemptArguments, RowsTogether, Moves, TypeOK, ScoringTypeOK
<1>8. PollKnows'
  BY <1>1, ScoringAssumption DEF ScoringAssumption, PollJob, sessionVars, rowVars, queueVars, scoringVars, PollKnows, PollFindsResult, RowsTogether, TypeOK, ScoringTypeOK, Poll
<1>9. CompletedJobHasResult'
  BY <1>1, ScoringAssumption DEF ScoringAssumption, PollJob, sessionVars, rowVars, queueVars, scoringVars, CompletedJobHasResult, TypeOK, ScoringTypeOK
<1> QED
  BY <1>2, <1>3, <1>4, <1>5, <1>6, <1>7, <1>8, <1>9

(* The first read of the endpoint preserves the invariant. *)
LEMMA PollStatusStep ==
    ASSUME IInv, NEW s \in Sessions, PollStatus(s)
    PROVE  IInv'
<1> USE DEF IInv
<1>1. TRUE
  OBVIOUS
<1>2. TypeOK'
  BY <1>1, ScoringAssumption DEF ScoringAssumption, PollStatus, sessionVars, rowVars, queueVars, scoringVars, TypeOK, ScoringTypeOK, Scored, Poll, PollKnows
<1>3. AttemptArguments'
  BY <1>1, ScoringAssumption DEF ScoringAssumption, PollStatus, sessionVars, rowVars, queueVars, scoringVars, AttemptArguments, Moves
<1>4. OwnerActive'
  BY <1>1, ScoringAssumption DEF ScoringAssumption, PollStatus, sessionVars, rowVars, queueVars, scoringVars, OwnerActive, Moves, TypeOK, ScoringTypeOK
<1>5. RetriesLeft'
  BY <1>1, ScoringAssumption DEF ScoringAssumption, PollStatus, sessionVars, rowVars, queueVars, scoringVars, RetriesLeft, TypeOK, ScoringTypeOK
<1>6. RowsTogether'
  BY <1>1, ScoringAssumption DEF ScoringAssumption, PollStatus, sessionVars, rowVars, queueVars, scoringVars, RowsTogether, TypeOK, ScoringTypeOK
<1>7. DoneMeansSaved'
  BY <1>1, ScoringAssumption DEF ScoringAssumption, PollStatus, sessionVars, rowVars, queueVars, scoringVars, DoneMeansSaved, AttemptArguments, RowsTogether, Moves, TypeOK, ScoringTypeOK
<1>8. PollKnows'
  BY <1>1, ScoringAssumption DEF ScoringAssumption, PollStatus, sessionVars, rowVars, queueVars, scoringVars, PollKnows, PollFindsResult, RowsTogether, TypeOK, ScoringTypeOK, Poll
<1>9. CompletedJobHasResult'
  BY <1>1, ScoringAssumption DEF ScoringAssumption, PollStatus, sessionVars, rowVars, queueVars, scoringVars, CompletedJobHasResult, TypeOK, ScoringTypeOK
<1> QED
  BY <1>2, <1>3, <1>4, <1>5, <1>6, <1>7, <1>8, <1>9

(* The second read of the endpoint preserves the invariant. *)
LEMMA PollResultStep ==
    ASSUME IInv, PollResult
    PROVE  IInv'
<1> USE DEF IInv
<1>1. TRUE
  OBVIOUS
<1>2. TypeOK'
  BY <1>1, ScoringAssumption DEF ScoringAssumption, PollResult, sessionVars, rowVars, queueVars, scoringVars, TypeOK, ScoringTypeOK, Scored, Poll, PollKnows
<1>3. AttemptArguments'
  BY <1>1, ScoringAssumption DEF ScoringAssumption, PollResult, sessionVars, rowVars, queueVars, scoringVars, AttemptArguments, Moves
<1>4. OwnerActive'
  BY <1>1, ScoringAssumption DEF ScoringAssumption, PollResult, sessionVars, rowVars, queueVars, scoringVars, OwnerActive, Moves, TypeOK, ScoringTypeOK
<1>5. RetriesLeft'
  BY <1>1, ScoringAssumption DEF ScoringAssumption, PollResult, sessionVars, rowVars, queueVars, scoringVars, RetriesLeft, TypeOK, ScoringTypeOK
<1>6. RowsTogether'
  BY <1>1, ScoringAssumption DEF ScoringAssumption, PollResult, sessionVars, rowVars, queueVars, scoringVars, RowsTogether, TypeOK, ScoringTypeOK
<1>7. DoneMeansSaved'
  BY <1>1, ScoringAssumption DEF ScoringAssumption, PollResult, sessionVars, rowVars, queueVars, scoringVars, DoneMeansSaved, AttemptArguments, RowsTogether, Moves, TypeOK, ScoringTypeOK
<1>8. PollKnows'
  BY <1>1, ScoringAssumption DEF ScoringAssumption, PollResult, sessionVars, rowVars, queueVars, scoringVars, PollKnows, PollFindsResult, RowsTogether, TypeOK, ScoringTypeOK, Poll
<1>9. CompletedJobHasResult'
  BY <1>1, ScoringAssumption DEF ScoringAssumption, PollResult, sessionVars, rowVars, queueVars, scoringVars, CompletedJobHasResult, TypeOK, ScoringTypeOK
<1> QED
  BY <1>2, <1>3, <1>4, <1>5, <1>6, <1>7, <1>8, <1>9

-----------------------------------------------------------------------------
(* The theorems. *)

(* The initial states satisfy the invariant. *)
LEMMA InitInvariant == Init => IInv
<1> SUFFICES ASSUME Init PROVE IInv
  OBVIOUS
<1> USE DEF Init, ScoringInit
<1>1. TypeOK
  BY ScoringAssumption DEF ScoringAssumption, TypeOK, ScoringTypeOK, Scored, Job,
     JobStates, Attempt, Idle, Poll
<1>2. AttemptArguments /\ OwnerActive /\ RetriesLeft
  BY DEF AttemptArguments, OwnerActive, RetriesLeft, Idle
<1>3. RowsTogether /\ DoneMeansSaved /\ PollKnows
  BY DEF RowsTogether, DoneMeansSaved, PollKnows, PollFindsResult, Idle
<1>4. CompletedJobHasResult
  BY DEF CompletedJobHasResult
<1> QED
  BY <1>1, <1>2, <1>3, <1>4 DEF IInv

(* Every step preserves the invariant. *)
LEMMA NextInvariant == IInv /\ [Next]_vars => IInv'
<1> SUFFICES ASSUME IInv, [Next]_vars PROVE IInv'
  OBVIOUS
<1>1. ASSUME NEW a \in Attempts, Advance(a) PROVE IInv'
  BY <1>1, LoadSessionStep, MarkScoringStep, EvaluateStep, SaveScoringResultStep,
     HandleErrorStep, ReportStep DEF Advance
<1>2. ASSUME WorkerNext PROVE IInv'
  BY <1>1, <1>2, FetchStep, ExpireStep, CrashStep DEF WorkerNext
<1>3. CASE UNCHANGED vars
  BY <1>3 DEF vars, scoringVars, IInv, TypeOK, ScoringTypeOK, AttemptArguments,
     OwnerActive, RetriesLeft, RowsTogether, DoneMeansSaved, PollKnows,
     PollFindsResult, CompletedJobHasResult
<1> QED
  BY <1>2, <1>3, SendStep, PollJobStep, PollStatusStep, PollResultStep DEF Next

(* The inductive invariant holds in every reachable state. *)
THEOREM Invariant == Spec => []IInv
  BY InitInvariant, NextInvariant, PTL DEF Spec

(* Type correctness, for every size of the system; retries stay within     *)
(* SCORING_JOB_RETRY_LIMIT.                                                *)
THEOREM TypeCorrect == Spec => []TypeOK
<1>1. IInv => TypeOK
  BY DEF IInv
<1> QED
  BY <1>1, Invariant, PTL

(* A COMPLETED session has both rows of one evaluation. *)
THEOREM CompletedResult == Spec => []CompletedHasResult
<1>1. IInv => CompletedHasResult
  BY DEF IInv, RowsTogether, CompletedHasResult
<1> QED
  BY <1>1, Invariant, PTL

(* A job the queue counts as completed has its result. *)
THEOREM CompletedJobResult == Spec => []CompletedJobHasResult
<1>1. IInv => CompletedJobHasResult
  BY DEF IInv
<1> QED
  BY <1>1, Invariant, PTL

(* The result endpoint never answers 404 after it has seen COMPLETED. *)
THEOREM PollFinds == Spec => []PollFindsResult
<1>1. IInv => PollFindsResult
  BY DEF IInv, PollKnows
<1> QED
  BY <1>1, Invariant, PTL
=============================================================================
