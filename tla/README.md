# Specifications of the InterviewIQ backend

TLA+ modules for the parts of the backend whose correctness depends on what
happens *between* two awaits (the interview session and its answers, the
scoring queue and its worker, CVs, refresh tokens, OTPs, accounts and uploaded
files) and for the rules by which it turns a language model's answer into rows.
TLC checks them on small instances, TLAPS proves their safety properties for
every value of the constants. Paths below are relative to the repository's
`src/modules/` unless they start with `docs/`.

## 1. The system

A NestJS server (one process, many concurrent requests) over PostgreSQL
(Prisma), Redis, the pg-boss job queue (in the same PostgreSQL), Cloudinary
(files and videos), two language model vendors and an SMTP server.

| Component | State it keeps | Operations | Interacts with |
|---|---|---|---|
| interview | `interview_sessions` rows: status, total_questions | create, list, get, start, submit | scoring (enqueue), cv (authorize) |
| interview answers | `answers` rows | upload parameters, save answer | interview (row lock), Cloudinary |
| question-generation | `questions` rows | generate (replaces the set), list | interview (row lock), cv (parsed data), language models |
| scoring | pg-boss jobs, `scores`, `interview_summaries`, the session's status | enqueue, handleJob, job status, result | interview (shared row and answers), language models |
| cv | `cvs` rows: parse_status, parsed_data, updated_at | sign upload, create, parse, edit parsed data, list, get | Cloudinary, language models |
| authentication | `users`, `refresh_tokens`; OTPs, attempt counters, pending registrations and reset tokens in Redis | register, resend, verify, login, refresh, logout, forgot, verify reset, reset, change password | user, Redis, SMTP |
| user profile | `users` rows | get, update, avatar | Cloudinary |
| interview-history | none (reads the rows above) | list, detail | |
| llm-playground | none | forwards a prompt | language models |
| shared/llm | none | vendor call, JSON retry, fallback to the second vendor | |
| shared/common, shared/response | none | guards, exceptions, pagination, envelope | |

### What is hard here

* **Interleavings.** Every handler is a chain of awaits. Reads made at the
  start (the status, the questions, a password hash) are old when the handler
  writes. The code answers with guarded `updateMany`s and, for answers and
  questions, a guarded UPDATE at the start of a transaction that keeps the row
  locked until the commit.
* **Two systems, no common transaction.** Submitting commits SUBMITTED and then
  sends the job. Scoring commits its rows and then reports to pg-boss.
* **At-least-once delivery.** pg-boss delivers a job again after a failure or
  an expiry; the attempt that expired runs on.
* **Keys and rows.** OTPs, their counters, pending registrations and reset tokens
  are separate keys of Redis with times to live of their own; what they allow is
  written to PostgreSQL by another call.
* **Waiting changes what is seen.** Under READ COMMITTED an UPDATE that waits for
  a row lock looks at that row again, and at no row that was inserted meanwhile.
* **Files that change under a row.** The browser uploads to Cloudinary by itself;
  the server notes what it finds there, once.
* **Answers nobody controls.** A model may return any JSON; the schema it is
  given is advice.
* **Claims that expire.** A parse holds no lock, only the PROCESSING status,
  which is void after three minutes.
* **Crashes** at any await.

What makes each component correct:

* *interview and answers*: an answer changes only while the interview runs; an
  acknowledged answer is not lost; a session gets at most one scoring job and,
  once acknowledged, it has one; every request is answered.
* *question generation*: the set is frozen once the interview starts, and the
  stored count is the number of the questions.
* *scoring*: COMPLETED means that both rows are there, from one evaluation; a
  job's failure fails its session and its success completes it; every job ends.
* *interview with scoring*: what is graded is what was handed in.
* *cv*: one live parse for each CV; a parse never overwrites a manual edit; a
  CV is never stuck.
* *refresh tokens*: a session has one live token; a rotation prolongs nothing;
  what a revocation of everything found stays dead.
* *OTPs*: one OTP can be guessed at a bounded number of times, however requests
  overlap; a counter never loses its time to live.
* *accounts*: a reset token is used once.
* *files*: a row shows the file it was written for, or for a CV and an avatar a
  later one; never one that is not there.
* *model calls*: a call fails only when every vendor failed; the rows made of an
  answer satisfy the rules that a later edit or read will ask of them.
* *history*: following `hasNext` to the end shows every interview that did not
  leave the list meanwhile.

Not all of this is so: section 6 says what is not, and the properties of the
passing runs say how much of it is.

`PROJECT.json` lists the hazards line by line ("hazards") and the components
("components").

## 2. The modules

| Module | What it is |
|---|---|
| `InterviewSession` | sessions, questions and answers, and their handlers |
| `ScoringPipeline` | the queue, the worker's `handleJob`, the result rows and a client that polls for them |
| `Exam` | abstract specification: a sheet is written, sealed and graded |
| `InterviewScoring` | the two modules over their shared rows, and the refinement of `Exam` |
| `CvParsing` | parsing and editing CVs, with time |
| `LoginSessions` | abstract specification: the session a client sees |
| `AuthSessions` | `refresh_tokens`: login, refresh, logout, revocation of everything, and the refinement of `LoginSessions` |
| `EmailOtp` | one OTP and its counter in Redis, call by call |
| `Accounts` | registration, password reset and change, change of address |
| `ModelCalls` | a call to the vendors and what its caller keeps of the answer |
| `ScoringEvaluation`, `CvData`, `QuestionSet` | the rules of that, as operators |
| `InterviewHistory` | the paged list against a table that grows |
| `Uploads` | files at Cloudinary and the rows that describe them |
| `InterviewScoring_proofs` | theorems about `InterviewSession` and `InterviewScoring` |
| `ModelAnswers_proofs` | lemmas about the rules of model answers |
| `Rules_proofs` | theorems about `ModelCalls`, `InterviewHistory` and `Uploads` |
| `*_proofs`, the others | theorems about the module of that name |
| `MC*` | the model values TLC uses |

The first sections of a module are constants, state and types; the actions
follow in the order of the source; the properties are at its end. Each module
has a section of *broken forms*: variants of its actions with one plausible bug
each. No action uses them; putting one in the place of its action breaks the
property it is paired with in `PROJECT.json` ("mutants"), which shows that the
property watches the code and not the shape of the model.

### InterviewSession

A handler is a slot that serves one request at a time. `req[h].pc` names the
await it stands at; another handler may run at each of them. At rest it keeps
the kind of its last reply.

| Action | Code |
|---|---|
| `CreateInterviewSession` | `interview.service.ts` createInterviewSessionAsync |
| `AuthorizeStart`, `StartInterviewSession` | startInterviewSessionAsync: the first read; the guarded UPDATE |
| `AuthorizeSubmit`, `SubmitInterviewSession`, `EnqueueScoring`, `ReplyQueued` | submitInterviewSessionAsync: the read, the guarded UPDATE, `boss.send`, the 202 |
| `AuthorizeQuestion`, `GetVideo`, `LockForAnswer`, `SaveAnswer` | `interview-answer.service.ts` saveAnswerAsync and the transaction of `interview-answer.repo.ts` |
| `GetGenerationContext`, `GenerateQuestions`, `LockForQuestions`, `ReplaceQuestions` | `question-generation.service.ts` and the transaction of its repository |
| `RejectRequest` | the refusals of the first reads |
| `Abort` | a database error, a lost connection or a crash at any await; an open transaction is rolled back and its lock freed |

A transaction is two steps, the guarded UPDATE that takes the row lock
(`rowLock`) and the commit. Single UPDATEs are one step and wait for the lock,
as PostgreSQL does, evaluating their WHERE after the wait. A generated question
set is any nonempty set of question values; a new row may reuse the value of an
old one that the same transaction deletes. Between the commit and the reply the
connection may break (`ReplyCommitted`). `acked` is a history variable: the
questions whose save a 200 acknowledged.

### ScoringPipeline

An attempt is one execution of `handleJob`; `att[a].pc` is its await. pg-boss is
external and modelled from how the code configures and uses it: a job is handed
to one attempt (`owner`), a report of the owner or an expiry (`Expire`) moves it
on, with up to `RetryLimit` retries. An expired job's attempt runs on as a
straggler whose writes land. A report may be lost. `Crash` ends all attempts
and leaves the jobs active. `countDelivered` is chosen once: whether pg-boss
hands out a job's `retryCount` (the worker does not ask for metadata and falls
back to 0).

| Action | Code |
|---|---|
| `Fetch`, `Report` | `scoring-worker.service.ts` onModuleInit, and the end of handleJob |
| `LoadSession` | findSessionForScoring |
| `MarkScoring` | updateSessionStatus: unconditional |
| `Evaluate` | the adapter, `Score.create`, `Summary.create`: a grade, an error, or a fatal violation of the rules |
| `SaveScoringResult` | the transaction of saveScoringResult; it may commit and lose its reply |
| `HandleError` | the catch block: markSessionFailed under its guard, and the rethrow |
| `PollJob` | getJobStatusAsync, which shows a client that its job is completed |
| `PollStatus`, `PollResult` | the two reads of getSessionResultAsync; the first may refuse |

The pacing delay before `handleJob` is part of an attempt's wait at `load`.
Sessions are never deleted, so the worker's "session not found" return is not
reachable and not modelled.

### Exam and InterviewScoring

`Exam` has one sheet for each session: created, running, written on, sealed,
graded. `InterviewScoring` runs the handlers and the worker over the same
`status`, `answers` and `sent`. The mapping sends a session's status to a phase
(every status from SUBMITTED on is *sealed*), the answers to the sheet and the
score row to the grade. A worker's write waits for no row lock because it
always finds the row unlocked; `AttemptsFindSealedRow` says so. The result
endpoint only reads and rests here.

### CvParsing

`age[c]` is the time since the row's `updated_at`, `Tick` a unit of time. A
parse is claim, read-back, pipeline, save; its save is by id, unconditionally.
`elapsed` is the time since the claim, and a parse is saved or dead after
`MaxParse`: download (20 s) and four vendor calls (two vendors, two JSON
attempts) of `LLM_TIMEOUT_MS`, 140 s by default, against the 180 s of
`PARSE_STALE_AFTER_MS`. `CvAssumption` says that this fits. It is an assumption
about the *configuration*: with `LLM_TIMEOUT_MS` above 40 s it is false, and
then a live parse can be taken for a dead one. What the code computes between
its timed calls is taken to be short. Claiming and its read-back are two
steps; requests that are refused change nothing and are left out. `edited` is
a history variable: what the last manual edit saved.

### AuthSessions

A row of `refresh_tokens` is a token with its session, expiry and revocation.
Accounts share no row and no WHERE, so there is one account.

| Action | Code (`authentication/`) |
|---|---|
| `Login`, `IssueTokenPair` | `auth.service.ts` loginAsync: the password compared; the token created |
| `DetectReuse`, `Refresh`, `RotateUpdate`, `RotateCommit` | refreshAsync, with its grace period, and the transaction of rotateRefreshTokenAsync in `refresh-token.repo.ts` |
| `Logout`, `RevokeByHash` | logoutAsync |
| `UpdatePassword`, `BeginRevokeAll`, `RevokeAll` | resetPasswordAsync, changePasswordAsync and detected reuse: the statement's snapshot, then its writes |
| `Abort`, `Tick` | a failure at any await, with the rollback; the clock |

`RevokeAll` is the statement after its waits: it revokes the tokens of its
snapshot that are still live and sees no later one. `ended` is a history
variable: what an acknowledged revocation of everything found live.

`LoginSessions` has no tokens: a login opens a session with a deadline, sessions
are ended, alone or several at once, and time passes. The mapping names a
session by its login's token. It is open while one of its tokens is live, and
then expires with that token. A rotation is a stutter; the abstract session
does not promise that a revocation of everything ends *every* session, which the
code does not do (section 6).

### EmailOtp

One purpose and one address: registration and reset run the same code on keys of
their own. A key is the time it has left. `RequestOtp` to `ResetFailedAttempts`
are issuing an OTP, `CheckOtp`, `IncrementFailedAttempts`, `LockOut` and
`CleanUpOtp` checking one, each a call to Redis; the counter's INCR and EXPIRE are one
step, a MULTI. `ResetFailedAttempts` may fail and is only
logged. `invited` counts the wrong guesses that were answered with an
invitation to go on; `quiet` and `early` are history for the cooldown.

### Accounts

One address and the accounts that may hold it. The OTP is there or not: how it
is guarded is the module before; what a new password does to the sessions is
`AuthSessions`. `Expire` takes any key at any time. Registration is
`Register`, `SavePendingRegistration`, `IssueOtp`, then `VerifyRegistration`,
`FindPendingRegistration`, `CreateUser` (the unique index decides), `CleanUp`,
`LogIn`; a reset is `RequestPasswordReset`, `VerifyPasswordResetOtp`,
`SaveResetToken`, `ResetPassword`, `FindUserToReset`, `UpdateUserPassword`,
`RevokeSessions`, `DeleteResetToken`; `ChangePassword` joins it at the update.
A request notes the token it was sent with (`token`: the latest, or one that a newer
has replaced since); `resets` is a history variable, the resets that the latest
token has served and that deleted it.
`UpdateProfile` (`user/application/services/user-profile.service.ts`) may give
the address to another account or take it away.

### ModelCalls, ScoringEvaluation, CvData, QuestionSet

A call keeps no shared state, so one at a time is enough. `Complete` is one
request to a vendor with any outcome, the vendor's JSON retry and the fallback;
`PassOn` is the HTTP status of an error. A caller then draws any raw answer:
`Evaluate` (scoring worker), `ParseCv` (CV parser), `AttemptQuestions` (question
generator, up to `MAX_ATTEMPTS` calls under one timeout). What it makes of the
answer are operators in the order of the source: clamping, rounding and the
entities' rules; cleaning, cutting and dropping entries, and the validation of an
edit; the schema and the contract of a question set. Scores are integers
(hundredths in, tenths out); where `toFixed(1)` could go either way both results
are allowed. A text is a short sequence over a letter, its capital, a blank and a NUL, because
the properties depend on exactly these.
The shapes a raw answer may have are sets (`RawEvaluation`, `ParsedData`,
`RawQuestionSet`): the answers TLC draws are some of their members, the theorems
hold for all of them.

### InterviewHistory and Uploads

A page of the list is two queries without a transaction (`FindRows`,
`CountRows`, in either order), and interviews are created (`CreateInterview`) and
change their status (`Proceed`) before, between and after them. A client
repeats one query, with any filters, from the first page for as long as `hasNext`.
What may cost it an interview is counted by two history variables: `left`, how
often an interview left the list being read (its status no longer matches, and
all behind it move up), and `torn`, how many entered it between a page's count and
its rows. Statuses are three: one that is left for good (CREATED), and two that
may follow each other in both directions, as SCORING and COMPLETED do when a job
is delivered again. `MaxLeft` bounds `left` for TLC; the theorem has it arbitrary.

In `Uploads` a public id holds at most one file; files are numbered in the
order of their uploads. What the signed parameters let a second upload replace
is `Overwritable`: CVs, not videos. Saving is the server's read of Cloudinary and
then its write, with other requests between. `File` is only a number and a size
against the two limits (the row's and the parser's).

## 3. The runs

| Run | Instance | What it shows |
|---|---|---|
| `interview` | 2 handlers, 1 session, 2 questions, 1 video | the locks and guards of the interview handlers; liveness |
| `scoring` | 2 attempts, 1 session, 2 grades, 2 retries | rows and status, a completed job and its rows, what a poll finds; every job ends |
| `system` | 2 handlers, 2 attempts, 1 question, 1 retry | `ImplementsExam`, `AckedAnswersGraded` |
| `cv_parsing` | 3 handlers, 2 CVs, 2 contents, `Stale = MaxParse = 2` | exclusivity of parses, edits kept, no CV stuck |
| `sessions` | 2 requests, 3 tokens, 1 unit of time, no grace | rows and locks of refresh tokens, `ImplementsLoginSessions`; liveness |
| `accounts` | 2 requests, 2 accounts, 2 passwords; 3 requests, 3 attempts, an OTP of 3 units | bounds on the resets that one token serves and on the guesses at one OTP |
| `rules` | about 1,000 raw answers; 3 interviews, 2 times, 2 page sizes, 1 departure; 2 requests, 2 videos, 1 CV, 2 uploads | the rules of model answers, what a client that reads page by page may miss, the files |
| `find_*` | the instance of the module's other run | the divergences of section 6 |

Why the bounds are enough: sessions do not share state (a lock, a job and the
rows are per session), so one session shows every race; two handlers show every
race between two operations, and a handler that is done starts another request,
so chains of any length occur. Two questions let a set grow, shrink and change.
Two attempts are a straggler and its successor, the most that overlap on one job unless two
expiries hit the same stall; retries are bounded by the job, and two of them
give a first, a middle and a last attempt. Two grades tell a retry's evaluation
from the straggler's. The `system` run has one question and one retry because
the races inside each module are covered by its own run. In `cv_parsing` the
parse may last exactly as long as the claim, the edge of `CvAssumption`.

In `sessions` two requests are a rotation and whatever waits for its row, and
three tokens are a login, its successor and one more of either kind. Its time
lets a token expire while it is rotated and a revoked one be presented after the
grace period (`Grace = 0`). `accounts` runs two parts that share nothing,
`Accounts` and `EmailOtp`, each with the other at rest; `part` picks one. Two
requests on the accounts are two resets, or a reset and the issue of a newer token.
On the OTP a third request lets an issue, a check and a lock-out overlap; the other
key lives exactly as long as the OTP, and three units let it be older. `rules` has
three such parts. Its three interviews with two times have ties, pages of one and of
two have full and partial last pages, and one departure is enough to make a page
skip. Lengths are cut to 2 or 3, and the raw
answers lie around every edge: a text of one more than the limit, a score on a
rounding half, a list longer than the limit, each kind of value that is not what
the schema says. Two uploads are the one that was read and the one that replaces
it.

`scoring` does not check for deadlock: when the job has ended nothing is left to
do. `system` and `accounts` use symmetry
(handlers are interchangeable, attempts and accounts too) and check only safety;
the runs with liveness use none.

### Fairness

* `InterviewSession`: strong fairness of each handler's own steps. A step that
  waits for a row lock is enabled only while the lock is free; PostgreSQL
  queues the waiters of a row, so a waiter is not passed over forever. Awaits
  on Cloudinary and the vendors have timeouts. Clients owe nothing, `Abort` need not
  happen.
* `ScoringPipeline`: the worker polls (strong fairness of fetching a job, since
  attempts may be busy in between), awaits return, the pg-boss monitor expires
  active jobs. Crashes, lost replies and submissions owe nothing.
* `CvParsing`: awaits return and time passes (strong, as `Tick` waits for a
  parse that is out of time). Nobody has to parse again.
* `AuthSessions`: strong fairness of each request's own steps; the queue for a
  row lock is first come, first served, and a rotation that holds a row waits
  for no other. (Two revocations of everything that meet row by row are settled by
  PostgreSQL, at worst by ending one: `Abort`.) Failures and the clock owe nothing.
* The other modules state no liveness: every request of theirs is a straight
  line of calls that wait for nobody.

## 4. What is proved

For any number of sessions, questions, handlers, attempts, CVs, tokens,
accounts, files and uploads, any retry and attempt limit, any times to live and
any timeouts that fit; any answer of a model, with texts and lists of any
length and any limits on them; any table, filter and page size of the list:

* `InterviewScoring_proofs`, of `InterviewSession`: `TypeOK`, `AtMostOneJob`,
  `AckedSubmitHasJob`, `AckedAnswersKept`, `CountMatchesQuestions`,
  `AnswersChangeOnlyInProgress`, `QuestionsFrozenOnceStarted`; of
  `InterviewScoring`: `ImplementsExam` (the refinement of `Exam`),
  `AckedAnswersGraded`, `AttemptsFindSealedRow`.
* `ScoringPipeline_proofs`: `TypeOK`, `CompletedHasResult`,
  `CompletedJobHasResult`, `PollFindsResult`.
* `CvParsing_proofs`: `TypeOK`, `OneParser`, `EditKept`, `CompletedHasData`,
  `CompletedIsFinal`.
* `AuthSessions_proofs`: `TypeOK`, `OneLiveToken`, `KnownTokensEnd`,
  `RevokedForGood`, `ImplementsLoginSessions` (the refinement of `LoginSessions`).
* `EmailOtp_proofs`: `TypeOK`, `GuessesBounded`.
* `Accounts_proofs`: `TypeOK`, `ResetsBounded`.
* `Rules_proofs`, of `ModelCalls`: `FailsWhenAllFailed`, `EvaluationStands`,
  `StoredIsEditable`, `QuestionsStand`; of `InterviewHistory`: `NothingSkipped`;
  of `Uploads`: `RowsShowTheirFiles`.

With these a theorem states every safety property that a run checks.

The assumptions are the named ASSUMEs of the modules: `None` is no other value,
there are finitely many questions and handlers of OTPs and accounts, retry and attempt limits,
the limits of lengths and the page sizes are positive, the OTP outlives its
cooldown, public ids of CVs, videos and avatars differ, `MaxParse <= Stale`, and
raw answers have the shapes named above. A field of a type that the code does
not expect is `None` or `"other"` there, so the shapes leave out no JSON
that the code tells apart.

Each proof has an inductive invariant, `IInv` or one named for its part: the
properties with what they need and do not say.

* *InterviewSession.* A handler inside a transaction owns its row's lock
  (`LockOwned`), and a locked row still has the status the lock was taken for
  (`LockedStatus`), because every write of the status waits for the lock. So a
  commit finds the status its guard saw. `OneSubmission`: at most one handler
  stands between the UPDATE to SUBMITTED and its enqueue, and only while no job
  was sent. `BlankBeforeStart`: before the start there is no answer to lose.
  `Arguments` types the request's fields by its await.
* *ScoringPipeline.* `RowsTogether`: the two result rows are always equal, or
  both absent, because only one transaction writes them, and it writes both.
  `DoneMeansSaved` and `OwnerActive` tie a successful report to a saved
  result. `RetriesLeft` bounds the retries. `PollKnows`: rows that were there stay there.
* *InterviewScoring.* It takes the invariant of the handlers over:
  the worker does not disturb it, as it writes only rows that are past `Open`
  (`HandlersUndisturbed`). In return a session with a job keeps its answers
  (`SealedStays`), so what an attempt loaded is still what was handed in
  (`Works`), and so is what was graded (`Graded`). With that each step is one of
  `Exam` or a stutter.
* *CvParsing.* `ClaimHeld`: a running parse's row is PROCESSING and exactly as
  old as the parse. So it is at most `MaxParse` old, not stale, and the claim's
  guard excludes it. `EditorsSeeCompleted`: the row of a running edit stays
  COMPLETED, as nothing claims such a row.
* *AuthSessions.* The lock carries the proof: one request at most has updated
  a row without having committed (`OneLock`), and the row stays live until it
  does (`RequestsHold`), since every other writer waits. A token about to be inserted has
  no row and one owner (`NewIsFresh`), and every token leads to that of its
  login (`RowsRooted`): so an insert joins the session of the token it replaces.
  All its tokens expire with the login's (`AbsoluteExpiry`).
  That session was open, as the row was live until the commit, so the step is a
  stutter of `LoginSessions` (`RotationUnseen`); whatever only revokes tokens ends
  the sessions it leaves without one (`RevocationEnds`).
* *EmailOtp.* Guesses are paid for in advance (`Budget`): each way the count can
  start over while the OTP lives (a handler about to delete the counter, a
  counter older than the OTP) is worth the guesses it would allow, and the sum of
  what was guessed and what is left never grows. The bound is
  `(MaxAttempts - 1) * (handlers + 2)`: linear in the requests that overlap, and
  not `MaxAttempts`.
* *Accounts.* `Carries`: a request carries what it will write from the moment it
  found it, so no write depends on what became of the keys since. `Spent`: as long
  as the latest token is there no reset has deleted it; a reset that still may is
  a handler, and each that did is a handler less. So the resets done and those on
  their way are never more than the handlers.
* *ModelCalls, the fallback* (`CallInv`). `Budget`: the requests sent are bounded
  by the turns that are over and the attempts of this one. `TurnsTaken`: there
  is a second turn only after the primary vendor's has failed, and a usable
  answer ends the call. So an error that reaches the caller has both failures
  before it.
* *ModelCalls, what is kept* (`Keeping`). One lemma for each rule says what it
  makes of any answer, and the invariant is that what is kept was made by it.
  The rules are folds, and the theorems on induction cannot be used: so each
  fold is shown to be what its recursion says up to every n (`FoldExists`,
  `FoldRuns`), the counterexample with the least n being impossible
  (`LeastNumber`, `UpTo`). `NulFold`, `CleanListFold` and `CollectFold` are the
  three folds of the code. On top of them, a text that is kept is trimmed,
  without a NUL and in its length, so cleaning it again changes nothing
  (`TrimTwice`, `KeptStays`), and the data an edit sends back unchanged passes its
  validation (`KeptSurvives`); a score is clamped before it is averaged, and
  the average of numbers in a range is in it (`ClampedInRange`, `OverallInRange`).
* *InterviewHistory* (`HistoryInv`). A session's place is the number of those before
  it (`PlaceIsRank`). One that enters the list only moves others back
  (`EnteringLosesNone`), and one that leaves it moves at most one over the edge of
  what was shown (`LeavingLosesOne`). So what the client has not seen is still to
  come, or is lost, and the lost are no more than the departures
  (`UnseenIsLostOrToCome`, `LostFew`). The count that a page was told of ends the
  list only when the rows have ended, but for those that came between the two
  (`Counted`, `LastPage`).
* *Uploads* (`UploadsInv`). What is under an id stays, is replaced by later
  uploads only, and under a video's not at all (`AssetStep`); a request carries
  a file it has seen there (`Carries`); only a CV that is saved is parsed
  (`Parsing`).

`CallInv` and `HistoryInv` were first checked by TLC on the instance of the run
`rules`.

Only model-checked: the liveness properties (`RequestsAnswered` twice,
`JobsEnd`, `NeverStuck`), which are outside what the prover handles.

## 5. What is not modelled, and the plan

* *Read-only endpoints*: single reads of one row (a session, a CV, the detail of
  an interview).
* *JWT, hashing, SMTP, the vendors' SDKs, the thin database clients*: stateless
  adapters; what the callers rely on is in the modules that use them.
* *Guards, controllers, DTO decorators, the response envelope*: each request is
  checked before it reaches the state the modules have. The HTTP status of a
  model call's error is modelled (`PassOn`).
* *Prompts, and the clean-up of the text of a PDF* (`cv-text.ts`): wording and layout.
* *`prisma/seed.ts`, `scripts/`, `.agents/`, tests, static pages*: not part of the
  running backend.

Hazards that no property covers are in `PROJECT.json` with the reason: a login
that read its password before a reset and opens its session after it, two
verifications of one registration, a refresh that is sent again after the grace
period, and a null in a list of strengths, which is stored and then makes every
read of the result throw. The models contain the behaviour, but no doc, comment
or test says what should happen.

The plan was to go from the interview with its scoring to the CVs, then to
authentication, then to the pure rules, and that is done. What is left is a
module of the sessions and the accounts together, with the password that a login
compared, once it is decided what a login that overlaps a reset may do.

## 6. Findings

* **A failed enqueue cannot be retried** (`find_submit_retry`).
  `docs/interview-answer-upload.md:173` says that a session whose enqueueing
  failed stays SUBMITTED and that the client retries the endpoint. The code
  accepts only IN_PROGRESS (`interview.service.ts:165`), so every retry is
  refused with 400 and the session never gets a job.
* **A job can fail for good without failing its session**
  (`find_scoring_failure`). `docs/api-contract-scoring.md:54-57` has the worker
  mark the session FAILED when the retries are used up. An attempt that cannot
  load the session has nothing to mark, and one that is handed no retry count
  counts itself as the first. The job fails and the session stays SUBMITTED or
  SCORING.
* **A completed job whose result is refused** (`find_completed_job`).
  `docs/api-contract-scoring.md:162` pairs a COMPLETED job with a COMPLETED session,
  and `:206`, `:306` and the sample client at `:356-360` fetch the result at once. An
  attempt whose job expired before `updateSessionStatus` (`scoring.repo.ts:84`,
  unconditional) takes the session back to SCORING after the retry has completed
  it. The job stays COMPLETED, the endpoint answers 400. The rows are there all
  the while (`CompletedJobHasResult`).
* **A session survives a password change** (`find_logout_everywhere`). The
  comments at `auth.service.ts:500` and `:574` have every old session end. A
  rotation that has locked its row when `revokeAllRefreshTokensForUser` begins
  inserts its new token after that statement's snapshot; the statement then
  finds the old row revoked and does not see the new one. `KnownTokensEnd` says
  what is true: the tokens it found end.
* **The cooldown ends with the OTP** (`find_otp_cooldown`). `auth.service.ts:41`
  promises no new OTP until the last is a cooldown old. Its age is read from the
  key, which goes when the OTP is used or locked out: the next mail may follow
  at once.

Four more differences have no run of their own.

* *A job goes on after its session was failed.* By the diagram at
  `docs/api-contract-scoring.md:54-57` a permanent error marks the session FAILED and
  sends the job to the archive. `handleJob` marks it and rethrows
  (`scoring-worker.service.ts:259-274`), and pg-boss retries as long as retries are
  left: a rejected score is evaluated again, and what counts itself as the last
  attempt is one short of it. A client may see FAILED, then SCORING and COMPLETED.
  `ScoringPipeline` does all of this (`HandleError`, `FailedJob`).
* *A reset token serves resets that overlap.* `auth.service.ts:508` calls the token
  single-use. A reset reads it first and deletes it last, by a DEL that does not
  tell whether it was there. `ResetsBounded` says how many get through.
* *The overall score is the model's.* `docs/api-contract-scoring.md:267-268` gives one
  formula for it. `Score.create` (`scoring-job.entity.ts:55`) uses it only when the
  answer has no overall score; of one that it has `EvaluationStands` only says
  that it is in range.
* *Answers are taken only in IN_PROGRESS.* By `docs/interview-answer-upload.md:5` they
  are uploaded and saved in CREATED as well; the code asks for IN_PROGRESS, and so
  do `SignVideo` and the steps that save.

`CountMatchesQuestions` holds until submission: nothing ties the number the client
sends then to the number of questions. `docs/api-contract-interview-history.md:223`
admits that rows at the borders of pages may be repeated or skipped while the list
changes; `NothingSkipped` says by how many, and that creations alone skip nothing
unless one falls between the two queries of the last page.

## 7. Running the checks

    tlc -workers 2 -config MCInterviewSession.cfg MCInterviewSession
    tlapm InterviewScoring_proofs.tla

and likewise for the others; `PROJECT.json` names the module and the
configuration of every run.
