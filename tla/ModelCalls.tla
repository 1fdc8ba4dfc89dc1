----------------------------- MODULE ModelCalls -----------------------------
(***************************************************************************)
(* A call to a language model, from a service that needs one to what it    *)
(* keeps of the answer.  FallbackLlmProvider asks the primary vendor and   *)
(* then the other, BaseLlmVendorProvider asks a vendor again whose answer  *)
(* should be JSON and is not.  The playground may name one vendor.  The    *)
(* scoring worker, the CV parser and the question generator make what they *)
(* store of the JSON: ScoringEvaluation, CvData, QuestionSet.              *)
(*                                                                         *)
(* A call keeps no state that others see, so one at a time is enough; a    *)
(* request to a vendor is a step whose outcome nobody controls.            *)
(***************************************************************************)
EXTENDS ScoringEvaluation, QuestionSet

CONSTANTS
    MaxJsonAttempts,   \* MAX_JSON_ATTEMPTS
    MaxAttempts,       \* MAX_ATTEMPTS of the question generator
    RawEvaluations,    \* JSON that a model may answer the worker,
    RawCvs,            \* the CV parser,
    RawQuestionSets    \* and the question generator: bounds

Code == {"BadRequest", "TooManyRequests", "InternalServerError"}

ASSUME ModelCallsAssumption ==
    /\ {MaxJsonAttempts, MaxAttempts} \subseteq Nat \ {0}
    /\ RawEvaluations \subseteq RawEvaluation
    /\ RawCvs \subseteq ParsedData
    /\ RawQuestionSets \subseteq RawQuestionSet
    /\ None \notin Code \cup {"ok"}

VARIABLES
    configured,   \* the vendors that have a key
    primary,      \* LLM_PRIMARY_PROVIDER
    call,         \* who called, for what and which time, the vendors still to
                  \* be asked, and whether that is the second of two
    attempt,      \* the number of this request to the first of them
    sent,         \* history: requests sent to vendors
    verdict,      \* history: how each vendor's turn ended
    reply,        \* "ok" or an error code when the call has returned
    kept          \* what the caller made of the answer

process == <<configured, primary>>
callVars == <<process, call, attempt, sent, verdict, reply, kept>>

-----------------------------------------------------------------------------
Vendors == {"gemini", "groq"}

(* How a request to a vendor ends: a text, which may be JSON, or a throw.  *)
Thrown == {"rejected", "limited", "failed"}

Completion == {"json", "text", "empty"} \cup Thrown

NoCall == [caller |-> None, mode |-> None, round |-> 0, vendors |-> <<>>,
           second |-> FALSE]

CallInit ==
    /\ configured \in SUBSET Vendors
    /\ primary \in Vendors
    /\ call = NoCall
    /\ attempt = 0
    /\ sent = 0
    /\ verdict = [v \in Vendors |-> None]
    /\ reply = None
    /\ kept = None

-----------------------------------------------------------------------------
Vendor == Head(call.vendors)

Asking == call.vendors # <<>> /\ reply = None

(* parseJsonOutput, and the check that a text is not empty. *)
Usable == IF call.mode = "json" THEN {"json"} ELSE {"json", "text"}

(* mapLlmError, of the status the SDK throws with. *)
ErrorCode(completion) ==
    CASE completion = "rejected" -> "BadRequest"
      [] completion = "limited"  -> "TooManyRequests"
      [] OTHER                   -> "InternalServerError"

(* Broken forms of definitions below, one plausible bug each; none is used. *)

(* A fallback that takes a rate limit for an answer. *)
VendorFails_LimitIsFinal(code) ==
    /\ verdict' = [verdict EXCEPT ![Vendor] = code]
    /\ IF Len(call.vendors) = 2 /\ code = "InternalServerError"
       THEN /\ call' = [call EXCEPT !.vendors = Tail(@), !.second = TRUE]
            /\ attempt' = 1
            /\ reply' = None
       ELSE /\ reply' = code
            /\ UNCHANGED <<call, attempt>>

-----------------------------------------------------------------------------
(* runWithFallbackAsync: a vendor's turn ends with an error.  Only a       *)
(* request that the vendor rejected is not worth asking the other; when    *)
(* both fail neither's error is passed on.                                 *)
VendorFails(code) ==
    /\ verdict' = [verdict EXCEPT ![Vendor] = code]
    /\ \/ /\ Len(call.vendors) = 2
          /\ code # "BadRequest"
          /\ call' = [call EXCEPT !.vendors = Tail(@), !.second = TRUE]
          /\ attempt' = 1
          /\ reply' = None
       \/ /\ Len(call.vendors) = 1 \/ code = "BadRequest"
          /\ reply' = IF call.second THEN "InternalServerError" ELSE code
          /\ UNCHANGED <<call, attempt>>

(* createFallbackLlmProvider: the primary vendor, then the other. *)
Default == <<primary, CHOOSE v \in Vendors : v # primary>>

GenerateJson(caller) ==
    /\ call = NoCall
    /\ call' = [caller |-> caller, mode |-> "json", round |-> 1, vendors |-> Default,
                second |-> FALSE]
    /\ attempt' = 1
    /\ kept' = None
    /\ UNCHANGED <<process, sent, verdict, reply>>

(* The playground: a mode, and the default or one vendor.  In JSON mode it *)
(* is refused here without a schema.                                       *)
RunPlayground(mode, vendors) ==
    /\ call = NoCall
    /\ call' = [caller |-> "playground", mode |-> mode, round |-> 1,
                vendors |-> vendors, second |-> FALSE]
    /\ attempt' = 1
    /\ kept' = None
    /\ UNCHANGED <<process, sent, verdict, reply>>

(* tryCompleteAsync of a vendor without a key. *)
NotConfigured ==
    /\ Asking
    /\ Vendor \notin configured
    /\ VendorFails("InternalServerError")
    /\ UNCHANGED <<process, sent, kept>>

(* ... and of one with a key.  An answer that should be JSON and is not is *)
(* asked for once more, a text is only refused when it is empty.           *)
Complete(completion) ==
    /\ Asking
    /\ Vendor \in configured
    /\ sent' = sent + 1
    /\ \/ /\ completion \in Thrown
          /\ VendorFails(ErrorCode(completion))
       \/ /\ completion \in Usable
          /\ verdict' = [verdict EXCEPT ![Vendor] = "ok"]
          /\ reply' = "ok"
          /\ UNCHANGED <<call, attempt>>
       \/ /\ completion \notin Thrown \cup Usable
          /\ call.mode = "json"
          /\ attempt < MaxJsonAttempts
          /\ attempt' = attempt + 1
          /\ UNCHANGED <<call, verdict, reply>>
       \/ /\ completion \notin Thrown \cup Usable
          /\ call.mode = "text" \/ attempt = MaxJsonAttempts
          /\ VendorFails("InternalServerError")
    /\ UNCHANGED <<process, kept>>

-----------------------------------------------------------------------------
StartOver ==
    /\ sent' = 0
    /\ verdict' = [v \in Vendors |-> None]
    /\ reply' = None

Return ==
    /\ call' = NoCall
    /\ attempt' = 0
    /\ StartOver

Answered(caller) == call.caller = caller /\ reply = "ok"

(* The worker: what throws is retried with the job, what the entities      *)
(* refuse is fatal to it.                                                  *)
Evaluate(raw) ==
    /\ Answered("scoring")
    /\ Return
    /\ IF Throws(raw) THEN kept' = [by |-> "scoring", outcome |-> "retry", raw |-> raw]
       ELSE \E e \in Evaluation(raw) :
              IF ValidScore(e) /\ ValidSummary(e)
              THEN \E score \in CreateScore(e) :
                     kept' = [by |-> "scoring", outcome |-> "stored", raw |-> raw,
                              score |-> score, readable |-> Readable(e)]
              ELSE kept' = [by |-> "scoring", outcome |-> "fatal", raw |-> raw]
    /\ UNCHANGED process

(* The CV parser: data without anything in it is a failed parse. *)
ParseCv(raw) ==
    /\ Answered("cv")
    /\ Return
    /\ LET data == NormalizeParsedData(raw)
       IN  kept' = IF IsParsedDataEmpty(data) THEN None ELSE [by |-> "cv", data |-> data]
    /\ UNCHANGED process

(* The question generator: an answer that breaks the contract is asked for *)
(* once more, with all that a call does; an error is not.                  *)
AttemptQuestions(raw) ==
    /\ Answered("questions")
    /\ LET questions == ValidateQuestionSet(raw)
       IN  \/ /\ questions # None
              /\ Return
              /\ kept' = [by |-> "questions", questions |-> questions, raw |-> raw]
           \/ /\ questions = None
              /\ call.round < MaxAttempts
              /\ call' = [call EXCEPT !.round = @ + 1, !.vendors = Default,
                                      !.second = FALSE]
              /\ attempt' = 1
              /\ StartOver
              /\ UNCHANGED kept
           \/ /\ questions = None
              /\ call.round = MaxAttempts
              /\ Return
              /\ kept' = [by |-> "questions", questions |-> None, raw |-> raw]
    /\ UNCHANGED process

(* generateAsync waits no longer; what still comes is lost. *)
GenerationTimesOut ==
    /\ call.caller = "questions"
    /\ Return
    /\ kept' = None
    /\ UNCHANGED process

(* toHttpException *)
Status(code) ==
    CASE code = "BadRequest"      -> 400
      [] code = "TooManyRequests" -> 429
      [] OTHER                    -> 500

(* The playground's answer, and every error, goes to the client or into    *)
(* the caller's own error handling.                                        *)
PassOn ==
    /\ reply # None
    /\ call.caller = "playground" \/ reply # "ok"
    /\ Return
    /\ kept' = IF call.caller = "playground" /\ reply # "ok"
               THEN [by |-> "client", status |-> Status(reply)] ELSE None
    /\ UNCHANGED process

CallNext ==
    \/ \E caller \in {"scoring", "cv", "questions"} : GenerateJson(caller)
    \/ \E mode \in {"json", "text"}, vendors \in {Default, <<"gemini">>, <<"groq">>} :
        RunPlayground(mode, vendors)
    \/ NotConfigured
    \/ \E completion \in Completion : Complete(completion)
    \/ \E raw \in RawEvaluations : Evaluate(raw)
    \/ \E raw \in RawCvs : ParseCv(raw)
    \/ \E raw \in RawQuestionSets : AttemptQuestions(raw)
    \/ GenerationTimesOut
    \/ PassOn

CallSpec == CallInit /\ [][CallNext]_callVars

-----------------------------------------------------------------------------
(* Properties *)

(* A call fails only when nobody is left to ask: every vendor it may ask   *)
(* had its turn and none of them a usable answer, or the first rejected    *)
(* the request itself.  Until then it has sent no more requests than two   *)
(* vendors with MaxJsonAttempts each make together, the time that a CV's   *)
(* claim and a scoring job's expiry have to allow for.                     *)
FailsWhenAllFailed ==
    /\ sent <= 2 * MaxJsonAttempts
    /\ reply \in Code =>
        /\ \A v \in Vendors : verdict[v] # "ok"
        /\ \/ Len(call.vendors) = 1
           \/ Len(call.vendors) = 2 /\ verdict[primary] = "BadRequest"

(* Whatever JSON the model answers, the job does not end for good because  *)
(* of its scores: they come out as tenths from 0 to 10, only a feedback    *)
(* that is too long is fatal, and an overall score the model did not give  *)
(* lies between the components it is made of.  One it did give is stored   *)
(* as it was given, only clamped and rounded, whatever the formula of      *)
(* docs/api-contract-scoring.md:268.                                       *)
EvaluationStands ==
    kept # None /\ kept.by = "scoring" =>
        /\ kept.outcome = "fatal" => kept.raw.feedback.length > MaxFeedback
        /\ kept.outcome = "stored" =>
            LET s == kept.score
                parts == {s.content, s.relevance, s.confidence}
            IN  /\ parts \cup {s.overall} \subseteq 0 .. 100
                /\ kept.raw.is # "object" \/ kept.raw.overall.is = "missing" =>
                    s.overall \in Min(parts) .. Max(parts)

(* What the parser stored, its owner can edit: sent back as it is, it      *)
(* passes the validation of an edit, and the normalization that follows    *)
(* loses no entry and no skill, up to the blanks that cutting left.        *)
StoredIsEditable ==
    kept # None /\ kept.by = "cv" =>
        LET again == NormalizeParsedData(kept.data)
            Skills(data) == {Lower(Trim(data.skills[i])) : i \in DOMAIN data.skills}
        IN  /\ ValidUpdate(kept.data)
            /\ Len(again.experiences) = Len(kept.data.experiences)
            /\ Len(again.education) = Len(kept.data.education)
            /\ Skills(again) = Skills(kept.data)

(* The contract of a question set asks for no more than the model was told *)
(* but for two things a schema cannot say: what conforms to it is refused  *)
(* only for a blank question or one that is there twice, whatever case and *)
(* blanks they are written with.  And what is saved has neither.           *)
QuestionsStand ==
    kept # None /\ kept.by = "questions" =>
        LET Same(a, b) == Lower(Trim(a)) = Lower(Trim(b))
            asked == kept.raw.questions
            saved == kept.questions
        IN  IF saved = None
            THEN ConformsToSchema(kept.raw) =>
                    \E i, j \in DOMAIN asked :
                        \/ Trim(asked[i].content) = <<>>
                        \/ i # j /\ Same(asked[i].content, asked[j].content)
            ELSE \A i, j \in DOMAIN saved :
                    /\ saved[i].orderIndex = i
                    /\ saved[i].content # <<>>
                    /\ i # j => ~Same(saved[i].content, saved[j].content)
=============================================================================
