---------------------------- MODULE Rules_proofs ----------------------------
(***************************************************************************)
(* Theorems about the modules that MCRules checks together: ModelCalls,    *)
(* for any answers of the right shape; InterviewHistory, for any number of *)
(* interviews and pages; and Uploads, for any number of files and requests.*)
(*                                                                         *)
(* Calls, CallInv: the requests that were sent are bounded by the turns    *)
(* that are over (Budget), and a second turn follows a failed first        *)
(* (TurnsTaken).                                                           *)
(*                                                                         *)
(* The list, HistoryInv: a client passes over a session only when another  *)
(* left the list (LostFew), and the count that is read with the rows of a  *)
(* page hides no more than entered after it (Counted).  A session's place  *)
(* is the number of those before it (PlaceIsRank); a session that leaves   *)
(* takes at most one other over the place that was reached, for no two     *)
(* have the same rank (LeavingLosesOne), and one that enters takes none    *)
(* (EnteringLosesNone).                                                    *)
(*                                                                         *)
(* Uploads, UploadsInv: what lies under an id never goes away, is only     *)
(* replaced by what was uploaded later, and not at all under a video's id  *)
(* (AssetStep).  And a request carries a file it has seen there (Carries), *)
(* so what it writes down is at most out of date.                          *)
(***************************************************************************)
EXTENDS ModelAnswers_proofs, ModelCalls, InterviewHistory, Uploads

(***************************************************************************)
(* Calls to language models: a call fails only when all have failed, ...   *)
(***************************************************************************)
Turns == {Default, <<"gemini">>, <<"groq">>}

Calling ==
    [caller : {"scoring", "cv", "questions", "playground"}, mode : {"json", "text"},
     round : Nat, vendors : Turns, second : BOOLEAN]

CallTyped ==
    /\ primary \in Vendors
    /\ call \in Calling \cup {NoCall}
    /\ attempt \in Nat
    /\ sent \in Nat
    /\ verdict \in [Vendors -> Code \cup {"ok", None}]
    /\ reply \in Code \cup {"ok", None}

(* Nothing is left of a call that is over. *)
AtRest ==
    call = NoCall =>
        sent = 0 /\ reply = None /\ verdict = [v \in Vendors |-> None]

(* The requests so far: all the first vendor may get when it is the        *)
(* second's turn, and the one under way is not sent yet.                   *)
Budget ==
    call # NoCall =>
        /\ attempt \in 1 .. MaxJsonAttempts
        /\ sent <= (IF call.second THEN MaxJsonAttempts ELSE 0)
                    + (IF reply = None THEN attempt - 1 ELSE attempt)

(* The primary vendor had its turn before the other, and failed; a usable  *)
(* answer is the end of the call.                                          *)
TurnsTaken ==
    /\ call # NoCall /\ call.second =>
        Len(call.vendors) = 1 /\ Vendor # primary /\ verdict[primary] # "ok"
    /\ \A v \in Vendors : verdict[v] = "ok" => reply = "ok"
    /\ call # NoCall /\ Len(call.vendors) = 2 /\ reply \in Code => verdict[primary] = "BadRequest"

CallInv == CallTyped /\ AtRest /\ Budget /\ TurnsTaken

-----------------------------------------------------------------------------
(* A turn is a vendor's, and a second turn the other vendor's. *)
LEMMA TurnFacts ==
  ASSUME primary \in Vendors, NEW turn \in Turns
  PROVE  /\ turn # <<>>
         /\ Head(turn) \in Vendors
         /\ Len(turn) \in {1, 2}
         /\ Len(turn) = 2 =>
              /\ Head(turn) = primary
              /\ Tail(turn) \in Turns
              /\ Len(Tail(turn)) = 1
              /\ Head(Tail(turn)) # primary
<1> DEFINE other == CHOOSE v \in Vendors : v # primary
<1>1. other \in Vendors /\ other # primary
    BY DEF Vendors
<1>2. Default = <<primary, other>>
    BY DEF Default
<1> HIDE DEF other
<1>3. CASE turn = Default
    <2>1. Tail(turn) = <<other>>
        BY <1>2, <1>3
    <2>2. <<other>> \in Turns
        BY <1>1 DEF Turns, Vendors
    <2> QED
        BY <1>1, <1>2, <1>3, <2>1, <2>2
<1>4. CASE turn \in {<<"gemini">>, <<"groq">>}
    BY <1>4 DEF Vendors
<1> QED
    BY <1>3, <1>4 DEF Turns

(* Nobody is in a call whose turns are none. *)
LEMMA InCall ==
  ASSUME CallTyped
  PROVE  /\ call # NoCall <=> call \in Calling
         /\ call.vendors # <<>> <=> call # NoCall
<1>1. ASSUME call \in Calling PROVE call.vendors # <<>>
    BY <1>1, TurnFacts DEF CallTyped, Calling
<1>2. NoCall.vendors = <<>>
    BY DEF NoCall
<1> QED
    BY <1>1, <1>2 DEF CallTyped

(* What a vendor's failure leaves behind. *)
LEMMA VendorFailsStep ==
  ASSUME CallInv, call # NoCall, reply = None, NEW code \in Code, VendorFails(code),
         sent' \in Nat, sent' <= (IF call.second THEN MaxJsonAttempts ELSE 0) + attempt,
         UNCHANGED process
  PROVE  CallInv'
<1>t. CallTyped /\ AtRest /\ Budget /\ TurnsTaken
    BY DEF CallInv
<1>c. call \in Calling
    BY <1>t, InCall
<1>v. /\ Vendor \in Vendors
      /\ Len(call.vendors) \in {1, 2}
      /\ Len(call.vendors) = 2 =>
            /\ Vendor = primary
            /\ Tail(call.vendors) \in Turns
            /\ Len(Tail(call.vendors)) = 1
            /\ Head(Tail(call.vendors)) # primary
    BY <1>t, <1>c, TurnFacts DEF CallTyped, Calling, Vendor
<1>n. MaxJsonAttempts \in Nat \ {0} /\ None \notin Code \cup {"ok"} /\ code # "ok"
    BY ModelCallsAssumption DEF Code
<1>w. /\ verdict' \in [Vendors -> Code \cup {"ok", None}]
      /\ verdict'[Vendor] = code
      /\ \A v \in Vendors : v # Vendor => verdict'[v] = verdict[v]
    BY <1>t, <1>v DEF VendorFails, CallTyped
<1>p. primary' \in Vendors /\ attempt \in Nat /\ Calling' = Calling
    BY <1>t DEF CallTyped, process, Calling, Turns, Default
<1>1. CASE /\ Len(call.vendors) = 2
           /\ code # "BadRequest"
           /\ call' = [call EXCEPT !.vendors = Tail(@), !.second = TRUE]
           /\ attempt' = 1
           /\ reply' = None
    <2>1. /\ call' \in Calling
          /\ call'.vendors = Tail(call.vendors)
          /\ call'.second
        BY <1>1, <1>c, <1>v DEF Calling
    <2>2. ~call.second
        BY <1>t, <1>1 DEF TurnsTaken
    <2>3. CallTyped'
        BY <1>p, <1>1, <1>w, <2>1 DEF CallTyped
    <2>4. call' # NoCall
        <3>1. NoCall.second = FALSE
            BY DEF NoCall
        <3> QED
            BY <2>1, <3>1
    <2>5. Budget'
        BY <1>t, <1>1, <1>n, <2>1, <2>2 DEF Budget, CallTyped
    <2>6. TurnsTaken'
        BY <1>t, <1>1, <1>n, <1>v, <1>w, <2>1 DEF TurnsTaken, Vendor, process
    <2> QED
        BY <2>3, <2>4, <2>5, <2>6 DEF CallInv, AtRest
<1>2. CASE /\ Len(call.vendors) = 1 \/ code = "BadRequest"
           /\ reply' = IF call.second THEN "InternalServerError" ELSE code
           /\ UNCHANGED <<call, attempt>>
    <2>1. reply' \in Code
        BY <1>2 DEF Code
    <2>2. reply' # None /\ call' = call /\ attempt' = attempt
        BY <1>2, <1>n, <2>1
    <2>3. CallTyped'
        BY <1>p, <1>c, <1>w, <2>1, <2>2 DEF CallTyped
    <2>4. Budget'
        BY <1>t, <2>2 DEF Budget, CallTyped
    <2>5. call'.second => Len(call'.vendors) = 1 /\ Vendor' # primary' /\ verdict'[primary'] # "ok"
        BY <1>t, <1>c, <1>n, <1>w, <2>2 DEF TurnsTaken, Vendor, process, CallTyped
    <2>6. \A v \in Vendors : verdict'[v] # "ok"
        BY <1>t, <1>n, <1>w DEF TurnsTaken
    <2>7. Len(call'.vendors) = 2 => verdict'[primary'] = "BadRequest"
        BY <1>2, <1>v, <1>w, <2>2 DEF process
    <2> HIDE <1>2
    <2>8. TurnsTaken'
        BY <2>5, <2>6, <2>7 DEF TurnsTaken
    <2> QED
        BY <1>t, <2>2, <2>3, <2>4, <2>8 DEF CallInv, AtRest
<1> QED
    BY <1>1, <1>2 DEF VendorFails

(* A call begins, or begins again: its first vendor's turn. *)
LEMMA BeginStep ==
  ASSUME CallTyped, UNCHANGED process, call' \in Calling, ~call'.second, attempt' = 1,
         sent' = 0, reply' = None, verdict' = [v \in Vendors |-> None]
  PROVE  CallInv'
<1>n. MaxJsonAttempts \in Nat \ {0} /\ None \notin Code \cup {"ok"}
    BY ModelCallsAssumption
<1>p. primary' \in Vendors /\ Calling' = Calling
    BY DEF CallTyped, process, Calling, Turns, Default
<1>1. CallTyped'
    BY <1>p DEF CallTyped
<1>2. Budget'
    BY <1>n DEF Budget
<1>3. TurnsTaken'
    BY <1>n DEF TurnsTaken
<1> QED
    BY <1>1, <1>2, <1>3 DEF CallInv, AtRest

(* A call is over. *)
LEMMA ReturnStep == CallTyped /\ UNCHANGED process /\ Return => CallInv'
<1> SUFFICES ASSUME CallTyped, UNCHANGED process, Return PROVE CallInv'
    OBVIOUS
<1>n. None \notin Code \cup {"ok"}
    BY ModelCallsAssumption
<1>1. CallTyped'
    BY DEF CallTyped, process, Return, StartOver
<1> QED
    BY <1>1, <1>n DEF CallInv, AtRest, Budget, TurnsTaken, Return, StartOver

(* Every step preserves the invariant. *)
LEMMA CallStep == CallInv /\ [CallNext]_callVars => CallInv'
<1> SUFFICES ASSUME CallInv, [CallNext]_callVars PROVE CallInv'
    OBVIOUS
<1>t. CallTyped /\ AtRest /\ Budget /\ TurnsTaken
    BY DEF CallInv
<1>n. MaxJsonAttempts \in Nat \ {0} /\ None \notin Code \cup {"ok"}
    BY ModelCallsAssumption
<1>r. ASSUME Return, UNCHANGED process PROVE CallInv'
    BY <1>t, <1>r, ReturnStep
<1>0. CASE UNCHANGED callVars
    BY <1>t, <1>0 DEF callVars, process, CallInv, CallTyped, Calling, Turns, Default, AtRest, Budget,
       TurnsTaken, Vendor
<1>1. ASSUME NEW caller \in {"scoring", "cv", "questions"}, GenerateJson(caller) PROVE CallInv'
    <2>1. call' \in Calling /\ ~call'.second
        BY <1>1 DEF GenerateJson, Calling, Turns
    <2> QED
        BY <1>t, <1>1, <2>1, BeginStep DEF GenerateJson, AtRest
<1>2. ASSUME NEW mode \in {"json", "text"}, NEW vendors \in {Default, <<"gemini">>, <<"groq">>},
             RunPlayground(mode, vendors)
      PROVE  CallInv'
    <2>1. call' \in Calling /\ ~call'.second
        BY <1>2 DEF RunPlayground, Calling, Turns
    <2> QED
        BY <1>t, <1>2, <2>1, BeginStep DEF RunPlayground, AtRest
<1>b. ASSUME call # NoCall, reply = None
      PROVE  /\ attempt \in 1 .. MaxJsonAttempts
             /\ sent \in Nat
             /\ sent + 1 <= (IF call.second THEN MaxJsonAttempts ELSE 0) + attempt
             /\ sent <= (IF call.second THEN MaxJsonAttempts ELSE 0) + attempt
    BY <1>t, <1>b, <1>n DEF Budget, CallTyped
<1>3. CASE NotConfigured
    <2>1. call # NoCall /\ reply = None
        BY <1>t, <1>3, InCall DEF NotConfigured, Asking
    <2>2. "InternalServerError" \in Code
        BY DEF Code
    <2> QED
        BY <1>b, <1>3, <2>1, <2>2, VendorFailsStep DEF NotConfigured
<1>4. ASSUME NEW completion \in Completion, Complete(completion) PROVE CallInv'
    <2>1. call # NoCall /\ reply = None /\ sent' = sent + 1 /\ UNCHANGED process
        BY <1>t, <1>4, InCall DEF Complete, Asking
    <2>c. call \in Calling
        BY <1>t, <2>1, InCall
    <2>2. ASSUME NEW code \in Code, VendorFails(code) PROVE CallInv'
        BY <1>b, <2>1, <2>2, VendorFailsStep
    <2>p. primary' \in Vendors /\ Calling' = Calling
        BY <1>t, <2>1 DEF CallTyped, process, Calling, Turns, Default
    <2>3. CASE /\ verdict' = [verdict EXCEPT ![Vendor] = "ok"]
               /\ reply' = "ok"
               /\ UNCHANGED <<call, attempt>>
        <3>w. verdict' \in [Vendors -> Code \cup {"ok", None}]
            BY <1>t, <2>3 DEF CallTyped
        <3>s. sent' \in Nat /\ attempt' \in Nat /\ call' \in Calling
            BY <1>t, <2>1, <2>3, <2>c DEF CallTyped
        <3>1. CallTyped'
            BY <2>3, <2>p, <3>w, <3>s DEF CallTyped
        <3>2. Budget'
            BY <1>b, <1>n, <2>1, <2>3 DEF Budget
        <3>3. Vendor' = Vendor /\ primary' = primary
            BY <2>1, <2>3 DEF Vendor, process
        <3>4. call.second => verdict'[primary] # "ok"
            BY <1>t, <2>1, <2>3 DEF CallTyped, TurnsTaken
        <3>5. TurnsTaken'
            BY <1>t, <2>1, <2>3, <3>3, <3>4 DEF TurnsTaken, Code
        <3> QED
            BY <2>1, <2>3, <3>1, <3>2, <3>5 DEF CallInv, AtRest
    <2>4. CASE /\ attempt < MaxJsonAttempts
               /\ attempt' = attempt + 1
               /\ UNCHANGED <<call, verdict, reply>>
        <3>1. CallTyped'
            BY <1>t, <1>b, <2>1, <2>4, <2>p, <2>c DEF CallTyped
        <3>2. Budget'
            BY <1>b, <1>n, <2>1, <2>4 DEF Budget
        <3>3. Vendor' = Vendor /\ primary' = primary
            BY <2>1, <2>4 DEF Vendor, process
        <3>4. TurnsTaken'
            BY <1>t, <2>4, <3>3 DEF TurnsTaken
        <3> QED
            BY <2>1, <2>4, <3>1, <3>2, <3>4 DEF CallInv, AtRest
    <2>5. ErrorCode(completion) \in Code /\ "InternalServerError" \in Code
        BY DEF ErrorCode, Code
    <2> QED
        BY <1>4, <2>2, <2>3, <2>4, <2>5 DEF Complete
<1>5. ASSUME NEW raw \in RawQuestionSets, AttemptQuestions(raw) PROVE CallInv'
    <2>1. CASE /\ call' = [call EXCEPT !.round = @ + 1, !.vendors = Default, !.second = FALSE]
               /\ attempt' = 1
               /\ StartOver
        <3>1. call \in Calling
            BY <1>t, <1>5, <1>n, InCall DEF AttemptQuestions, Answered, AtRest
        <3>a. call.round + 1 \in Nat /\ Default \in Turns
            BY <3>1 DEF Calling, Turns
        <3>b. call' = [caller |-> call.caller, mode |-> call.mode, round |-> call.round + 1,
                       vendors |-> Default, second |-> FALSE]
            BY <2>1, <3>1 DEF Calling
        <3>2. call' \in Calling /\ ~call'.second
            BY <3>1, <3>a, <3>b DEF Calling
        <3> QED
            BY <1>t, <1>5, <2>1, <3>2, BeginStep DEF AttemptQuestions, StartOver
    <2> QED
        BY <1>5, <1>r, <2>1 DEF AttemptQuestions
<1>6. ASSUME NEW raw \in RawEvaluations, Evaluate(raw) PROVE CallInv'
    BY <1>6, <1>r DEF Evaluate
<1>7. ASSUME NEW raw \in RawCvs, ParseCv(raw) PROVE CallInv'
    BY <1>7, <1>r DEF ParseCv
<1>8. CASE GenerationTimesOut
    BY <1>8, <1>r DEF GenerationTimesOut
<1>9. CASE PassOn
    BY <1>9, <1>r DEF PassOn
<1> QED
    BY <1>0, <1>1, <1>2, <1>3, <1>4, <1>5, <1>6, <1>7, <1>8, <1>9 DEF CallNext

(* However the vendors answer, a call fails only when nobody is left to    *)
(* ask, and it has sent at most twice MaxJsonAttempts requests.            *)
THEOREM FallbackIsExhausted == CallSpec => []FailsWhenAllFailed
<1>1. CallInit => CallInv
    <2> SUFFICES ASSUME CallInit PROVE CallInv
        OBVIOUS
    <2>n. None \notin Code \cup {"ok"}
        BY ModelCallsAssumption
    <2>1. CallTyped
        BY DEF CallInit, CallTyped
    <2> QED
        BY <2>1, <2>n DEF CallInit, CallInv, AtRest, Budget, TurnsTaken
<1>2. CallInv => FailsWhenAllFailed
    <2> SUFFICES ASSUME CallInv PROVE FailsWhenAllFailed
        OBVIOUS
    <2>t. CallTyped /\ AtRest /\ Budget /\ TurnsTaken
        BY DEF CallInv
    <2>n. MaxJsonAttempts \in Nat \ {0} /\ None \notin Code \cup {"ok"} /\ "ok" \notin Code
        BY ModelCallsAssumption DEF Code
    <2>1. sent <= 2 * MaxJsonAttempts
        BY <2>t, <2>n DEF Budget, AtRest, CallTyped
    <2>2. ASSUME reply \in Code PROVE call \in Calling
        BY <2>t, <2>2, <2>n, InCall DEF AtRest
    <2>3. call \in Calling => Len(call.vendors) \in {1, 2}
        BY <2>t, TurnFacts DEF CallTyped, Calling
    <2>4. reply \in Code => \A v \in Vendors : verdict[v] # "ok"
        BY <2>t, <2>n DEF TurnsTaken
    <2>5. reply \in Code => call # NoCall
        BY <2>t, <2>2, InCall
    <2> QED
        BY <2>t, <2>1, <2>2, <2>3, <2>4, <2>5 DEF FailsWhenAllFailed, TurnsTaken
<1> QED
    BY <1>1, <1>2, CallStep, PTL DEF CallSpec

-----------------------------------------------------------------------------
(***************************************************************************)
(* ... and what is kept of an answer stands.                               *)
(***************************************************************************)
(* Who keeps something of an answer, and what. *)
LEMMA Keeping ==
  ASSUME [CallNext]_callVars
  PROVE  \/ kept' \in {kept, None}
         \/ kept'.by = "client"
         \/ kept'.by = "scoring" /\ \E raw \in RawEvaluations : Evaluate(raw)
         \/ /\ kept'.by = "cv"
            /\ \E raw \in RawCvs : kept'.data = NormalizeParsedData(raw)
         \/ kept'.by = "questions" /\ \E raw \in RawQuestionSets : AttemptQuestions(raw)
<1> DEFINE Goal ==
        \/ kept' \in {kept, None}
        \/ kept'.by = "client"
        \/ kept'.by = "scoring" /\ \E raw \in RawEvaluations : Evaluate(raw)
        \/ /\ kept'.by = "cv"
           /\ \E raw \in RawCvs : kept'.data = NormalizeParsedData(raw)
        \/ kept'.by = "questions" /\ \E raw \in RawQuestionSets : AttemptQuestions(raw)
<1>1. ASSUME NEW raw \in RawEvaluations, Evaluate(raw) PROVE Goal
    <2>1. kept'.by = "scoring"
        BY <1>1 DEF Evaluate
    <2> QED
        BY <1>1, <2>1
<1>2. ASSUME NEW raw \in RawCvs, ParseCv(raw) PROVE Goal
    <2> DEFINE data == NormalizeParsedData(raw)
    <2>1. kept' = None \/ kept' = [by |-> "cv", data |-> data]
        BY <1>2 DEF ParseCv
    <2>2. kept' = None \/ (kept'.by = "cv" /\ kept'.data = data)
        <3> HIDE DEF data
        <3> QED
            BY <2>1
    <2> QED
        BY <2>2
<1>3. ASSUME NEW raw \in RawQuestionSets, AttemptQuestions(raw) PROVE Goal
    <2>1. kept' = kept \/ kept'.by = "questions"
        BY <1>3 DEF AttemptQuestions
    <2> QED
        BY <1>3, <2>1
<1>4. ASSUME PassOn PROVE Goal
    <2>1. kept' = None \/ kept'.by = "client"
        BY <1>4 DEF PassOn
    <2> QED
        BY <2>1
<1>5. ASSUME kept' \in {kept, None} PROVE Goal
    BY <1>5
<1> HIDE DEF Goal
<1>6. Goal
    BY <1>1, <1>2, <1>3, <1>4, <1>5 DEF CallNext, callVars, GenerateJson, RunPlayground,
       NotConfigured, Complete, GenerationTimesOut
<1> QED
    BY <1>6 DEF Goal

(* Whatever CV data a model answers, what is stored of it can be sent back *)
(* as an edit: it is valid, and no entry and no skill of it is lost.       *)
THEOREM ParsedCvsStand == CallSpec => []StoredIsEditable
<1>1. CallInit => StoredIsEditable
    BY DEF CallInit, StoredIsEditable
<1>2. StoredIsEditable /\ [CallNext]_callVars => StoredIsEditable'
    <2> SUFFICES ASSUME StoredIsEditable, [CallNext]_callVars PROVE StoredIsEditable'
        OBVIOUS
    <2>1. ASSUME kept' \in {kept, None} PROVE StoredIsEditable'
        BY <2>1 DEF StoredIsEditable
    <2>2. ASSUME NEW raw \in RawCvs, kept'.data = NormalizeParsedData(raw)
          PROVE  StoredIsEditable'
        <3>1. kept'.data \in KeptData
            BY <2>2, NormalizedIsKept, ModelCallsAssumption
        <3> QED
            BY <3>1, KeptIsValid, KeptSurvives DEF StoredIsEditable
    <2>3. ASSUME kept'.by # "cv" PROVE StoredIsEditable'
        BY <2>3 DEF StoredIsEditable
    <2> QED
        BY <2>1, <2>2, <2>3, Keeping
<1> QED
    BY <1>1, <1>2, PTL DEF CallSpec

(* Either way of ending an attempt leaves questions that stand. *)
LEMMA AttemptStep ==
  ASSUME NEW raw \in RawQuestionSet, QuestionsStand, AttemptQuestions(raw)
  PROVE  QuestionsStand'
<1>1. CASE UNCHANGED kept
    BY <1>1 DEF QuestionsStand
<1>2. CASE kept' = [by |-> "questions", questions |-> ValidateQuestionSet(raw), raw |-> raw]
    <2>1. kept'.questions = ValidateQuestionSet(raw) /\ kept'.raw = raw
        BY <1>2
    <2>2. CASE ValidateQuestionSet(raw) = None
        BY <2>1, <2>2, RefusedSet DEF QuestionsStand
    <2>3. CASE ValidateQuestionSet(raw) # None
        BY <2>1, <2>3, AcceptedSet DEF QuestionsStand
    <2> QED
        BY <2>2, <2>3
<1> QED
    BY <1>1, <1>2 DEF AttemptQuestions

(* What is saved has no blank question and none twice, and a set that      *)
(* conforms to the schema is refused for nothing else.                     *)
THEOREM QuestionSetsStand == CallSpec => []QuestionsStand
<1>1. CallInit => QuestionsStand
    BY DEF CallInit, QuestionsStand
<1>2. QuestionsStand /\ [CallNext]_callVars => QuestionsStand'
    <2> SUFFICES ASSUME QuestionsStand, [CallNext]_callVars PROVE QuestionsStand'
        OBVIOUS
    <2>1. ASSUME kept' \in {kept, None} PROVE QuestionsStand'
        BY <2>1 DEF QuestionsStand
    <2>2. ASSUME NEW raw \in RawQuestionSets, AttemptQuestions(raw) PROVE QuestionsStand'
        BY <2>2, AttemptStep, ModelCallsAssumption
    <2>3. ASSUME kept'.by # "questions" PROVE QuestionsStand'
        BY <2>3 DEF QuestionsStand
    <2> QED
        BY <2>1, <2>2, <2>3, Keeping
<1> QED
    BY <1>1, <1>2, PTL DEF CallSpec

(* What the worker stores is a score, and only a long feedback is fatal. *)
LEMMA EvaluateStep ==
  ASSUME NEW raw \in RawEvaluation, Evaluate(raw)
  PROVE  EvaluationStands'
<1>1. CASE Throws(raw)
    <2>1. kept' = [by |-> "scoring", outcome |-> "retry", raw |-> raw]
        BY <1>1 DEF Evaluate
    <2>2. kept'.outcome = "retry"
        BY <2>1
    <2> QED
        BY <2>2 DEF EvaluationStands
<1>2. CASE ~Throws(raw)
    <2>1. PICK e \in Evaluation(raw) :
            IF ValidScore(e) /\ ValidSummary(e)
            THEN \E score \in CreateScore(e) :
                    kept' = [by |-> "scoring", outcome |-> "stored", raw |-> raw,
                             score |-> score, readable |-> Readable(e)]
            ELSE kept' = [by |-> "scoring", outcome |-> "fatal", raw |-> raw]
        BY <1>2 DEF Evaluate
    <2>2. CASE ValidScore(e) /\ ValidSummary(e)
        <3>1. PICK score \in CreateScore(e) :
                kept' = [by |-> "scoring", outcome |-> "stored", raw |-> raw,
                         score |-> score, readable |-> Readable(e)]
            BY <2>1, <2>2
        <3>2. kept'.outcome = "stored" /\ kept'.raw = raw /\ kept'.score = score
            BY <3>1
        <3> QED
            BY <3>2, OverallInRange DEF EvaluationStands
    <2>3. CASE ~(ValidScore(e) /\ ValidSummary(e))
        <3>1. kept' = [by |-> "scoring", outcome |-> "fatal", raw |-> raw]
            BY <2>1, <2>3
        <3>2. kept'.outcome = "fatal" /\ kept'.raw = raw
            BY <3>1
        <3>3. ValidScore(e) /\ e.feedback = Feedback(raw)
            BY EvaluationInRange DEF ValidScore
        <3>4. Feedback(raw) \notin 1 .. MaxFeedback
            BY <2>3, <3>3 DEF ValidSummary
        <3>5. raw.feedback.length \in Nat /\ raw.feedback.length > MaxFeedback
            BY <3>4, EvaluationAssumption DEF Feedback, RawEvaluation
        <3> QED
            BY <3>2, <3>5 DEF EvaluationStands
    <2> QED
        BY <2>2, <2>3
<1> QED
    BY <1>1, <1>2

(* Scores in the range, for any JSON: no job ends for good because of them. *)
THEOREM ScoresStand == CallSpec => []EvaluationStands
<1>1. CallInit => EvaluationStands
    BY DEF CallInit, EvaluationStands
<1>2. EvaluationStands /\ [CallNext]_callVars => EvaluationStands'
    <2> SUFFICES ASSUME EvaluationStands, [CallNext]_callVars PROVE EvaluationStands'
        OBVIOUS
    <2>1. ASSUME kept' \in {kept, None} PROVE EvaluationStands'
        BY <2>1 DEF EvaluationStands
    <2>2. ASSUME NEW raw \in RawEvaluations, Evaluate(raw) PROVE EvaluationStands'
        BY <2>2, EvaluateStep, ModelCallsAssumption
    <2>3. ASSUME kept'.by # "scoring" PROVE EvaluationStands'
        BY <2>3 DEF EvaluationStands
    <2> QED
        BY <2>1, <2>2, <2>3, Keeping
<1> QED
    BY <1>1, <1>2, PTL DEF CallSpec

-----------------------------------------------------------------------------
(***************************************************************************)
(* The list of interviews.                                                 *)
(***************************************************************************)
Asked ==
    [from : Times \cup {NoValue}, to : Times \cup {NoValue},
     status : Statuses \cup {NoValue}, size : PageSizes, page : Nat \ {0}]

HistoryTyped ==
    /\ created \in Seq(Times)
    /\ status \in Seq(Statuses)
    /\ Len(status) = Len(created)
    /\ client \in {"elsewhere", "reading", "atEnd"}
    /\ IF client = "elsewhere" THEN seen = {} /\ left = 0 /\ torn = 0 ELSE query \in Asked
    /\ items # NoValue \/ total # NoValue => client = "reading"
    /\ total \in Nat \cup {NoValue}
    /\ expected \subseteq Sessions
    /\ left \in Nat
    /\ torn \in Nat

(* The sessions of a list before s; how many they are is its rank.  *)
Ahead(list, s) == {t \in list : Before(t, s)}

Rank(list, s) == Cardinality(Ahead(list, s))

(* Of the sessions that are to be shown: those that are not in the list or *)
(* are before the place that the client has reached.                       *)
LostOf(list, wanted, place) ==
    {s \in wanted : s \notin list \/ Rank(list, s) < place}

Unseen == IF items = NoValue THEN expected \ seen ELSE expected \ (seen \cup items)

Reached == IF items = NoValue THEN (query.page - 1) * query.size ELSE query.page * query.size

Lost == LostOf(Matching(query), Unseen, Reached)

(* How much m is above n. *)
Excess(m, n) == IF m > n THEN m - n ELSE 0

(* While a list is read only sessions that left it cost others their place *)
(* (LostFew), and no count that was read with the rows of a page hides     *)
(* more of what is still to come than entered after it (Counted).          *)
LostFew == client = "reading" => Cardinality(Lost) <= left

Counted ==
    client = "reading" /\ total # NoValue =>
        IF items = NoValue THEN Cardinality(Matching(query)) <= total + torn
        ELSE Cardinality(Unseen) <= left + Excess(total + torn, query.page * query.size)

HistoryInv == HistoryTyped /\ LostFew /\ Counted /\ NothingSkipped

-----------------------------------------------------------------------------
(* The order of the list is total: of two sessions one is before the       *)
(* other, and not the other way round, ...                                 *)
LEMMA BeforeIsTotal ==
  ASSUME created \in Seq(Times), NEW s \in Sessions, NEW t \in Sessions
  PROVE  /\ s \in Nat
         /\ ~Before(s, s)
         /\ s # t => (Before(s, t) <=> ~Before(t, s))
<1>0. s \in DOMAIN created /\ t \in DOMAIN created
    BY DEF Sessions
<1>1. s \in Nat /\ t \in Nat /\ created[s] \in Times /\ created[t] \in Times
    BY <1>0
<1>2. created[s] \in Nat /\ created[t] \in Nat
    BY <1>1, HistoryAssumption
<1> QED
    BY <1>1, <1>2 DEF Before

(* ... and what is before it is before what follows it. *)
LEMMA BeforeIsTransitive ==
  ASSUME created \in Seq(Times), NEW s \in Sessions, NEW t \in Sessions, NEW u \in Sessions,
         Before(s, t), Before(t, u)
  PROVE  Before(s, u)
<1>1. /\ s \in DOMAIN created /\ t \in DOMAIN created /\ u \in DOMAIN created
    BY DEF Sessions
<1>2. /\ s \in Nat /\ t \in Nat /\ u \in Nat
      /\ created[s] \in Times /\ created[t] \in Times /\ created[u] \in Times
    BY <1>1
<1>3. created[s] \in Nat /\ created[t] \in Nat /\ created[u] \in Nat
    BY <1>2, HistoryAssumption
<1> QED
    BY <1>2, <1>3 DEF Before

(* A set of places in a table is finite, whichever of its states the table *)
(* is in.                                                                  *)
LEMMA PlacesAreFinite ==
  ASSUME NEW table \in Seq(Times), NEW found, found \subseteq DOMAIN table
  PROVE  IsFiniteSet(found) /\ Cardinality(found) \in Nat
<1>1. DOMAIN table = 1 .. Len(table) /\ Len(table) \in Nat
    OBVIOUS
<1>2. IsFiniteSet(DOMAIN table)
    BY <1>1, FS_Interval
<1>3. IsFiniteSet(found)
    BY <1>2, FS_Subset
<1> QED
    BY <1>3, FS_CardinalityType

(* A session that is in a list has a rank below the length of the list. *)
LEMMA RankFacts ==
  ASSUME created \in Seq(Times), NEW list, list \subseteq Sessions, NEW s
  PROVE  /\ IsFiniteSet(list) /\ Cardinality(list) \in Nat
         /\ IsFiniteSet(Ahead(list, s))
         /\ Rank(list, s) \in Nat
         /\ s \in list => Rank(list, s) < Cardinality(list)
<1>1. IsFiniteSet(list) /\ Cardinality(list) \in Nat
    BY PlacesAreFinite DEF Sessions
<1>2. Ahead(list, s) \subseteq list
    BY DEF Ahead
<1>3. IsFiniteSet(Ahead(list, s)) /\ Rank(list, s) <= Cardinality(list)
    BY <1>1, <1>2, FS_Subset DEF Rank
<1>4. Rank(list, s) \in Nat
    BY <1>3, FS_CardinalityType DEF Rank
<1>5. ASSUME s \in list PROVE Rank(list, s) # Cardinality(list)
    <2>1. s \notin Ahead(list, s)
        BY <1>5, BeforeIsTotal DEF Ahead
    <2> QED
        BY <1>1, <1>2, <1>5, <2>1, FS_Subset DEF Rank
<1> QED
    BY <1>1, <1>3, <1>4, <1>5

(* What is before another session has the smaller rank. *)
LEMMA RankIsStrict ==
  ASSUME created \in Seq(Times), NEW list, list \subseteq Sessions,
         NEW s \in list, NEW t \in list, s # t
  PROVE  /\ Before(s, t) => Rank(list, s) < Rank(list, t)
         /\ Rank(list, s) # Rank(list, t)
<1>1. ASSUME NEW a \in list, NEW b \in list, Before(a, b)
      PROVE  Rank(list, a) < Rank(list, b)
    <2>1. Ahead(list, a) \subseteq Ahead(list, b)
        <3> SUFFICES ASSUME NEW u \in Ahead(list, a) PROVE u \in Ahead(list, b)
            OBVIOUS
        <3>1. u \in list /\ Before(u, a)
            BY DEF Ahead
        <3>2. Before(u, b)
            BY <1>1, <3>1, BeforeIsTransitive
        <3> QED
            BY <3>1, <3>2 DEF Ahead
    <2>2. a \in Ahead(list, b) /\ a \notin Ahead(list, a)
        BY <1>1, BeforeIsTotal DEF Ahead
    <2>3. IsFiniteSet(Ahead(list, b)) /\ Rank(list, a) \in Nat /\ Rank(list, b) \in Nat
        BY RankFacts
    <2>4. Rank(list, a) <= Rank(list, b) /\ Rank(list, a) # Rank(list, b)
        BY <2>1, <2>2, <2>3, FS_Subset DEF Rank
    <2> QED
        BY <2>3, <2>4
<1>2. Before(s, t) \/ Before(t, s)
    BY BeforeIsTotal
<1>3. Rank(list, s) \in Nat /\ Rank(list, t) \in Nat
    BY RankFacts
<1> QED
    BY <1>1, <1>2, <1>3

(* Without x a session's rank is less by one if x was before it. *)
LEMMA RankWithout ==
  ASSUME created \in Seq(Times), NEW list, list \subseteq Sessions, NEW x \in list, NEW s
  PROVE  Rank(list \ {x}, s) = IF Before(x, s) THEN Rank(list, s) - 1 ELSE Rank(list, s)
<1>1. Ahead(list \ {x}, s) = Ahead(list, s) \ {x}
    BY DEF Ahead
<1>2. x \in Ahead(list, s) <=> Before(x, s)
    BY DEF Ahead
<1>3. IsFiniteSet(Ahead(list, s))
    BY RankFacts
<1> QED
    BY <1>1, <1>2, <1>3, FS_RemoveElement DEF Rank

(* When a session leaves the list at most one is lost: it itself, or the   *)
(* first of those behind it that were still to come.                       *)
LEMMA LeavingLosesOne ==
  ASSUME created \in Seq(Times), NEW list, list \subseteq Sessions, NEW x \in list,
         NEW wanted, wanted \subseteq Sessions, NEW place \in Nat
  PROVE  Cardinality(LostOf(list \ {x}, wanted, place))
            <= Cardinality(LostOf(list, wanted, place)) + 1
<1> DEFINE before == LostOf(list, wanted, place)
           after == LostOf(list \ {x}, wanted, place)
<1>1. ASSUME NEW y \in after, y \notin before, y # x
      PROVE  y \in list /\ Before(x, y) /\ Rank(list, y) = place
    <2>1. y \in list /\ ~(Rank(list, y) < place) /\ Rank(list \ {x}, y) < place
        BY <1>1 DEF LostOf
    <2>2. Rank(list, y) \in Nat
        BY RankFacts
    <2>3. Rank(list \ {x}, y) = IF Before(x, y) THEN Rank(list, y) - 1 ELSE Rank(list, y)
        BY RankWithout
    <2> QED
        BY <2>1, <2>2, <2>3
<1>2. \E z : after \subseteq before \cup {z}
    <2>1. ASSUME NEW y \in after, y \notin before, y # x PROVE after \subseteq before \cup {y}
        <3> SUFFICES ASSUME NEW v \in after, v \notin before, v # y PROVE FALSE
            OBVIOUS
        <3>1. y \in list /\ Before(x, y) /\ Rank(list, y) = place
            BY <1>1, <2>1
        <3>2. CASE v = x
            <4>1. Rank(list, x) < place
                BY <2>1, <3>1, RankIsStrict
            <4> QED
                BY <3>2, <4>1 DEF LostOf
        <3>3. CASE v # x
            <4>1. v \in list /\ Rank(list, v) = place
                BY <1>1, <3>3
            <4> QED
                BY <3>1, <4>1, RankIsStrict
        <3> QED
            BY <3>2, <3>3
    <2>2. CASE \A y \in after : y \notin before => y = x
        BY <2>2
    <2> QED
        BY <2>1, <2>2
<1>3. PICK z : after \subseteq before \cup {z}
    BY <1>2
<1>4. before \subseteq DOMAIN created
    BY DEF LostOf, Sessions
<1>5. IsFiniteSet(before) /\ Cardinality(before) \in Nat
    BY <1>4, PlacesAreFinite
<1> HIDE DEF before, after
<1>6. /\ IsFiniteSet(before \cup {z})
      /\ Cardinality(before \cup {z}) <= Cardinality(before) + 1
      /\ Cardinality(before \cup {z}) \in Nat
    <2>1. /\ IsFiniteSet(before \cup {z})
          /\ Cardinality(before \cup {z}) =
                IF z \in before THEN Cardinality(before) ELSE Cardinality(before) + 1
        BY <1>5, FS_AddElement
    <2> QED
        BY <1>5, <2>1
<1>7. Cardinality(after) <= Cardinality(before \cup {z}) /\ Cardinality(after) \in Nat
    BY <1>3, <1>6, FS_Subset, FS_CardinalityType
<1> QED
    BY <1>5, <1>6, <1>7 DEF before, after

(* When a session enters the list, be it new, none is lost. *)
LEMMA EnteringLosesNone ==
  ASSUME created \in Seq(Times), created' \in Seq(Times),
         NEW list, list \subseteq Sessions, NEW longer, list \subseteq longer,
         longer \subseteq DOMAIN created',
         \A s \in Sessions : created'[s] = created[s],
         NEW wanted, wanted \subseteq Sessions, NEW place \in Nat
  PROVE  Cardinality(LostOf(longer, wanted, place)') <= Cardinality(LostOf(list, wanted, place))
<1>1. ASSUME NEW s \in wanted PROVE Rank(list, s) <= Rank(longer, s)' /\ Rank(longer, s)' \in Nat
    <2>1. Ahead(list, s) \subseteq Ahead(longer, s)'
        <3> SUFFICES ASSUME NEW t \in Ahead(list, s) PROVE t \in Ahead(longer, s)'
            OBVIOUS
        <3>1. t \in list /\ Before(t, s) /\ t \in Sessions /\ s \in Sessions
            BY DEF Ahead
        <3>2. Before(t, s)'
            BY <3>1 DEF Before
        <3> QED
            BY <3>1, <3>2 DEF Ahead
    <2>2. Ahead(longer, s)' \subseteq DOMAIN created'
        BY DEF Ahead
    <2>3. IsFiniteSet(Ahead(longer, s)')
        BY <2>2, PlacesAreFinite
    <2>4. Rank(longer, s)' = Cardinality(Ahead(longer, s)')
        BY DEF Rank
    <2> QED
        BY <2>1, <2>3, <2>4, FS_Subset, FS_CardinalityType DEF Rank
<1>2. LostOf(longer, wanted, place)' \subseteq LostOf(list, wanted, place)
    <2> SUFFICES ASSUME NEW s \in LostOf(longer, wanted, place)', s \in list
                 PROVE  Rank(list, s) < place /\ s \in wanted
        BY DEF LostOf
    <2>1. s \in wanted /\ Rank(longer, s)' < place
        BY DEF LostOf
    <2>2. Rank(list, s) \in Nat
        BY RankFacts
    <2> QED
        BY <1>1, <2>1, <2>2
<1>3. LostOf(list, wanted, place) \subseteq DOMAIN created
    BY DEF LostOf, Sessions
<1> QED
    BY <1>2, <1>3, PlacesAreFinite, FS_Subset

(* What is not lost is still to come, and of that there is no more than    *)
(* the list has behind the place that was reached.                         *)
LEMMA UnseenIsLostOrToCome ==
  ASSUME created \in Seq(Times), NEW list, list \subseteq Sessions,
         NEW wanted, wanted \subseteq Sessions, NEW place \in Nat,
         NEW n \in Nat, Cardinality(list) <= n
  PROVE  Cardinality(wanted) <= Cardinality(LostOf(list, wanted, place)) + Excess(n, place)
<1> DEFINE lost == LostOf(list, wanted, place)
           coming == {s \in list : Rank(list, s) >= place}
           length == Cardinality(list)
           ranks == place .. (length - 1)
           f == [s \in coming |-> Rank(list, s)]
<1>1. /\ length \in Nat
      /\ \A s \in list : Rank(list, s) \in Nat /\ Rank(list, s) < length
    BY RankFacts
<1>2. f \in Injection(coming, ranks)
    <2>1. \A s \in coming : f[s] = Rank(list, s) /\ f[s] \in ranks
        BY <1>1
    <2>2. \A s, t \in coming : f[s] = f[t] => s = t
        BY <2>1, RankIsStrict
    <2> QED
        BY <2>1, <2>2 DEF Injection, IsInjective
<1>3. /\ IsFiniteSet(ranks)
      /\ Cardinality(ranks) = IF place > length - 1 THEN 0 ELSE length - 1 - place + 1
    <2>1. place \in Int /\ length - 1 \in Int
        BY <1>1
    <2> HIDE DEF length
    <2> QED
        BY <2>1, FS_Interval
<1>4. /\ IsFiniteSet(coming) /\ Cardinality(coming) \in Nat
      /\ Cardinality(coming) <= Excess(length, place)
    <2>1. IsFiniteSet(coming) /\ Cardinality(coming) <= Cardinality(ranks)
        BY <1>2, <1>3, FS_Injection
    <2>2. Cardinality(coming) \in Nat
        BY <2>1, FS_CardinalityType
    <2>3. Cardinality(ranks) = Excess(length, place)
        BY <1>1, <1>3 DEF Excess
    <2> QED
        BY <2>1, <2>2, <2>3
<1>5. lost \subseteq DOMAIN created /\ wanted \subseteq lost \cup coming
    <2>1. lost \subseteq DOMAIN created
        BY DEF LostOf, Sessions
    <2>2. ASSUME NEW s \in wanted, s \notin lost PROVE s \in coming
        <3>1. s \in list /\ ~(Rank(list, s) < place)
            BY <2>2 DEF LostOf
        <3> QED
            BY <1>1, <3>1
    <2> QED
        BY <2>1, <2>2
<1>6. IsFiniteSet(lost) /\ Cardinality(lost) \in Nat
    BY <1>5, PlacesAreFinite
<1> HIDE DEF lost, coming, length
<1>7. /\ IsFiniteSet(lost \cup coming)
      /\ Cardinality(lost \cup coming) <= Cardinality(lost) + Cardinality(coming)
      /\ Cardinality(lost \cup coming) \in Nat
    <2>1. IsFiniteSet(lost \cap coming)
        BY <1>6, FS_Subset
    <2>2. Cardinality(lost \cap coming) \in Nat
        BY <2>1, FS_CardinalityType
    <2>3. /\ IsFiniteSet(lost \cup coming)
          /\ Cardinality(lost \cup coming)
                = Cardinality(lost) + Cardinality(coming) - Cardinality(lost \cap coming)
        BY <1>4, <1>6, FS_Union
    <2>4. Cardinality(lost \cup coming) \in Nat
        BY <2>3, FS_CardinalityType
    <2> QED
        BY <1>4, <1>6, <2>2, <2>3, <2>4
<1>8. Cardinality(wanted) <= Cardinality(lost \cup coming) /\ Cardinality(wanted) \in Nat
    BY <1>5, <1>7, FS_Subset, FS_CardinalityType
<1>9. length <= n
    BY DEF length
<1>10. Excess(length, place) <= Excess(n, place)
    BY <1>1, <1>9 DEF Excess
<1>11. Excess(length, place) \in Nat /\ Excess(n, place) \in Nat
    BY <1>1 DEF Excess
<1> QED
    BY <1>4, <1>6, <1>7, <1>8, <1>10, <1>11 DEF lost

(* In whatever way the rows are sorted, a session is behind those that are *)
(* before it, and only behind them.                                        *)
LEMMA PlaceIsRank ==
  ASSUME created \in Seq(Times), NEW list, list \subseteq Sessions,
         NEW f \in Sorted(list), NEW s \in list
  PROVE  \E j \in 1 .. Cardinality(list) : f[j] = s /\ Rank(list, s) = j - 1
<1> DEFINE n == Cardinality(list)
<1>1. IsFiniteSet(list) /\ n \in Nat
    BY RankFacts
<1> HIDE DEF n
<1>2. /\ f \in [1 .. n -> list]
      /\ \A i, j \in 1 .. n : f[i] = f[j] => i = j
      /\ \A i, j \in 1 .. n : i < j => ~Before(f[j], f[i])
    BY DEF Sorted, n
<1>3. f \in Surjection(1 .. n, list)
    <2>1. f \in Injection(1 .. n, list)
        BY <1>2 DEF Injection, IsInjective
    <2>2. IsFiniteSet(1 .. n) /\ Cardinality(1 .. n) = n
        BY <1>1, FS_Interval
    <2> QED
        BY <1>1, <2>1, <2>2, FS_Injection DEF n
<1>4. PICK j \in 1 .. n : f[j] = s
    BY <1>3 DEF Surjection
<1>5. \A i \in 1 .. n : Before(f[i], s) <=> i < j
    <2> SUFFICES ASSUME NEW i \in 1 .. n PROVE Before(f[i], s) <=> i < j
        OBVIOUS
    <2>1. f[i] \in Sessions /\ s \in Sessions
        BY <1>1, <1>2, <1>4
    <2>2. CASE i = j
        BY <1>4, <2>1, <2>2, BeforeIsTotal
    <2>3. CASE i < j
        <3>1. f[i] # s /\ ~Before(s, f[i])
            BY <1>1, <1>2, <1>4, <2>3
        <3> QED
            BY <2>1, <2>3, <3>1, BeforeIsTotal
    <2>4. CASE j < i
        <3>1. ~Before(f[i], s) /\ ~(i < j)
            BY <1>1, <1>2, <1>4, <2>4
        <3> QED
            BY <3>1
    <2> QED
        BY <1>1, <2>2, <2>3, <2>4
<1> DEFINE g == [i \in 1 .. (j - 1) |-> f[i]]
<1>6. g \in Bijection(1 .. (j - 1), Ahead(list, s))
    <2>0. 1 .. (j - 1) \subseteq 1 .. n /\ \A i \in 1 .. n : i \in 1 .. (j - 1) <=> i < j
        BY <1>1
    <2>1. \A i \in 1 .. (j - 1) : g[i] = f[i] /\ g[i] \in Ahead(list, s)
        BY <1>2, <1>5, <2>0 DEF Ahead
    <2>2. \A i, k \in 1 .. (j - 1) : g[i] = g[k] => i = k
        BY <1>2, <2>0, <2>1
    <2>3. \A t \in Ahead(list, s) : \E i \in 1 .. (j - 1) : g[i] = t
        <3> SUFFICES ASSUME NEW t \in Ahead(list, s) PROVE \E i \in 1 .. (j - 1) : g[i] = t
            OBVIOUS
        <3>1. t \in list /\ Before(t, s)
            BY DEF Ahead
        <3>2. PICK i \in 1 .. n : f[i] = t
            BY <1>3, <3>1 DEF Surjection
        <3>3. i \in 1 .. (j - 1)
            BY <1>5, <2>0, <3>1, <3>2
        <3> QED
            BY <2>1, <3>2, <3>3
    <2> QED
        BY <2>1, <2>2, <2>3 DEF Bijection, Injection, Surjection, IsInjective
<1>7. Rank(list, s) = j - 1
    <2>1. IsFiniteSet(1 .. (j - 1)) /\ Cardinality(1 .. (j - 1)) = j - 1
        BY FS_Interval
    <2>2. ExistsBijection(1 .. (j - 1), Ahead(list, s))
        BY <1>6 DEF ExistsBijection
    <2> QED
        BY <2>1, <2>2, FS_Bijection DEF Rank
<1> QED
    BY <1>2, <1>4, <1>7 DEF n

(* The last page is the one that has the last row. *)
LEMMA LastPage ==
  ASSUME NEW n \in Nat, NEW size \in Nat \ {0}, NEW page \in Nat,
         ~(page < (n + size - 1) \div size)
  PROVE  n <= page * size
<1> DEFINE d == (n + size - 1) \div size
<1>1. d \in Nat /\ n + size - 1 < d * size + size
    OBVIOUS
<1>2. d <= page
    BY <1>1
<1> HIDE DEF d
<1>3. d * size <= page * size
    BY <1>1, <1>2
<1>4. d * size \in Nat /\ page * size \in Nat
    BY <1>1
<1> QED
    BY <1>1, <1>3, <1>4

-----------------------------------------------------------------------------
LEMMA LostIsFinite ==
  ASSUME NEW table \in Seq(Times), NEW list, NEW wanted, wanted \subseteq DOMAIN table, NEW place
  PROVE  /\ Cardinality(LostOf(list, wanted, place)) \in Nat
         /\ Cardinality(LostOf(list, wanted, place)') \in Nat
<1>1. /\ LostOf(list, wanted, place) \subseteq DOMAIN table
      /\ LostOf(list, wanted, place)' \subseteq DOMAIN table
    BY DEF LostOf
<1> QED
    BY <1>1, PlacesAreFinite

(* What the invariant says of a list that is being read. *)
LEMMA Reading ==
  ASSUME HistoryTyped, client = "reading"
  PROVE  /\ query \in Asked
         /\ query.page \in Nat \ {0} /\ query.size \in Nat \ {0}
         /\ query.page * query.size \in Nat
         /\ (query.page - 1) * query.size \in Nat
         /\ Reached \in Nat
         /\ Unseen \subseteq Sessions
         /\ Matching(query) \subseteq Sessions
         /\ Cardinality(Matching(query)) \in Nat
         /\ Cardinality(Lost) \in Nat
         /\ Cardinality(Unseen) \in Nat
<1>1. query \in Asked
    BY DEF HistoryTyped
<1>2. query.page \in Nat \ {0} /\ query.size \in Nat \ {0}
    BY <1>1, HistoryAssumption DEF Asked
<1>3. query.page * query.size \in Nat /\ (query.page - 1) * query.size \in Nat
    BY <1>2
<1>4. Unseen \subseteq Sessions /\ Lost \subseteq Sessions /\ Matching(query) \subseteq Sessions
    BY DEF HistoryTyped, Unseen, Lost, LostOf, Matching
<1>5. created \in Seq(Times)
    BY DEF HistoryTyped
<1>6. /\ Cardinality(Matching(query)) \in Nat /\ Cardinality(Lost) \in Nat
      /\ Cardinality(Unseen) \in Nat
    BY <1>4, <1>5, PlacesAreFinite DEF Sessions
<1> QED
    BY <1>1, <1>2, <1>3, <1>4, <1>6 DEF Reached

(* A session that is created, or goes on to another status, while a list   *)
(* is read, with what it does to the list recorded.                        *)
LEMMA ListChanges ==
  ASSUME HistoryInv, HistoryTyped', client = "reading", UNCHANGED <<reading, expected, seen>>,
         NEW x, Record(x),
         Matching(query)' \ {x} = Matching(query) \ {x},
         \A s \in Sessions : created'[s] = created[s],
         x \in Matching(query) => created' = created
  PROVE  LostFew' /\ Counted'
<1>1. /\ created \in Seq(Times) /\ created' \in Seq(Times)
      /\ left \in Nat /\ torn \in Nat /\ total \in Nat \cup {NoValue}
      /\ LostFew /\ Counted /\ HistoryTyped
    BY DEF HistoryInv, HistoryTyped
<1>2. PICK list : list = Matching(query)
    OBVIOUS
<1>3. PICK now : now = Matching(query)'
    OBVIOUS
<1>4. PICK wanted : wanted = Unseen
    OBVIOUS
<1>5. PICK place : place = Reached
    OBVIOUS
<1>6. /\ list \subseteq Sessions /\ wanted \subseteq Sessions /\ place \in Nat
      /\ now \subseteq DOMAIN created'
    <2>1. Matching(query)' \subseteq DOMAIN created'
        BY DEF Matching, Sessions
    <2> QED
        BY <1>1, <1>2, <1>3, <1>4, <1>5, <2>1, Reading
<1>7. now \ {x} = list \ {x}
    BY <1>2, <1>3
<1>8. /\ Unseen' = wanted /\ Reached' = place
      /\ Lost = LostOf(list, wanted, place) /\ Lost' = LostOf(now, wanted, place)'
    BY <1>2, <1>3, <1>4, <1>5 DEF Unseen, Reached, reading, Lost, LostOf, Rank, Ahead
<1>9. /\ left' = IF x \in list /\ x \notin now THEN left + 1 ELSE left
      /\ torn' = IF x \notin list /\ x \in now /\ items = NoValue /\ total # NoValue
                 THEN torn + 1 ELSE torn
    BY <1>2, <1>3 DEF Record, reading
<1>10. Cardinality(Lost') <= left'
    <2>1. /\ Cardinality(LostOf(list, wanted, place)) <= left
          /\ Cardinality(LostOf(list, wanted, place)) \in Nat
        BY <1>1, <1>8, Reading DEF LostFew
    <2>2. Cardinality(LostOf(now, wanted, place)') \in Nat
        BY <1>1, <1>6, LostIsFinite DEF Sessions
    <2>3. CASE x \in list /\ x \notin now
        <3>1. now = list \ {x} /\ created' = created
            BY <1>2, <1>7, <2>3
        <3>2. LostOf(now, wanted, place)' = LostOf(list \ {x}, wanted, place)
            BY <3>1 DEF LostOf, Rank, Ahead, Before
        <3>3. Cardinality(LostOf(list \ {x}, wanted, place))
                <= Cardinality(LostOf(list, wanted, place)) + 1
            BY <1>1, <1>6, <2>3, LeavingLosesOne
        <3> QED
            BY <1>1, <1>8, <1>9, <2>1, <2>2, <2>3, <3>2, <3>3
    <2>4. CASE ~(x \in list /\ x \notin now)
        <3>1. list \subseteq now
            BY <1>7, <2>4
        <3>2. Cardinality(LostOf(now, wanted, place)') <= Cardinality(LostOf(list, wanted, place))
            BY <1>1, <1>6, <3>1, EnteringLosesNone
        <3> QED
            BY <1>1, <1>8, <1>9, <2>1, <2>2, <2>4, <3>2
    <2> QED
        BY <2>3, <2>4
<1>11. Counted'
    <2> SUFFICES ASSUME total # NoValue
                 PROVE  IF items = NoValue THEN Cardinality(Matching(query)') <= total + torn'
                        ELSE Cardinality(Unseen') <= left' + Excess(total + torn', query.page * query.size)
        BY DEF Counted, reading, Excess
    <2>1. CASE items = NoValue
        <3>1. /\ Cardinality(list) <= total + torn /\ Cardinality(list) \in Nat
              /\ IsFiniteSet(list) /\ total \in Nat
            BY <1>1, <1>2, <1>6, <2>1, RankFacts DEF Counted
        <3>2. now \subseteq list \cup {x}
            BY <1>7
        <3>3. CASE x \notin list /\ x \in now
            <4>1. now = list \cup {x}
                BY <1>7, <3>3
            <4>2. Cardinality(now) = Cardinality(list) + 1
                BY <3>1, <3>3, <4>1, FS_AddElement
            <4> QED
                BY <1>1, <1>3, <1>9, <2>1, <3>1, <3>3, <4>2
        <3>4. CASE ~(x \notin list /\ x \in now)
            <4>1. now \subseteq list
                BY <3>2, <3>4
            <4>2. IsFiniteSet(now) /\ Cardinality(now) <= Cardinality(list)
                BY <3>1, <4>1, FS_Subset
            <4>3. Cardinality(now) \in Nat
                BY <4>2, FS_CardinalityType
            <4> QED
                BY <1>1, <1>3, <1>9, <2>1, <3>1, <3>4, <4>2, <4>3
        <3> QED
            BY <3>3, <3>4
    <2>2. CASE items # NoValue
        <3>1. /\ Cardinality(Unseen) <= left + Excess(total + torn, query.page * query.size)
              /\ Cardinality(Unseen) \in Nat /\ query.page * query.size \in Nat /\ total \in Nat
            BY <1>1, <2>2, Reading DEF Counted
        <3>2. torn' = torn /\ left' \in Nat /\ left <= left' /\ Unseen' = Unseen
            BY <1>1, <1>4, <1>8, <1>9, <2>2
        <3>3. Excess(total + torn, query.page * query.size) \in Nat
            BY <1>1, <3>1 DEF Excess
        <3> QED
            BY <1>1, <2>2, <3>1, <3>2, <3>3
    <2> QED
        BY <2>1, <2>2
<1> QED
    BY <1>10, <1>11 DEF LostFew

(* Every step preserves the invariant. *)
LEMMA HistoryStep == HistoryInv /\ [HistoryNext]_historyVars => HistoryInv'
<1> SUFFICES ASSUME HistoryInv, [HistoryNext]_historyVars PROVE HistoryInv'
    OBVIOUS
<1>t. HistoryTyped /\ LostFew /\ Counted /\ NothingSkipped /\ created \in Seq(Times)
    BY DEF HistoryInv, HistoryTyped
<1>n. NoValue \notin Nat
    BY HistoryAssumption
<1>0. CASE UNCHANGED historyVars
    BY <1>t, <1>0 DEF historyVars, reading, HistoryInv, HistoryTyped, LostFew, Counted,
       NothingSkipped, Lost, LostOf, Unseen, Reached, Excess, Rank, Ahead, Matching, Sessions,
       Before
<1>r. ASSUME NEW x, Record(x), HistoryTyped', UNCHANGED <<reading, expected, seen>>,
             client = "reading" => LostFew' /\ Counted'
      PROVE  HistoryInv'
    <2>1. client # "reading" => left' = left /\ torn' = torn
        BY <1>r DEF Record
    <2>2. NothingSkipped'
        BY <1>t, <1>r, <2>1 DEF NothingSkipped, reading
    <2>3. LostFew' /\ Counted'
        BY <1>r DEF LostFew, Counted, reading
    <2> QED
        BY <1>r, <2>2, <2>3 DEF HistoryInv
<1>1. ASSUME NEW at \in Times, CreateInterview(at) PROVE HistoryInv'
    <2>1. /\ UNCHANGED <<reading, expected, seen>>
          /\ created' = Append(created, at) /\ status' = Append(status, "CREATED")
          /\ Record(Len(created) + 1)
        BY <1>1 DEF CreateInterview
    <2>2. PICK x : x = Len(created) + 1
        OBVIOUS
    <2>3. status \in Seq(Statuses) /\ Len(status) = Len(created)
        BY <1>t DEF HistoryTyped
    <2>4. /\ created' \in Seq(Times) /\ status' \in Seq(Statuses)
          /\ Len(status') = Len(created')
          /\ Sessions \subseteq Sessions' /\ Sessions' \ {x} = Sessions /\ x \notin Sessions
        <3>1. "CREATED" \in Statuses
            BY DEF Statuses
        <3> QED
            BY <1>t, <2>1, <2>2, <2>3, <3>1 DEF Sessions
    <2>5. \A s \in Sessions : created'[s] = created[s] /\ status'[s] = status[s]
        BY <1>t, <2>1, <2>3 DEF Sessions
    <2>6. left' \in Nat /\ torn' \in Nat
        BY <1>t, <2>1 DEF Record, HistoryTyped
    <2>7. HistoryTyped'
        <3>1. expected' \subseteq Sessions'
            BY <1>t, <2>1, <2>4 DEF HistoryTyped
        <3>2. client = "elsewhere" => left' = left /\ torn' = torn
            BY <2>1 DEF Record
        <3> QED
            BY <1>t, <2>1, <2>4, <2>6, <3>1, <3>2 DEF HistoryTyped, reading, Asked
    <2>8. ASSUME client = "reading" PROVE LostFew' /\ Counted'
        <3>1. query' = query
            BY <2>1 DEF reading
        <3>2. Matching(query)' \ {x} = Matching(query)
            BY <2>4, <2>5, <3>1 DEF Matching
        <3>3. x \notin Matching(query)
            BY <2>4 DEF Matching
        <3>4. Record(x)
            BY <2>1, <2>2 DEF Record
        <3>5. Matching(query)' \ {x} = Matching(query) \ {x}
            BY <3>2, <3>3
        <3> QED
            BY <2>1, <2>5, <2>7, <2>8, <3>3, <3>4, <3>5, ListChanges
    <2> QED
        BY <1>r, <2>1, <2>7, <2>8
<1>2. ASSUME NEW s \in Sessions, NEW to \in Statuses, Proceed(s, to) PROVE HistoryInv'
    <2>1. /\ UNCHANGED <<created, reading, expected, seen>>
          /\ status' = [status EXCEPT ![s] = to]
          /\ Record(s)
        BY <1>2 DEF Proceed
    <2>2. status \in Seq(Statuses) /\ Len(status) = Len(created)
        BY <1>t DEF HistoryTyped
    <2>3. /\ status' \in Seq(Statuses) /\ Len(status') = Len(created)
          /\ \A t \in Sessions : t # s => status'[t] = status[t]
        <3>1. s \in 1 .. Len(status) /\ Sessions = 1 .. Len(status)
            BY <1>t, <2>2 DEF Sessions
        <3> QED
            BY <2>1, <2>2, <3>1
    <2>4. left' \in Nat /\ torn' \in Nat
        BY <1>t, <2>1 DEF Record, HistoryTyped
    <2>5. HistoryTyped'
        <3>1. expected' \subseteq Sessions'
            BY <1>t, <2>1 DEF HistoryTyped, Sessions
        <3>2. client = "elsewhere" => left' = left /\ torn' = torn
            BY <2>1 DEF Record
        <3> QED
            BY <1>t, <2>1, <2>3, <2>4, <3>1, <3>2 DEF HistoryTyped, reading, Asked
    <2>6. ASSUME client = "reading" PROVE LostFew' /\ Counted'
        <3>1. query' = query
            BY <2>1 DEF reading
        <3>2. Matching(query)' \ {s} = Matching(query) \ {s}
            BY <2>1, <2>3, <3>1 DEF Matching, Sessions
        <3>3. \A t \in Sessions : created'[t] = created[t]
            BY <2>1
        <3> QED
            BY <2>1, <2>5, <2>6, <3>2, <3>3, ListChanges
    <2> QED
        BY <1>r, <2>1, <2>5, <2>6
<1>3. ASSUME NEW q \in Queries \cup {AllSessions(n) : n \in PageSizes}, OpenList(q)
      PROVE  HistoryInv'
    <2>1. q \in Asked /\ q.page = 1 /\ q.size \in Nat
        <3>1. ASSUME q \in Queries PROVE q \in Asked /\ q.page = 1
            <4>1. {1} \subseteq Nat \ {0}
                OBVIOUS
            <4> QED
                BY <3>1, <4>1 DEF Queries, Asked
        <3>2. ASSUME NEW n \in PageSizes, q = AllSessions(n) PROVE q \in Asked /\ q.page = 1
            BY <3>2 DEF AllSessions, Asked
        <3>3. q \in Asked => q.size \in Nat
            BY HistoryAssumption DEF Asked
        <3> QED
            BY <3>1, <3>2, <3>3
    <2>2. /\ client = "elsewhere" /\ client' = "reading"
          /\ query' = q /\ expected' = Matching(q)
          /\ UNCHANGED <<created, status, items, total, seen, left, torn>>
        BY <1>3 DEF OpenList
    <2>3. items' = NoValue /\ total' = NoValue /\ seen' = {} /\ left' = 0 /\ torn' = 0
        BY <1>t, <2>2 DEF HistoryTyped
    <2>4. Matching(query)' = Matching(q) /\ Matching(q) \subseteq Sessions
        BY <2>2 DEF Matching, Sessions
    <2>5. HistoryTyped'
        BY <1>t, <2>1, <2>2, <2>3, <2>4 DEF HistoryTyped, Asked, Sessions
    <2>6. Unseen' = Matching(q) /\ Reached' = 0
        BY <2>1, <2>2, <2>3 DEF Unseen, Reached
    <2>7. ASSUME NEW x PROVE ~(Rank(Matching(query), x)' < 0)
        <3>1. Ahead(Matching(query), x)' \subseteq DOMAIN created'
            BY DEF Ahead, Matching, Sessions
        <3>2. created' \in Seq(Times)
            BY <1>t, <2>2
        <3>3. Cardinality(Ahead(Matching(query), x)') \in Nat
            BY <3>1, <3>2, PlacesAreFinite
        <3> QED
            BY <3>3 DEF Rank
    <2>8. Lost' = {}
        BY <2>4, <2>6, <2>7 DEF Lost, LostOf
    <2>9. LostFew' /\ Counted' /\ NothingSkipped'
        BY <2>2, <2>3, <2>8, FS_EmptySet DEF LostFew, Counted, NothingSkipped
    <2> QED
        BY <2>5, <2>9 DEF HistoryInv
<1>4. CASE FindRows
    <2>1. /\ client = "reading" /\ items = NoValue
          /\ UNCHANGED <<created, status, client, query, total, expected, seen, left, torn>>
        BY <1>4 DEF FindRows
    <2>2. PICK list : list = Matching(query)
        OBVIOUS
    <2>3. PICK f \in Sorted(list) :
            items' = {f[i] : i \in {j \in DOMAIN f : j > (query.page - 1) * query.size
                                                 /\ j <= query.page * query.size}}
        BY <1>4, <2>2 DEF FindRows
    <2>4. PICK wanted : wanted = Unseen
        OBVIOUS
    <2>5. PICK now : now = Unseen'
        OBVIOUS
    <2>6. PICK lo : lo = (query.page - 1) * query.size
        OBVIOUS
    <2>7. PICK hi : hi = query.page * query.size
        OBVIOUS
    <2>8. /\ list \subseteq Sessions /\ wanted \subseteq Sessions /\ lo \in Nat /\ hi \in Nat
          /\ Reached = lo /\ Cardinality(Lost) \in Nat /\ Cardinality(list) \in Nat
        BY <1>t, <2>1, <2>2, <2>4, <2>6, <2>7, Reading DEF Reached
    <2>9. HistoryTyped' /\ NothingSkipped'
        BY <1>t, <2>1 DEF HistoryTyped, NothingSkipped, Asked, Sessions
    <2>10. items' # NoValue => now = wanted \ items' /\ Reached' = hi
        BY <2>1, <2>4, <2>5, <2>7 DEF Unseen, Reached
    <2>11. CASE items' = NoValue
        BY <1>t, <2>1, <2>9, <2>11 DEF HistoryInv, LostFew, Counted, Lost, LostOf, Unseen,
           Reached, Excess, Rank, Ahead, Matching, Sessions, Before
    <2>12. CASE items' # NoValue
        <3>1. Lost' = LostOf(list, now, hi) /\ Lost = LostOf(list, wanted, lo)
            BY <2>1, <2>2, <2>4, <2>5, <2>8, <2>10, <2>12
               DEF Lost, LostOf, Rank, Ahead, Before, Matching, Sessions
        <3>2. ASSUME NEW s \in now, s \in list, Rank(list, s) < hi
              PROVE  Rank(list, s) < lo
            <4>1. PICK j \in 1 .. Cardinality(list) : f[j] = s /\ Rank(list, s) = j - 1
                BY <1>t, <2>8, <3>2, PlaceIsRank
            <4>2. DOMAIN f = 1 .. Cardinality(list)
                BY DEF Sorted
            <4>3. ~(j > lo /\ j <= hi)
                BY <2>3, <2>6, <2>7, <2>10, <2>12, <3>2, <4>1, <4>2
            <4>4. j \in Nat
                BY <2>8
            <4> QED
                BY <2>8, <3>2, <4>1, <4>3, <4>4
        <3>3. LostOf(list, now, hi) \subseteq LostOf(list, wanted, lo)
            BY <2>10, <2>12, <3>2 DEF LostOf
        <3>4. now \subseteq Sessions /\ LostOf(list, wanted, lo) \subseteq Sessions
            BY <2>8, <2>10, <2>12 DEF LostOf
        <3>5. /\ Cardinality(LostOf(list, now, hi)) <= Cardinality(LostOf(list, wanted, lo))
              /\ Cardinality(LostOf(list, now, hi)) \in Nat
            BY <1>t, <3>3, <3>4, FS_Subset, PlacesAreFinite DEF Sessions
        <3>6. left \in Nat /\ torn \in Nat /\ total \in Nat \cup {NoValue}
            BY <1>t DEF HistoryTyped
        <3>7. /\ Cardinality(Lost') <= left /\ Cardinality(Lost') \in Nat
              /\ LostFew'
            BY <1>t, <2>1, <2>8, <3>1, <3>5, <3>6 DEF LostFew
        <3>8. Counted'
            <4> SUFFICES ASSUME total # NoValue
                         PROVE  Cardinality(now) <= left + Excess(total + torn, hi)
                BY <2>1, <2>5, <2>7, <2>12 DEF Counted, Excess
            <4>1. Cardinality(list) <= total + torn /\ total + torn \in Nat
                BY <1>t, <2>1, <2>2, <3>6 DEF Counted
            <4>2. Cardinality(now) <= Cardinality(LostOf(list, now, hi)) + Excess(total + torn, hi)
                BY <1>t, <2>8, <3>4, <4>1, UnseenIsLostOrToCome
            <4>3. Cardinality(now) \in Nat
                BY <1>t, <3>4, PlacesAreFinite DEF Sessions
            <4>4. Excess(total + torn, hi) \in Nat
                BY <2>8, <4>1 DEF Excess
            <4> QED
                BY <3>1, <3>5, <3>6, <3>7, <4>2, <4>3, <4>4
        <3> QED
            BY <2>9, <3>7, <3>8 DEF HistoryInv
    <2> QED
        BY <2>11, <2>12
<1>5. CASE CountRows
    <2>1. /\ client = "reading" /\ total' = Cardinality(Matching(query)) /\ torn' = 0
          /\ UNCHANGED <<created, status, client, query, items, expected, seen, left>>
        BY <1>5 DEF CountRows
    <2>2. PICK n : n = Cardinality(Matching(query))
        OBVIOUS
    <2>3. n \in Nat /\ n # NoValue /\ left \in Nat
        BY <1>t, <1>n, <2>1, <2>2, Reading DEF HistoryTyped
    <2>4. HistoryTyped' /\ NothingSkipped'
        BY <1>t, <2>1, <2>2, <2>3 DEF HistoryTyped, NothingSkipped, Asked, Sessions
    <2>5. /\ Matching(query)' = Matching(query) /\ Unseen' = Unseen /\ Reached' = Reached
          /\ Lost' = Lost
        BY <2>1 DEF Lost, LostOf, Unseen, Reached, Rank, Ahead, Before, Matching, Sessions
    <2>6. LostFew'
        BY <1>t, <2>1, <2>5 DEF LostFew
    <2>7. Counted'
        <3>1. CASE items = NoValue
            BY <2>1, <2>2, <2>3, <2>5, <3>1 DEF Counted
        <3>2. CASE items # NoValue
            <4>1. Reached = query.page * query.size /\ Reached \in Nat
                BY <1>t, <2>1, <3>2, Reading DEF Reached
            <4>2. Cardinality(Unseen) <= Cardinality(Lost) + Excess(n, Reached)
                <5>1. PICK list : list = Matching(query)
                    OBVIOUS
                <5>2. PICK wanted : wanted = Unseen
                    OBVIOUS
                <5>3. PICK place : place = Reached
                    OBVIOUS
                <5>4. list \subseteq Sessions /\ wanted \subseteq Sessions /\ place \in Nat
                    BY <1>t, <2>1, <5>1, <5>2, <5>3, Reading
                <5>5. Cardinality(list) <= n
                    BY <2>2, <2>3, <5>1
                <5>6. Cardinality(wanted) <= Cardinality(LostOf(list, wanted, place)) + Excess(n, place)
                    BY <1>t, <2>3, <5>4, <5>5, UnseenIsLostOrToCome
                <5> QED
                    BY <5>1, <5>2, <5>3, <5>6 DEF Lost
            <4>3. Cardinality(Lost) <= left /\ Cardinality(Lost) \in Nat /\ Cardinality(Unseen) \in Nat
                BY <1>t, <2>1, Reading DEF LostFew
            <4>4. Excess(n, Reached) \in Nat
                BY <2>3, <4>1 DEF Excess
            <4>5. Cardinality(Unseen) <= left + Excess(n, Reached)
                BY <2>3, <4>2, <4>3, <4>4
            <4>6. n + 0 = n
                BY <2>3
            <4> QED
                BY <2>1, <2>2, <2>5, <3>2, <4>1, <4>5, <4>6 DEF Counted, Excess
        <3> QED
            BY <3>1, <3>2
    <2> QED
        BY <2>4, <2>6, <2>7 DEF HistoryInv
<1>6. CASE ShowPage
    <2>1. /\ items # NoValue /\ total # NoValue /\ client = "reading"
          /\ seen' = seen \cup items /\ items' = NoValue /\ total' = NoValue
          /\ UNCHANGED <<created, status, expected, left, torn>>
        BY <1>6, <1>t DEF ShowPage, HistoryTyped
    <2>2. total \in Nat /\ left \in Nat /\ torn \in Nat
        BY <1>t, <2>1 DEF HistoryTyped
    <2>3. /\ query \in Asked /\ query.page \in Nat \ {0} /\ query.size \in Nat \ {0}
          /\ query.page * query.size \in Nat /\ Cardinality(Unseen) \in Nat
        BY <1>t, <2>1, Reading
    <2>4. Unseen' = Unseen /\ Unseen = expected' \ seen'
        BY <2>1 DEF Unseen
    <2>5. Counted'
        BY <2>1 DEF Counted
    <2>6. CASE HasNext /\ query' = [query EXCEPT !.page = @ + 1] /\ client' = client
        <3>1. /\ query' \in Asked
              /\ query'.from = query.from /\ query'.to = query.to
              /\ query'.status = query.status
              /\ query'.size = query.size /\ query'.page - 1 = query.page
            BY <2>3, <2>6 DEF Asked
        <3>2. HistoryTyped'
            BY <1>t, <2>1, <2>6, <3>1 DEF HistoryTyped, Sessions
        <3>3. Matching(query)' = Matching(query) /\ Reached' = Reached
            BY <2>1, <3>1 DEF Matching, Sessions, Reached
        <3>4. Lost' = Lost
            BY <2>1, <2>4, <3>3 DEF Lost, LostOf, Rank, Ahead, Before
        <3>5. LostFew' /\ NothingSkipped'
            BY <1>t, <2>1, <2>6, <3>4 DEF LostFew, NothingSkipped
        <3> QED
            BY <2>5, <3>2, <3>5 DEF HistoryInv
    <2>7. CASE ~HasNext /\ client' = "atEnd" /\ query' = query
        <3>1. HistoryTyped'
            BY <1>t, <2>1, <2>3, <2>7 DEF HistoryTyped, Sessions, Asked
        <3>2. LostFew'
            BY <2>7 DEF LostFew
        <3>3. NothingSkipped'
            <4>1. Cardinality(Unseen) <= left + Excess(total + torn, query.page * query.size)
                BY <1>t, <2>1 DEF Counted
            <4>2. total <= query.page * query.size
                BY <2>2, <2>3, <2>7, LastPage DEF HasNext, TotalPages
            <4>3. Excess(total + torn, query.page * query.size) <= torn
                BY <2>2, <2>3, <4>2 DEF Excess
            <4>4. Excess(total + torn, query.page * query.size) \in Nat
                BY <2>2, <2>3 DEF Excess
            <4>5. Cardinality(Unseen) <= left + torn
                BY <2>2, <2>3, <4>1, <4>3, <4>4
            <4> QED
                BY <2>1, <2>4, <4>5 DEF NothingSkipped
        <3> QED
            BY <2>5, <3>1, <3>2, <3>3 DEF HistoryInv
    <2> QED
        BY <1>6, <2>6, <2>7 DEF ShowPage
<1>7. CASE Leave
    <2>1. HistoryTyped'
        BY <1>t, <1>7, <1>n DEF Leave, HistoryTyped, Sessions
    <2> QED
        BY <1>7, <2>1 DEF Leave, HistoryInv, LostFew, Counted, NothingSkipped
<1> QED
    BY <1>0, <1>1, <1>2, <1>3, <1>4, <1>5, <1>6, <1>7 DEF HistoryNext

(* A client that follows the pages to the end has been shown what the list *)
(* had when it began, but for one for each interview that left the list    *)
(* meanwhile or entered it between the last page's count and its rows.     *)
THEOREM ListIsComplete == HistorySpec => []NothingSkipped
<1>1. HistoryInit => HistoryInv
    <2> SUFFICES ASSUME HistoryInit PROVE HistoryInv
        OBVIOUS
    <2>1. /\ created = <<>> /\ status = <<>> /\ client = "elsewhere"
          /\ items = NoValue /\ total = NoValue
          /\ seen = {} /\ expected = {} /\ left = 0 /\ torn = 0
        BY DEF HistoryInit
    <2>2. created \in Seq(Times) /\ status \in Seq(Statuses) /\ Len(status) = Len(created)
        BY <2>1
    <2>3. left \in Nat /\ torn \in Nat
        BY <2>1
    <2> QED
        BY <2>1, <2>2, <2>3 DEF HistoryInv, HistoryTyped, LostFew, Counted, NothingSkipped
<1>2. HistoryInv => NothingSkipped
    BY DEF HistoryInv
<1> QED
    BY <1>1, <1>2, HistoryStep, PTL DEF HistorySpec

-----------------------------------------------------------------------------
(***************************************************************************)
(* Uploads.                                                                *)
(***************************************************************************)
Ids == Signable \cup {"avatar"}

Places == {"idle", "getFile", "createCv", "getVideo", "saveAnswer", "uploadAvatar",
           "saveAvatar"}

Saving == [at : Places, id : Ids \cup {Absent}, file : File \cup {Absent}]

UploadsTyped ==
    /\ asset \in [Ids -> File \cup {Absent}]
    /\ uploads \in 0 .. MaxUploads
    /\ signed \subseteq Signable
    /\ usable \subseteq Signable
    /\ cv \in [CvFiles -> File \cup {Absent}]
    /\ answer \in [id : Videos, file : File] \cup {Absent}
    /\ avatarUrl \in File \cup {Absent}
    /\ parsed \in [CvFiles -> File \cup {Absent}]
    /\ save \in [Clients -> Saving]

(* The files are numbered in the order of their uploads. *)
Numbered == \A id \in Ids : asset[id] # Absent => asset[id].number <= uploads

(* A file that was under an id is not from the future of it. *)
NotNewer(file, id) ==
    /\ file \in File
    /\ asset[id] # Absent
    /\ file.number <= asset[id].number

Carries ==
    \A c \in Clients :
        /\ save[c].at \in {"getFile", "createCv"} => save[c].id \in CvFiles
        /\ save[c].at \in {"getVideo", "saveAnswer"} => save[c].id \in Videos
        /\ save[c].at = "createCv" => NotNewer(save[c].file, save[c].id)
        /\ save[c].at = "saveAnswer" =>
                save[c].file \in File /\ asset[save[c].id] = save[c].file
        /\ save[c].at = "saveAvatar" => NotNewer(save[c].file, "avatar")

(* Only a CV that is saved is parsed. *)
Parsing == \A id \in CvFiles : cv[id] = Absent => parsed[id] = Absent

UploadsInv == UploadsTyped /\ Numbered /\ Carries /\ Parsing /\ RowsShowTheirFiles

-----------------------------------------------------------------------------
(* The invariant holds at the start. *)
LEMMA UploadsBegin == UploadsInit => UploadsInv
<1> SUFFICES ASSUME UploadsInit PROVE UploadsInv
    OBVIOUS
<1> USE UploadsAssumption DEF UploadsInit
<1>1. UploadsTyped
    BY DEF UploadsTyped, Ids, Idle, Saving, Places
<1>2. Numbered
    BY DEF Numbered, Ids
<1>3. Carries
    BY DEF Carries, Idle
<1>4. Parsing /\ RowsShowTheirFiles
    BY DEF Parsing, RowsShowTheirFiles
<1> QED
    BY <1>1, <1>2, <1>3, <1>4 DEF UploadsInv

(* A new file is one, and the latest. *)
LEMMA NewFile ==
    ASSUME UploadsTyped, uploads < MaxUploads, NEW size \in Sizes
    PROVE  [number |-> uploads + 1, size |-> size] \in File
BY UploadsAssumption DEF UploadsTyped, File

(* The two steps that store a file, as one. *)
Stored(id, size) ==
    /\ id \in Ids \ Videos \/ asset[id] = Absent
    /\ uploads < MaxUploads
    /\ uploads' = uploads + 1
    /\ asset' = [asset EXCEPT ![id] = [number |-> uploads + 1, size |-> size]]

(* What a step does to the files. *)
LEMMA Uploading ==
    ASSUME UploadsTyped, [UploadsNext]_uploadsVars
    PROVE  \/ UNCHANGED <<asset, uploads>>
           \/ \E id \in Ids, size \in Sizes : Stored(id, size)
<1>1. ASSUME NEW id \in Signable, NEW size \in Sizes, Upload(id, size)
      PROVE  Stored(id, size)
    BY <1>1, UploadsAssumption DEF Upload, Stored, Overwritable, Ids, Signable
<1>2. ASSUME NEW c \in Clients, UploadAvatar(c)
      PROVE  Stored("avatar", "allowed")
    BY <1>2, UploadsAssumption DEF UploadAvatar, Stored, Ids, Signable
<1>3. "allowed" \in Sizes /\ "avatar" \in Ids /\ Signable \subseteq Ids
    BY DEF Sizes, Ids
<1> QED
    BY <1>1, <1>2, <1>3 DEF UploadsNext, uploadsVars, SignCv, SignVideo, SignatureExpires,
       DownloadFile, RequestCv, GetFile, CreateCv, AuthorizeQuestion, GetVideo, SaveAnswer,
       UpdateAvatar, UpdateUserAvatarUrl, Submit, Fail

(* Files stay, are replaced by later ones only, and videos not at all. *)
LEMMA AssetStep ==
    ASSUME UploadsTyped, Numbered, [UploadsNext]_uploadsVars
    PROVE  /\ asset' \in [Ids -> File \cup {Absent}]
           /\ uploads' \in 0 .. MaxUploads
           /\ Numbered'
           /\ \A id \in Ids : asset[id] # Absent =>
                /\ asset'[id] # Absent
                /\ asset[id].number <= asset'[id].number
                /\ id \in Videos => asset'[id] = asset[id]
<1>1. CASE UNCHANGED <<asset, uploads>>
    BY <1>1 DEF UploadsTyped, Numbered, File
<1>2. ASSUME NEW id \in Ids, NEW size \in Sizes, Stored(id, size)
      PROVE  /\ asset' \in [Ids -> File \cup {Absent}]
             /\ uploads' \in 0 .. MaxUploads
             /\ Numbered'
             /\ \A x \in Ids : asset[x] # Absent =>
                    /\ asset'[x] # Absent
                    /\ asset[x].number <= asset'[x].number
                    /\ x \in Videos => asset'[x] = asset[x]
    <2> DEFINE file == [number |-> uploads + 1, size |-> size]
    <2>1. file \in File /\ file # Absent /\ file.number = uploads + 1
        BY <1>2, NewFile, UploadsAssumption DEF Stored
    <2>2. asset' = [asset EXCEPT ![id] = file] /\ uploads' = uploads + 1
          /\ uploads \in 0 .. MaxUploads /\ uploads < MaxUploads /\ MaxUploads \in Nat
        BY <1>2, UploadsAssumption DEF Stored, UploadsTyped
    <2>3. id \in Videos => asset[id] = Absent
        BY <1>2 DEF Stored
    <2>4. \A x \in Ids : asset[x] # Absent => asset[x] \in File /\ asset[x].number <= uploads
                                              /\ asset[x].number \in Nat
        BY DEF UploadsTyped, Numbered, File
    <2>5. asset \in [Ids -> File \cup {Absent}]
        BY DEF UploadsTyped
    <2> HIDE DEF file
    <2>6. asset' \in [Ids -> File \cup {Absent}] /\ uploads' \in 0 .. MaxUploads
        BY <2>1, <2>2, <2>5
    <2>7. \A x \in Ids : asset'[x] = IF x = id THEN file ELSE asset[x]
        BY <2>2, <2>5
    <2>8. Numbered'
        BY <2>1, <2>2, <2>4, <2>7 DEF Numbered
    <2> QED
        BY <2>1, <2>2, <2>3, <2>4, <2>6, <2>7, <2>8
<1> QED
    BY <1>1, <1>2, Uploading

(* A file that was not newer stays so. *)
LEMMA NotNewerStep ==
    ASSUME UploadsTyped, Numbered, [UploadsNext]_uploadsVars, NEW file, NEW id \in Ids,
           NotNewer(file, id)
    PROVE  NotNewer(file, id)'
<1>1. asset[id] # Absent /\ asset'[id] # Absent /\ asset[id].number <= asset'[id].number
    BY AssetStep DEF NotNewer
<1>2. asset[id] \in File /\ asset'[id] \in File
    BY <1>1, AssetStep DEF UploadsTyped
<1>3. asset[id].number \in Nat /\ asset'[id].number \in Nat /\ file.number \in Nat
    BY <1>2 DEF File, NotNewer
<1> QED
    BY <1>1, <1>3 DEF NotNewer

-----------------------------------------------------------------------------
(* Every step preserves the types. *)
LEMMA UploadsTypeStep == UploadsInv /\ [UploadsNext]_uploadsVars => UploadsTyped'
<1> SUFFICES ASSUME UploadsInv, [UploadsNext]_uploadsVars PROVE UploadsTyped'
    OBVIOUS
<1>t. UploadsTyped /\ Numbered /\ Carries
    BY DEF UploadsInv
<1>a. asset' \in [Ids -> File \cup {Absent}] /\ uploads' \in 0 .. MaxUploads
    BY <1>t, AssetStep
<1>i. Idle \in Saving
    BY DEF Idle, Saving, Places
<1>r. ASSUME NEW c \in Clients, Rest(c) PROVE save' \in [Clients -> Saving]
    BY <1>t, <1>i, <1>r DEF Rest, UploadsTyped
<1>s. ASSUME NEW c \in Clients, NEW at \in Places, NEW id \in Ids,
             NEW file \in File \cup {Absent}, Stand(c, at, id, file)
      PROVE  save' \in [Clients -> Saving]
    BY <1>t, <1>s DEF Stand, UploadsTyped, Saving
<1>f. ASSUME NEW c \in Clients, NEW id \in Ids, save[c].id = id
      PROVE  asset[id] \in File \cup {Absent}
    BY <1>t DEF UploadsTyped
<1>v. CvFiles \subseteq Ids /\ Videos \subseteq Ids /\ "avatar" \in Ids
      /\ Absent \in File \cup {Absent}
    BY DEF Ids, Signable
<1>p. {"getFile", "createCv", "getVideo", "saveAnswer", "uploadAvatar", "saveAvatar"}
        \subseteq Places
    BY DEF Places
<1> USE DEF rows, signatures
<1>1. ASSUME NEW id \in CvFiles, SignCv(id) PROVE UploadsTyped'
    BY <1>t, <1>a, <1>1 DEF SignCv, UploadsTyped, Signable
<1>2. ASSUME NEW id \in Videos, SignVideo(id) PROVE UploadsTyped'
    BY <1>t, <1>a, <1>2 DEF SignVideo, UploadsTyped, Signable
<1>3. ASSUME NEW id \in Signable, SignatureExpires(id) PROVE UploadsTyped'
    BY <1>t, <1>a, <1>3 DEF SignatureExpires, UploadsTyped
<1>4. ASSUME NEW id \in Signable, NEW size \in Sizes, Upload(id, size) PROVE UploadsTyped'
    BY <1>t, <1>a, <1>4 DEF Upload, UploadsTyped
<1>5. ASSUME NEW id \in CvFiles, DownloadFile(id) PROVE UploadsTyped'
    <2>1. asset[id] \in File \cup {Absent}
        BY <1>t, <1>v DEF UploadsTyped
    <2>2. parsed' = [parsed EXCEPT ![id] = asset[id]]
          /\ UNCHANGED <<signed, usable, cv, answer, avatarUrl, save>>
        BY <1>5 DEF DownloadFile
    <2>3. parsed' \in [CvFiles -> File \cup {Absent}]
        BY <1>t, <2>1, <2>2 DEF UploadsTyped
    <2> QED
        BY <1>t, <1>a, <2>2, <2>3 DEF UploadsTyped
<1>6. ASSUME NEW c \in Clients, NEW id \in CvFiles, RequestCv(c, id) PROVE UploadsTyped'
    <2>1. save' \in [Clients -> Saving]
        BY <1>6, <1>s, <1>v, <1>p DEF RequestCv
    <2> QED
        BY <1>t, <1>a, <1>6, <2>1 DEF RequestCv, UploadsTyped
<1>7. ASSUME NEW c \in Clients, GetFile(c) PROVE UploadsTyped'
    <2>1. save[c].id \in CvFiles
        BY <1>t, <1>7 DEF GetFile, At, Carries
    <2>2. save' \in [Clients -> Saving]
        BY <1>7, <1>r, <1>s, <1>f, <1>v, <1>p, <2>1 DEF GetFile
    <2> QED
        BY <1>t, <1>a, <1>7, <2>2 DEF GetFile, UploadsTyped
<1>8. ASSUME NEW c \in Clients, CreateCv(c) PROVE UploadsTyped'
    <2>1. save[c].id \in CvFiles /\ save[c].file \in File
        BY <1>t, <1>8 DEF CreateCv, At, Carries, NotNewer
    <2>2. save' \in [Clients -> Saving]
        BY <1>8, <1>r DEF CreateCv
    <2>3. cv' \in [CvFiles -> File \cup {Absent}]
        BY <1>t, <1>8, <2>1 DEF CreateCv, UploadsTyped
    <2> QED
        BY <1>t, <1>a, <1>8, <2>2, <2>3 DEF CreateCv, UploadsTyped
<1>9. ASSUME NEW c \in Clients, NEW id \in Videos, AuthorizeQuestion(c, id) PROVE UploadsTyped'
    <2>1. save' \in [Clients -> Saving]
        BY <1>9, <1>s, <1>v, <1>p DEF AuthorizeQuestion
    <2> QED
        BY <1>t, <1>a, <1>9, <2>1 DEF AuthorizeQuestion, UploadsTyped
<1>10. ASSUME NEW c \in Clients, GetVideo(c) PROVE UploadsTyped'
    <2>1. save[c].id \in Videos
        BY <1>t, <1>10 DEF GetVideo, At, Carries
    <2>2. save' \in [Clients -> Saving]
        BY <1>10, <1>r, <1>s, <1>f, <1>v, <1>p, <2>1 DEF GetVideo
    <2> QED
        BY <1>t, <1>a, <1>10, <2>2 DEF GetVideo, UploadsTyped
<1>11. ASSUME NEW c \in Clients, SaveAnswer(c) PROVE UploadsTyped'
    <2>1. save[c].id \in Videos /\ save[c].file \in File
        BY <1>t, <1>11 DEF SaveAnswer, At, Carries
    <2>2. save' \in [Clients -> Saving]
        BY <1>11, <1>r DEF SaveAnswer
    <2>3. answer' \in [id : Videos, file : File] \cup {Absent}
        BY <1>t, <1>11, <2>1 DEF SaveAnswer, UploadsTyped
    <2> QED
        BY <1>t, <1>a, <1>11, <2>2, <2>3 DEF SaveAnswer, UploadsTyped
<1>12. ASSUME NEW c \in Clients, UpdateAvatar(c) PROVE UploadsTyped'
    <2>1. save' \in [Clients -> Saving]
        BY <1>12, <1>s, <1>v, <1>p DEF UpdateAvatar
    <2> QED
        BY <1>t, <1>a, <1>12, <2>1 DEF UpdateAvatar, UploadsTyped
<1>13. ASSUME NEW c \in Clients, UploadAvatar(c) PROVE UploadsTyped'
    <2> DEFINE file == [number |-> uploads + 1, size |-> "allowed"]
    <2>1. file \in File
        BY <1>t, <1>13, NewFile DEF UploadAvatar, Sizes
    <2>2. Stand(c, "saveAvatar", "avatar", file)
        BY <1>13 DEF UploadAvatar
    <2>3. save' \in [Clients -> Saving]
        BY <1>s, <1>v, <1>p, <2>1, <2>2
    <2> QED
        BY <1>t, <1>a, <1>13, <2>3 DEF UploadAvatar, UploadsTyped
<1>14. ASSUME NEW c \in Clients, UpdateUserAvatarUrl(c) PROVE UploadsTyped'
    <2>1. save[c].file \in File
        BY <1>t, <1>14 DEF UpdateUserAvatarUrl, At, Carries, NotNewer
    <2>2. save' \in [Clients -> Saving]
        BY <1>14, <1>r DEF UpdateUserAvatarUrl
    <2> QED
        BY <1>t, <1>a, <1>14, <2>1, <2>2 DEF UpdateUserAvatarUrl, UploadsTyped
<1>15. ASSUME NEW c \in Clients, Fail(c) PROVE UploadsTyped'
    <2>1. save' \in [Clients -> Saving]
        BY <1>15, <1>r DEF Fail
    <2> QED
        BY <1>t, <1>a, <1>15, <2>1 DEF Fail, UploadsTyped
<1>16. CASE Submit
    BY <1>t, <1>a, <1>16 DEF Submit, UploadsTyped
<1>17. CASE UNCHANGED uploadsVars
    BY <1>t, <1>a, <1>17 DEF uploadsVars, UploadsTyped
<1> QED
    BY <1>1, <1>2, <1>3, <1>4, <1>5, <1>6, <1>7, <1>8, <1>9, <1>10, <1>11, <1>12, <1>13,
       <1>14, <1>15, <1>16, <1>17 DEF UploadsNext

(* What requests carry outlives the steps of others. *)
LEMMA CarriesStep == UploadsInv /\ [UploadsNext]_uploadsVars => Carries'
<1> SUFFICES ASSUME UploadsInv, [UploadsNext]_uploadsVars, NEW g \in Clients
             PROVE  /\ save'[g].at \in {"getFile", "createCv"} => save'[g].id \in CvFiles
                    /\ save'[g].at \in {"getVideo", "saveAnswer"} => save'[g].id \in Videos
                    /\ save'[g].at = "createCv" => NotNewer(save[g].file, save[g].id)'
                    /\ save'[g].at = "saveAnswer" =>
                            save'[g].file \in File /\ asset'[save'[g].id] = save'[g].file
                    /\ save'[g].at = "saveAvatar" => NotNewer(save[g].file, "avatar")'
    BY DEF Carries
<1> DEFINE Good == /\ save'[g].at \in {"getFile", "createCv"} => save'[g].id \in CvFiles
                   /\ save'[g].at \in {"getVideo", "saveAnswer"} => save'[g].id \in Videos
                   /\ save'[g].at = "createCv" => NotNewer(save[g].file, save[g].id)'
                   /\ save'[g].at = "saveAnswer" =>
                            save'[g].file \in File /\ asset'[save'[g].id] = save'[g].file
                   /\ save'[g].at = "saveAvatar" => NotNewer(save[g].file, "avatar")'
<1>t. UploadsTyped /\ Numbered /\ Carries
    BY DEF UploadsInv
<1>v. CvFiles \subseteq Ids /\ Videos \subseteq Ids /\ "avatar" \in Ids
    BY DEF Ids, Signable
(* A request that does not move. *)
<1>k. ASSUME save'[g] = save[g] PROVE Good
    <2>1. CASE save[g].at = "createCv"
        <3>1. NotNewer(save[g].file, save[g].id) /\ save[g].id \in Ids
            BY <1>t, <1>v, <2>1 DEF Carries
        <3>2. NotNewer(save[g].file, save[g].id)'
            <4>1. \A file, id : id \in Ids /\ NotNewer(file, id) =>
                    file \in File /\ asset'[id] # Absent /\ file.number <= asset'[id].number
                BY <1>t, NotNewerStep DEF NotNewer
            <4> QED
                BY <1>k, <3>1, <4>1 DEF NotNewer
        <3> QED
            BY <1>t, <1>k, <2>1, <3>2 DEF Carries
    <2>2. CASE save[g].at = "saveAnswer"
        <3>1. save[g].id \in Videos /\ save[g].file \in File /\ asset[save[g].id] = save[g].file
            BY <1>t, <2>2 DEF Carries
        <3>2. asset[save[g].id] # Absent
            BY <3>1, UploadsAssumption
        <3>3. asset'[save[g].id] = asset[save[g].id]
            BY <1>t, <1>v, <3>1, <3>2, AssetStep
        <3> QED
            BY <1>k, <2>2, <3>1, <3>3
    <2>3. CASE save[g].at = "saveAvatar"
        <3>1. NotNewer(save[g].file, "avatar")
            BY <1>t, <2>3 DEF Carries
        <3>2. NotNewer(save[g].file, "avatar")'
            <4>1. \A file : NotNewer(file, "avatar") =>
                    /\ file \in File
                    /\ asset'["avatar"] # Absent
                    /\ file.number <= asset'["avatar"].number
                BY <1>t, <1>v, NotNewerStep DEF NotNewer
            <4> QED
                BY <1>k, <3>1, <4>1 DEF NotNewer
        <3> QED
            BY <1>k, <2>3, <3>2
    <2>4. CASE save[g].at \notin {"createCv", "saveAnswer", "saveAvatar"}
        BY <1>t, <1>k, <2>4 DEF Carries
    <2> QED
        BY <2>1, <2>2, <2>3, <2>4
(* A step of a request moves no other, and one that rests carries nothing. *)
<1>o. ASSUME NEW c \in Clients, c # g,
             Rest(c) \/ \E at, id, file : Stand(c, at, id, file)
      PROVE  Good
    BY <1>t, <1>k, <1>o DEF Rest, Stand, UploadsTyped
<1>r. ASSUME Rest(g) PROVE Good
    <2>1. save'[g] = Idle
        BY <1>t, <1>r DEF Rest, UploadsTyped
    <2> QED
        BY <2>1 DEF Idle
<1>s. ASSUME NEW at, NEW id, NEW file, Stand(g, at, id, file)
      PROVE  save'[g] = [at |-> at, id |-> id, file |-> file]
    BY <1>t, <1>s DEF Stand, UploadsTyped
<1> HIDE DEF Good
<1>1. ASSUME UNCHANGED save PROVE Good
    BY <1>k, <1>1
<1>2. ASSUME NEW c \in Clients, Rest(c) PROVE Good
    BY <1>o, <1>r, <1>2
<1>3. ASSUME NEW c \in Clients, NEW id \in CvFiles, RequestCv(c, id) PROVE Good
    <2>1. Stand(c, "getFile", id, Absent)
        BY <1>3 DEF RequestCv
    <2>2. CASE c = g
        <3>1. save'[g] = [at |-> "getFile", id |-> id, file |-> Absent]
            BY <1>s, <2>1, <2>2
        <3>2. save'[g].at = "getFile" /\ save'[g].id = id
            BY <3>1
        <3> QED
            BY <3>2 DEF Good
    <2> QED
        BY <1>o, <2>1, <2>2
<1>4. ASSUME NEW c \in Clients, GetFile(c) PROVE Good
    <2> DEFINE file == asset[save[c].id]
    <2>1. CASE Rest(c)
        BY <1>2, <2>1
    <2>2. CASE file # Absent /\ Stand(c, "createCv", save[c].id, file)
        <3>1. CASE c = g
            <4>1. save[c].id \in CvFiles /\ asset' = asset
                BY <1>t, <1>4 DEF GetFile, At, Carries
            <4>2. file \in File /\ file.number \in Nat
                BY <1>t, <1>v, <2>2, <4>1 DEF UploadsTyped, File
            <4>3. save'[g] = [at |-> "createCv", id |-> save[c].id, file |-> file]
                BY <1>s, <2>2, <3>1
            <4>4. NotNewer(save[g].file, save[g].id)'
                BY <2>2, <4>1, <4>2, <4>3 DEF NotNewer
            <4> QED
                BY <4>1, <4>3, <4>4 DEF Good
        <3> QED
            BY <1>o, <2>2, <3>1
    <2> QED
        BY <1>4, <2>1, <2>2 DEF GetFile, ValidCv
<1>5. ASSUME NEW c \in Clients, NEW id \in Videos, AuthorizeQuestion(c, id) PROVE Good
    <2>1. Stand(c, "getVideo", id, Absent)
        BY <1>5 DEF AuthorizeQuestion
    <2>2. CASE c = g
        <3>1. save'[g] = [at |-> "getVideo", id |-> id, file |-> Absent]
            BY <1>s, <2>1, <2>2
        <3>2. save'[g].at = "getVideo" /\ save'[g].id = id
            BY <3>1
        <3> QED
            BY <3>2 DEF Good
    <2> QED
        BY <1>o, <2>1, <2>2
<1>6. ASSUME NEW c \in Clients, GetVideo(c) PROVE Good
    <2> DEFINE file == asset[save[c].id]
    <2>1. CASE Rest(c)
        BY <1>2, <2>1
    <2>2. CASE file # Absent /\ Stand(c, "saveAnswer", save[c].id, file)
        <3>1. CASE c = g
            <4>1. save[c].id \in Videos /\ asset' = asset
                BY <1>t, <1>6 DEF GetVideo, At, Carries
            <4>2. file \in File
                BY <1>t, <1>v, <2>2, <4>1 DEF UploadsTyped
            <4>3. save'[g] = [at |-> "saveAnswer", id |-> save[c].id, file |-> file]
                BY <1>s, <2>2, <3>1
            <4> QED
                BY <4>1, <4>2, <4>3 DEF Good
        <3> QED
            BY <1>o, <2>2, <3>1
    <2> QED
        BY <1>6, <2>1, <2>2 DEF GetVideo, IsValidVideo
<1>7. ASSUME NEW c \in Clients, UpdateAvatar(c) PROVE Good
    <2>1. Stand(c, "uploadAvatar", "avatar", Absent)
        BY <1>7 DEF UpdateAvatar
    <2>2. CASE c = g
        <3>1. save'[g] = [at |-> "uploadAvatar", id |-> "avatar", file |-> Absent]
            BY <1>s, <2>1, <2>2
        <3>2. save'[g].at = "uploadAvatar" /\ save'[g].id = "avatar"
            BY <3>1
        <3> QED
            BY <3>2 DEF Good
    <2> QED
        BY <1>o, <2>1, <2>2
<1>8. ASSUME NEW c \in Clients, UploadAvatar(c) PROVE Good
    <2> DEFINE file == [number |-> uploads + 1, size |-> "allowed"]
    <2>1. Stand(c, "saveAvatar", "avatar", file) /\ asset' = [asset EXCEPT !["avatar"] = file]
        BY <1>8 DEF UploadAvatar
    <2>2. CASE c = g
        <3>1. file \in File
            BY <1>t, <1>8, NewFile DEF UploadAvatar, Sizes
        <3>2. asset'["avatar"] = file
            BY <1>t, <1>v, <2>1 DEF UploadsTyped
        <3>3. save'[g] = [at |-> "saveAvatar", id |-> "avatar", file |-> file]
            BY <1>s, <2>1, <2>2
        <3>4. file # Absent /\ file.number \in Nat
            BY <3>1, UploadsAssumption DEF File
        <3> HIDE DEF file
        <3>5. NotNewer(save[g].file, "avatar")'
            BY <3>1, <3>2, <3>3, <3>4 DEF NotNewer
        <3> QED
            BY <3>3, <3>5 DEF Good
    <2> QED
        BY <1>o, <2>1, <2>2
<1> QED
    <2>1. Good
        BY <1>1, <1>2, <1>3, <1>4, <1>5, <1>6, <1>7, <1>8 DEF UploadsNext, uploadsVars,
           SignCv, SignVideo, SignatureExpires, Upload, DownloadFile, CreateCv, SaveAnswer,
           UpdateUserAvatarUrl, Submit, Fail
    <2> QED
        BY <2>1 DEF Good

(* A row that is there stays, so what was parsed has one. *)
LEMMA ParsingStep == UploadsInv /\ [UploadsNext]_uploadsVars => Parsing'
<1> SUFFICES ASSUME UploadsInv, [UploadsNext]_uploadsVars, NEW id \in CvFiles, cv'[id] = Absent
             PROVE  parsed'[id] = Absent
    BY DEF Parsing
<1>t. UploadsTyped /\ Parsing /\ Carries
    BY DEF UploadsInv
<1>1. CASE UNCHANGED <<cv, parsed>>
    BY <1>t, <1>1 DEF Parsing
<1>2. ASSUME NEW x \in CvFiles, DownloadFile(x) PROVE parsed'[id] = Absent
    BY <1>t, <1>2 DEF DownloadFile, Parsing, UploadsTyped
<1>3. ASSUME NEW c \in Clients, CreateCv(c) PROVE parsed'[id] = Absent
    <2>1. cv[id] = Absent
        BY <1>t, <1>3 DEF CreateCv, UploadsTyped
    <2> QED
        BY <1>t, <1>3, <2>1 DEF CreateCv, Parsing
<1> QED
    BY <1>1, <1>2, <1>3 DEF UploadsNext, uploadsVars, rows, SignCv, SignVideo,
       SignatureExpires, Upload, RequestCv, GetFile, AuthorizeQuestion, GetVideo,
       SaveAnswer, UpdateAvatar, UploadAvatar, UpdateUserAvatarUrl, Submit, Fail

(* The rows follow the files. *)
LEMMA RowsStep == UploadsInv /\ [UploadsNext]_uploadsVars => RowsShowTheirFiles'
<1> SUFFICES ASSUME UploadsInv, [UploadsNext]_uploadsVars PROVE RowsShowTheirFiles'
    OBVIOUS
<1>t. UploadsTyped /\ Numbered /\ Carries /\ Parsing /\ RowsShowTheirFiles
    BY DEF UploadsInv
<1>v. CvFiles \subseteq Ids /\ Videos \subseteq Ids /\ "avatar" \in Ids
    BY DEF Ids, Signable
<1>g. \A id \in Ids : asset[id] # Absent =>
        /\ asset'[id] # Absent
        /\ asset[id].number <= asset'[id].number
        /\ asset[id].number \in Nat /\ asset'[id].number \in Nat
        /\ id \in Videos => asset'[id] = asset[id]
    BY <1>t, AssetStep DEF UploadsTyped, File
<1>1. answer' # Absent => asset'[answer'.id] = answer'.file
    <2>1. CASE UNCHANGED answer
        <3>1. answer # Absent => answer.id \in Videos /\ answer.file # Absent
            BY <1>t, UploadsAssumption DEF UploadsTyped
        <3> QED
            BY <1>t, <1>v, <1>g, <2>1, <3>1 DEF RowsShowTheirFiles
    <2>2. ASSUME NEW c \in Clients, SaveAnswer(c)
          PROVE  answer' # Absent => asset'[answer'.id] = answer'.file
        <3>1. asset[save[c].id] = save[c].file /\ asset' = asset
            BY <1>t, <2>2 DEF SaveAnswer, At, Carries
        <3> QED
            BY <1>t, <2>2, <3>1 DEF SaveAnswer, RowsShowTheirFiles
    <2> QED
        BY <2>1, <2>2 DEF UploadsNext, uploadsVars, rows, SignCv, SignVideo, SignatureExpires,
           Upload, DownloadFile, RequestCv, GetFile, CreateCv, AuthorizeQuestion, GetVideo,
           UpdateAvatar, UploadAvatar, UpdateUserAvatarUrl, Submit, Fail
<1>2. ASSUME NEW id \in CvFiles, cv'[id] # Absent
      PROVE  /\ asset'[id] # Absent
             /\ cv'[id].number <= asset'[id].number
             /\ parsed'[id] # Absent => parsed'[id].number \in cv'[id].number .. asset'[id].number
    <2>1. CASE UNCHANGED <<cv, parsed>>
        <3>1. asset[id] # Absent /\ cv[id].number \in Nat /\ cv[id].number <= asset[id].number
            BY <1>t, <1>2, <2>1 DEF RowsShowTheirFiles, UploadsTyped, File
        <3>2. parsed[id] # Absent => parsed[id].number \in cv[id].number .. asset[id].number
            BY <1>t, <1>2, <2>1 DEF RowsShowTheirFiles
        <3> QED
            BY <1>v, <1>g, <2>1, <3>1, <3>2
    <2>2. ASSUME NEW x \in CvFiles, DownloadFile(x)
          PROVE  /\ asset'[id] # Absent
                 /\ cv'[id].number <= asset'[id].number
                 /\ parsed'[id] # Absent =>
                        parsed'[id].number \in cv'[id].number .. asset'[id].number
        <3>1. cv' = cv /\ asset' = asset /\ parsed' = [parsed EXCEPT ![x] = asset[x]]
            BY <2>2 DEF DownloadFile
        <3>2. asset[id] # Absent /\ cv[id].number <= asset[id].number
              /\ (parsed[id] # Absent => parsed[id].number \in cv[id].number .. asset[id].number)
            BY <1>t, <1>2, <3>1 DEF RowsShowTheirFiles
        <3>3. cv[id].number \in Nat /\ asset[id].number \in Nat
            BY <1>t, <1>2, <1>v, <1>g, <3>1, <3>2 DEF UploadsTyped, File
        <3>4. parsed'[id] = IF id = x THEN asset[id] ELSE parsed[id]
            BY <1>t, <3>1 DEF UploadsTyped
        <3> QED
            BY <3>1, <3>2, <3>3, <3>4
    <2>3. ASSUME NEW c \in Clients, CreateCv(c)
          PROVE  /\ asset'[id] # Absent
                 /\ cv'[id].number <= asset'[id].number
                 /\ parsed'[id] # Absent =>
                        parsed'[id].number \in cv'[id].number .. asset'[id].number
        <3>1. asset' = asset /\ parsed' = parsed
              /\ cv' = [cv EXCEPT ![save[c].id] = IF @ = Absent THEN save[c].file ELSE @]
            BY <2>3 DEF CreateCv
        <3>2. NotNewer(save[c].file, save[c].id) /\ save[c].id \in CvFiles
            BY <1>t, <2>3 DEF CreateCv, At, Carries
        <3>3. CASE cv[id] = Absent
            <4>1. id = save[c].id /\ cv'[id] = save[c].file
                BY <1>t, <1>2, <3>1, <3>2, <3>3 DEF UploadsTyped
            <4>2. parsed[id] = Absent
                BY <1>t, <3>3 DEF Parsing
            <4> QED
                BY <3>1, <3>2, <4>1, <4>2 DEF NotNewer
        <3>4. CASE cv[id] # Absent
            <4>1. cv'[id] = cv[id]
                BY <1>t, <3>1, <3>2, <3>4 DEF UploadsTyped
            <4> QED
                BY <1>t, <3>1, <3>4, <4>1 DEF RowsShowTheirFiles
        <3> QED
            BY <3>3, <3>4
    <2> QED
        BY <2>1, <2>2, <2>3 DEF UploadsNext, uploadsVars, rows, SignCv, SignVideo,
           SignatureExpires, Upload, RequestCv, GetFile, AuthorizeQuestion, GetVideo,
           SaveAnswer, UpdateAvatar, UploadAvatar, UpdateUserAvatarUrl, Submit, Fail
<1>3. avatarUrl' # Absent =>
        asset'["avatar"] # Absent /\ avatarUrl'.number <= asset'["avatar"].number
    <2>1. CASE UNCHANGED avatarUrl
        <3>1. avatarUrl # Absent => avatarUrl.number \in Nat
            BY <1>t DEF UploadsTyped, File
        <3> QED
            BY <1>t, <1>v, <1>g, <2>1, <3>1 DEF RowsShowTheirFiles
    <2>2. ASSUME NEW c \in Clients, UpdateUserAvatarUrl(c)
          PROVE  asset'["avatar"] # Absent /\ avatarUrl'.number <= asset'["avatar"].number
        <3>1. NotNewer(save[c].file, "avatar") /\ asset' = asset /\ avatarUrl' = save[c].file
            BY <1>t, <2>2 DEF UpdateUserAvatarUrl, At, Carries
        <3> QED
            BY <3>1 DEF NotNewer
    <2> QED
        BY <2>1, <2>2 DEF UploadsNext, uploadsVars, rows, SignCv, SignVideo, SignatureExpires,
           Upload, DownloadFile, RequestCv, GetFile, CreateCv, AuthorizeQuestion, GetVideo,
           SaveAnswer, UpdateAvatar, UploadAvatar, Submit, Fail
<1> QED
    BY <1>1, <1>2, <1>3 DEF RowsShowTheirFiles

-----------------------------------------------------------------------------
(* Whatever is uploaded, repeated or saved at the same time, the rows show *)
(* the files they were written for, and never a newer one than there is.   *)
THEOREM RowsFollowFiles == UploadsSpec => []RowsShowTheirFiles
<1>1. UploadsInv /\ [UploadsNext]_uploadsVars => UploadsInv'
    <2>1. UploadsInv /\ [UploadsNext]_uploadsVars => Numbered'
        BY AssetStep DEF UploadsInv
    <2> QED
        BY <2>1, UploadsTypeStep, CarriesStep, ParsingStep, RowsStep DEF UploadsInv
<1>2. UploadsInv => RowsShowTheirFiles
    BY DEF UploadsInv
<1> QED
    BY UploadsBegin, <1>1, <1>2, PTL DEF UploadsSpec
=============================================================================
