-------------------------- MODULE CvParsing_proofs --------------------------
(***************************************************************************)
(* Theorems about CvParsing, for any number of CVs and requests and any    *)
(* timeouts that fit.                                                      *)
(*                                                                         *)
(* A parse has no lock, so its exclusivity is a fact about time: as long   *)
(* as it runs, its row is PROCESSING and exactly as old as the parse       *)
(* itself (ClaimHeld), hence at most MaxParse old and never stale, so the  *)
(* claim's guard refuses every other parse, and an edit's guard refuses    *)
(* the row (EditorsSeeCompleted).                                          *)
(***************************************************************************)
EXTENDS CvParsing, TLAPS

ClaimHeld ==
    \A h \in Handlers : req[h].pc \in Parsing =>
        /\ req[h].cv # None
        /\ status[req[h].cv] = "PROCESSING"
        /\ age[req[h].cv] = req[h].elapsed

EditorsSeeCompleted ==
    \A h \in Handlers : req[h].pc = "saveEdit" =>
        /\ req[h].cv # None
        /\ req[h].data # None
        /\ status[req[h].cv] = "COMPLETED"

IInv ==
    /\ TypeOK
    /\ ClaimHeld
    /\ EditorsSeeCompleted
    /\ OneParser
    /\ EditKept
    /\ CompletedHasData

(* The invariant holds at the start. *)
LEMMA InitInv == Init => IInv
<1> SUFFICES ASSUME Init PROVE IInv
    OBVIOUS
<1> USE CvAssumption DEF Init
<1>1. TypeOK
    BY DEF TypeOK, Idle, Request
<1>2. ClaimHeld /\ EditorsSeeCompleted /\ OneParser
    BY DEF ClaimHeld, EditorsSeeCompleted, OneParser, Parses, Idle, Parsing
<1>3. EditKept /\ CompletedHasData
    BY DEF EditKept, CompletedHasData
<1> QED
    BY <1>1, <1>2, <1>3 DEF IInv

(* A CV that may be claimed has no live parse: a parse's row is PROCESSING *)
(* and no older than the parse, which is not stale.                        *)
LEMMA ParsableIsFree ==
    ASSUME IInv, NEW c \in Cvs, Parsable(c), NEW h \in Handlers
    PROVE  ~Parses(h, c)
<1> SUFFICES ASSUME Parses(h, c) PROVE FALSE
    OBVIOUS
<1>1. status[c] = "PROCESSING" /\ age[c] = req[h].elapsed
    BY DEF IInv, ClaimHeld, Parses
<1>2. req[h].elapsed \in 0 .. MaxParse
    BY DEF IInv, TypeOK, Request
<1> QED
    BY <1>1, <1>2, CvAssumption DEF Parsable

(* Every step preserves the type invariant. *)
LEMMA TypeStep == IInv /\ [Next]_vars => TypeOK'
<1> SUFFICES ASSUME IInv, [Next]_vars PROVE TypeOK'
    OBVIOUS
<1> USE DEF IInv, TypeOK
<1>0. Idle \in Request
    BY CvAssumption DEF Idle, Request
<1>1. ASSUME NEW c \in Cvs, CreateCv(c) PROVE TypeOK'
    <2>1. 0 \in 0 .. Stale + 1
        BY CvAssumption
    <2> QED
        BY <1>1, <2>1 DEF CreateCv, ParseStatus
<1>2. ASSUME NEW h \in Handlers, NEW c \in Cvs, StartParse(h, c) PROVE TypeOK'
    <2>1. [Idle EXCEPT !.pc = "claimed", !.cv = c] \in Request
        BY <1>0 DEF Request, Parsing
    <2>2. 0 \in 0 .. Stale + 1
        BY CvAssumption
    <2> QED
        BY <1>2, <2>1, <2>2 DEF StartParse, ParseStatus
<1>3. ASSUME NEW h \in Handlers, NEW c \in Cvs, NEW x \in Contents,
             LoadForEdit(h, c, x)
      PROVE  TypeOK'
    <2>1. [Idle EXCEPT !.pc = "saveEdit", !.cv = c, !.data = x] \in Request
        BY <1>0 DEF Request
    <2> QED
        BY <1>3, <2>1 DEF LoadForEdit
<1>4. ASSUME NEW h \in Handlers, LoadClaimed(h) PROVE TypeOK'
    BY <1>4 DEF LoadClaimed, Request, Parsing
<1>5. ASSUME NEW h \in Handlers, RunParsePipeline(h) PROVE TypeOK'
    <2>1. PICK data \in Contents \cup {None} :
            req' = [req EXCEPT ![h].pc = "saveParse", ![h].data = data]
        BY <1>5 DEF RunParsePipeline
    <2>2. [req[h] EXCEPT !.pc = "saveParse", !.data = data] \in Request
        BY DEF Request, Parsing
    <2>3. req' \in [Handlers -> Request]
        BY <2>1, <2>2
    <2> QED
        BY <1>5, <2>3 DEF RunParsePipeline
<1>6. ASSUME NEW h \in Handlers, SaveParseResult(h) PROVE TypeOK'
    <2>1. req[h].data \in Contents \cup {None}
        BY DEF Request
    <2>2. 0 \in 0 .. Stale + 1
        BY CvAssumption
    <2> QED
        BY <1>0, <1>6, <2>1, <2>2 DEF SaveParseResult, ParseStatus
<1>7. ASSUME NEW h \in Handlers, SaveParsedData(h) PROVE TypeOK'
    <2>1. req[h].data \in Contents \cup {None}
        BY DEF Request
    <2>2. 0 \in 0 .. Stale + 1
        BY CvAssumption
    <2> QED
        BY <1>0, <1>7, <2>1, <2>2 DEF SaveParsedData
<1>8. ASSUME NEW h \in Handlers, Abort(h) PROVE TypeOK'
    BY <1>0, <1>8 DEF Abort
<1>9. CASE Tick
    <2>1. age' \in [Cvs -> 0 .. Stale + 1]
        BY <1>9, CvAssumption DEF Tick
    <2>2. req' \in [Handlers -> Request]
        <3> SUFFICES ASSUME NEW h \in Handlers PROVE req'[h] \in Request
            BY <1>9 DEF Tick
        <3>1. req[h] \in Request
            OBVIOUS
        <3>2. CASE req[h].pc \notin Parsing
            BY <1>9, <3>1, <3>2 DEF Tick
        <3>3. CASE req[h].pc \in Parsing
            <4>1. req[h].elapsed + 1 \in 0 .. MaxParse
                BY <1>9, <3>1, <3>3, CvAssumption DEF Tick, Request
            <4>2. req'[h] = [req[h] EXCEPT !.elapsed = req[h].elapsed + 1]
                BY <1>9, <3>3 DEF Tick
            <4> QED
                BY <3>1, <4>1, <4>2 DEF Request
        <3> QED
            BY <3>2, <3>3
    <2> QED
        BY <1>9, <2>1, <2>2 DEF Tick
<1>10. CASE UNCHANGED vars
    BY <1>10 DEF vars
<1> QED
    BY <1>1, <1>2, <1>3, <1>4, <1>5, <1>6, <1>7, <1>8, <1>9, <1>10
    DEF Next, Continue

(* Every step keeps the claims of the running parses, the rows of the      *)
(* running edits, and at most one parse for each CV.                       *)
LEMMA ClaimStep ==
    IInv /\ [Next]_vars => ClaimHeld' /\ EditorsSeeCompleted' /\ OneParser'
<1> DEFINE Claims == ClaimHeld /\ EditorsSeeCompleted /\ OneParser
<1> SUFFICES ASSUME IInv, [Next]_vars PROVE Claims'
    OBVIOUS
<1> USE CvAssumption DEF IInv, TypeOK, ClaimHeld, EditorsSeeCompleted, OneParser, Parses
<1>1. ASSUME NEW c \in Cvs, CreateCv(c) PROVE Claims'
    BY <1>1 DEF CreateCv, Request
<1>2. ASSUME NEW h \in Handlers, NEW c \in Cvs, StartParse(h, c) PROVE Claims'
    <2>1. \A g \in Handlers : ~Parses(g, c)
        BY <1>2, ParsableIsFree DEF StartParse
    <2>2. status[c] # "COMPLETED"
        BY <1>2 DEF StartParse, Parsable
    <2> QED
        BY <1>2, <2>1, <2>2 DEF StartParse, Idle, Parsing, Request
<1>3. ASSUME NEW h \in Handlers, NEW c \in Cvs, NEW x \in Contents,
             LoadForEdit(h, c, x)
      PROVE  Claims'
    BY <1>3 DEF LoadForEdit, Idle, Parsing, Request
<1>4. ASSUME NEW h \in Handlers, LoadClaimed(h) PROVE Claims'
    BY <1>4 DEF LoadClaimed, Parsing, Request
<1>5. ASSUME NEW h \in Handlers, RunParsePipeline(h) PROVE Claims'
    BY <1>5 DEF RunParsePipeline, Parsing, Request
<1>6. ASSUME NEW h \in Handlers, SaveParseResult(h) PROVE Claims'
    <2>1. \A g \in Handlers : Parses(g, req[h].cv) => g = h
        BY <1>6 DEF SaveParseResult, Parsing, Request
    <2>2. status[req[h].cv] = "PROCESSING"
        BY <1>6 DEF SaveParseResult, Parsing
    <2> QED
        BY <1>6, <2>1, <2>2 DEF SaveParseResult, Idle, Parsing, Request
<1>7. ASSUME NEW h \in Handlers, SaveParsedData(h) PROVE Claims'
    <2>1. status[req[h].cv] = "COMPLETED"
        BY <1>7 DEF SaveParsedData
    <2> QED
        BY <1>7, <2>1 DEF SaveParsedData, Idle, Parsing, Request
<1>8. ASSUME NEW h \in Handlers, Abort(h) PROVE Claims'
    BY <1>8 DEF Abort, Idle, Parsing, Request
<1>9. CASE Tick
    <2>1. ASSUME NEW h \in Handlers
          PROVE  /\ req'[h].pc = req[h].pc
                 /\ req'[h].cv = req[h].cv
                 /\ req'[h].data = req[h].data
                 /\ req[h].pc \in Parsing => req'[h].elapsed = req[h].elapsed + 1
        BY <1>9 DEF Tick, Request
    <2>2. ClaimHeld'
        <3> SUFFICES ASSUME NEW h \in Handlers, req[h].pc \in Parsing
                     PROVE  age'[req[h].cv] = req[h].elapsed + 1
            BY <1>9, <2>1 DEF Tick
        <3>1. req[h].cv \in Cvs /\ req[h].elapsed \in Nat
            BY DEF Request
        <3>2. age[req[h].cv] = req[h].elapsed /\ req[h].elapsed < MaxParse
            BY <1>9 DEF Tick
        <3> QED
            BY <1>9, <3>1, <3>2 DEF Tick
    <2> QED
        BY <1>9, <2>1, <2>2 DEF Tick
<1>10. CASE UNCHANGED vars
    BY <1>10 DEF vars
<1> QED
    BY <1>1, <1>2, <1>3, <1>4, <1>5, <1>6, <1>7, <1>8, <1>9, <1>10
    DEF Next, Continue

(* Every step keeps the edits and the data of the COMPLETED rows. *)
LEMMA DataStep == IInv /\ [Next]_vars => EditKept' /\ CompletedHasData'
<1> DEFINE Data == EditKept /\ CompletedHasData
<1> SUFFICES ASSUME IInv, [Next]_vars PROVE Data'
    OBVIOUS
<1> USE CvAssumption DEF IInv, TypeOK, EditKept, CompletedHasData
<1>1. ASSUME NEW c \in Cvs, CreateCv(c) PROVE Data'
    BY <1>1 DEF CreateCv
<1>2. ASSUME NEW h \in Handlers, NEW c \in Cvs, StartParse(h, c) PROVE Data'
    BY <1>2 DEF StartParse, Parsable
<1>3. ASSUME NEW h \in Handlers, SaveParseResult(h) PROVE Data'
    <2>1. req[h].cv \in Cvs /\ status[req[h].cv] = "PROCESSING"
        BY <1>3 DEF SaveParseResult, ClaimHeld, Parsing, Request
    <2> QED
        BY <1>3, <2>1 DEF SaveParseResult
<1>4. ASSUME NEW h \in Handlers, SaveParsedData(h) PROVE Data'
    <2>1. /\ req[h].cv \in Cvs
          /\ req[h].data # None
          /\ status[req[h].cv] = "COMPLETED"
        BY <1>4 DEF SaveParsedData, EditorsSeeCompleted, Request
    <2> QED
        BY <1>4, <2>1 DEF SaveParsedData
<1>5. CASE UNCHANGED <<status, parsed, edited>>
    BY <1>5
<1> QED
    BY <1>1, <1>2, <1>3, <1>4, <1>5
    DEF Next, Continue, LoadForEdit, LoadClaimed, RunParsePipeline, Abort, Tick, vars

THEOREM Invariance == Spec => []IInv
<1>1. IInv /\ [Next]_vars => IInv'
    BY TypeStep, ClaimStep, DataStep DEF IInv
<1> QED
    BY <1>1, InitInv, PTL DEF Spec

(* Every reachable state is well typed. *)
THEOREM TypeCorrect == Spec => []TypeOK
<1>1. IInv => TypeOK
    BY DEF IInv
<1> QED
    BY <1>1, Invariance, PTL

(* No two live parses ever work on one CV (tryStartParse). *)
THEOREM ParsesExclude == Spec => []OneParser
<1>1. IInv => OneParser
    BY DEF IInv
<1> QED
    BY <1>1, Invariance, PTL

(* No parse overwrites a manual edit (saveParseResult, saveParsedData). *)
THEOREM EditsKept == Spec => []EditKept
<1>1. IInv => EditKept
    BY DEF IInv
<1> QED
    BY <1>1, Invariance, PTL

(* A CV has parsed data exactly when it is COMPLETED. *)
THEOREM DataComplete == Spec => []CompletedHasData
<1>1. IInv => CompletedHasData
    BY DEF IInv
<1> QED
    BY <1>1, Invariance, PTL

(* Nothing takes a CV out of COMPLETED. *)
THEOREM CompletedFinal == Spec => CompletedIsFinal
<1> DEFINE Final == \A c \in Cvs : status[c] = "COMPLETED" => status'[c] = "COMPLETED"
<1>1. IInv /\ [Next]_vars => [Final]_vars
    <2> SUFFICES ASSUME IInv, [Next]_vars, NEW c \in Cvs, status[c] = "COMPLETED"
                 PROVE  status'[c] = "COMPLETED"
        OBVIOUS
    <2> USE DEF IInv, TypeOK
    <2>1. ASSUME NEW d \in Cvs, CreateCv(d) PROVE status'[c] = "COMPLETED"
        BY <2>1 DEF CreateCv
    <2>2. ASSUME NEW h \in Handlers, NEW d \in Cvs, StartParse(h, d)
          PROVE  status'[c] = "COMPLETED"
        BY <2>2 DEF StartParse, Parsable
    <2>3. ASSUME NEW h \in Handlers, SaveParseResult(h)
          PROVE  status'[c] = "COMPLETED"
        BY <2>3 DEF SaveParseResult, ClaimHeld, Parsing
    <2>4. CASE UNCHANGED status
        BY <2>4
    <2> QED
        BY <2>1, <2>2, <2>3, <2>4
        DEF Next, Continue, LoadForEdit, LoadClaimed, RunParsePipeline,
            SaveParsedData, Abort, Tick, vars
<1> QED
    BY <1>1, Invariance, PTL DEF Spec, CompletedIsFinal
=============================================================================
