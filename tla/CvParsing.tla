----------------------------- MODULE CvParsing -----------------------------
(***************************************************************************)
(* The cv module: the rows of cvs, the parse pipeline that fills a CV's    *)
(* parsed data, and the endpoint that replaces it by hand.                 *)
(*                                                                         *)
(* A parse holds no lock: its claim is the row's PROCESSING status, and a  *)
(* claim whose row has not been written for longer than Stale is taken to  *)
(* be left over by a dead server.  So time matters: Tick is a unit of it,  *)
(* and a parse that runs gives up or is saved within MaxParse, the sum of  *)
(* the pipeline's timeouts.  Contents stand for a CV's text and data.      *)
(***************************************************************************)
EXTENDS Naturals

CONSTANTS
    Cvs,        \* rows of cvs, by the file they were uploaded as
    Handlers,   \* requests the server serves at the same time
    Contents,   \* what parsed_data may hold
    Stale,      \* PARSE_STALE_AFTER_MS
    MaxParse,   \* the longest a parse runs from its claim to its save
    None        \* no data, no CV

(* 20 s of download and four language model calls of LLM_TIMEOUT_MS (30 s  *)
(* by default) fit into the 180 s of PARSE_STALE_AFTER_MS.                 *)
ASSUME CvAssumption ==
    /\ Stale \in Nat
    /\ MaxParse \in Nat
    /\ MaxParse <= Stale
    /\ None \notin Cvs \cup Contents

VARIABLES
    status,   \* cvs.parse_status, "ABSENT" without a row
    parsed,   \* cvs.parsed_data
    age,      \* time since cvs.updated_at, up to Stale + 1
    req,      \* where each handler stands
    edited    \* history: what the last manual edit saved, None without one

vars == <<status, parsed, age, req, edited>>

-----------------------------------------------------------------------------
ParseStatus == {"PENDING", "PROCESSING", "COMPLETED", "FAILED"}

(* The awaits of a parse, from its claim on; "saveEdit" is an edit's. *)
Parsing == {"claimed", "pipeline", "saveParse"}

Request == [pc : Parsing \cup {"idle", "saveEdit"}, cv : Cvs \cup {None},
            data : Contents \cup {None}, elapsed : 0 .. MaxParse]

Idle == [pc |-> "idle", cv |-> None, data |-> None, elapsed |-> 0]

TypeOK ==
    /\ status \in [Cvs -> ParseStatus \cup {"ABSENT"}]
    /\ parsed \in [Cvs -> Contents \cup {None}]
    /\ age \in [Cvs -> 0 .. Stale + 1]
    /\ req \in [Handlers -> Request]
    /\ edited \in [Cvs -> Contents \cup {None}]

Init ==
    /\ status = [c \in Cvs |-> "ABSENT"]
    /\ parsed = [c \in Cvs |-> None]
    /\ age = [c \in Cvs |-> 0]
    /\ req = [h \in Handlers |-> Idle]
    /\ edited = [c \in Cvs |-> None]

-----------------------------------------------------------------------------
Parses(h, c) == req[h].pc \in Parsing /\ req[h].cv = c

(* Broken forms of definitions below, one plausible bug each; none is used. *)

(* A claim that forgets how old a PROCESSING row must be, forgets it        *)
(* altogether, or is not refused to a CV that is parsed already.            *)
Parsable_AnyAge(c) == status[c] \in {"PENDING", "FAILED", "PROCESSING"}

Parsable_NeverStale(c) == status[c] \in {"PENDING", "FAILED"}

Parsable_Completed(c) == status[c] \in {"PENDING", "FAILED", "COMPLETED"}

(* An edit that does not look at the status. *)
LoadForEdit_AnyStatus(h, c, x) ==
    /\ req[h].pc = "idle"
    /\ status[c] # "ABSENT"
    /\ req' = [req EXCEPT ![h] = [Idle EXCEPT !.pc = "saveEdit", !.cv = c, !.data = x]]
    /\ UNCHANGED <<status, parsed, age, edited>>

(* A claim whose UPDATE clears the status. *)
StartParse_NoStatus(h, c) ==
    /\ req[h].pc = "idle"
    /\ status[c] \in ParseStatus
    /\ status' = [status EXCEPT ![c] = None]
    /\ req' = [req EXCEPT ![h] = [Idle EXCEPT !.pc = "claimed", !.cv = c]]
    /\ UNCHANGED <<parsed, age, edited>>

-----------------------------------------------------------------------------
(* POST /cvs: the unique file id lets one insert through. *)
CreateCv(c) ==
    /\ status[c] = "ABSENT"
    /\ status' = [status EXCEPT ![c] = "PENDING"]
    /\ age' = [age EXCEPT ![c] = 0]
    /\ UNCHANGED <<parsed, req, edited>>

(* The WHERE of tryStartParse. *)
Parsable(c) ==
    \/ status[c] \in {"PENDING", "FAILED"}
    \/ status[c] = "PROCESSING" /\ age[c] > Stale

(* POST /cvs/:id/parse: one guarded UPDATE claims the row.  A request that *)
(* it refuses ends there and changes nothing.                              *)
StartParse(h, c) ==
    /\ req[h].pc = "idle"
    /\ Parsable(c)
    /\ status' = [status EXCEPT ![c] = "PROCESSING"]
    /\ age' = [age EXCEPT ![c] = 0]
    /\ req' = [req EXCEPT ![h] = [Idle EXCEPT !.pc = "claimed", !.cv = c]]
    /\ UNCHANGED <<parsed, edited>>

(* The row that was claimed is read back. *)
LoadClaimed(h) ==
    /\ req[h].pc = "claimed"
    /\ req' = [req EXCEPT ![h].pc = "pipeline"]
    /\ UNCHANGED <<status, parsed, age, edited>>

(* Download, text extraction and language model: any error or exception on *)
(* the way makes a failed parse (None).                                    *)
RunParsePipeline(h) ==
    /\ req[h].pc = "pipeline"
    /\ \E data \in Contents \cup {None} :
        req' = [req EXCEPT ![h].pc = "saveParse", ![h].data = data]
    /\ UNCHANGED <<status, parsed, age, edited>>

(* saveParseResult writes the row by its id, whatever it holds by now. *)
SaveParseResult(h) ==
    LET c == req[h].cv IN
    /\ req[h].pc = "saveParse"
    /\ status' = [status EXCEPT ![c] =
                    IF req[h].data = None THEN "FAILED" ELSE "COMPLETED"]
    /\ parsed' = [parsed EXCEPT ![c] = req[h].data]
    /\ age' = [age EXCEPT ![c] = 0]
    /\ req' = [req EXCEPT ![h] = Idle]
    /\ UNCHANGED edited

(* PATCH /cvs/:id/parsed-data: the row is read and must be editable. *)
LoadForEdit(h, c, x) ==
    /\ req[h].pc = "idle"
    /\ status[c] = "COMPLETED"
    /\ parsed[c] # None
    /\ req' = [req EXCEPT ![h] = [Idle EXCEPT !.pc = "saveEdit", !.cv = c, !.data = x]]
    /\ UNCHANGED <<status, parsed, age, edited>>

SaveParsedData(h) ==
    LET c == req[h].cv IN
    /\ req[h].pc = "saveEdit"
    /\ parsed' = [parsed EXCEPT ![c] = req[h].data]
    /\ edited' = [edited EXCEPT ![c] = req[h].data]
    /\ age' = [age EXCEPT ![c] = 0]
    /\ req' = [req EXCEPT ![h] = Idle]
    /\ UNCHANGED status

(* The server dies, or a query of the request fails; nobody tidies up. *)
Abort(h) ==
    /\ req[h].pc # "idle"
    /\ req' = [req EXCEPT ![h] = Idle]
    /\ UNCHANGED <<status, parsed, age, edited>>

(* A unit of time passes; a parse that is out of time has to move first. *)
Tick ==
    /\ \A h \in Handlers : req[h].pc \in Parsing => req[h].elapsed < MaxParse
    /\ age' = [c \in Cvs |-> IF age[c] <= Stale THEN age[c] + 1 ELSE age[c]]
    /\ req' = [h \in Handlers |->
                IF req[h].pc \in Parsing THEN [req[h] EXCEPT !.elapsed = @ + 1]
                                         ELSE req[h]]
    /\ UNCHANGED <<status, parsed, edited>>

-----------------------------------------------------------------------------
Continue(h) ==
    \/ LoadClaimed(h)
    \/ RunParsePipeline(h)
    \/ SaveParseResult(h)
    \/ SaveParsedData(h)

Next ==
    \/ \E c \in Cvs : CreateCv(c)
    \/ \E h \in Handlers, c \in Cvs : StartParse(h, c)
    \/ \E h \in Handlers, c \in Cvs, x \in Contents : LoadForEdit(h, c, x)
    \/ \E h \in Handlers : Continue(h) \/ Abort(h)
    \/ Tick

(* Awaits return and time passes; clients and failures owe nothing. *)
Fairness == (\A h \in Handlers : WF_vars(Continue(h))) /\ SF_vars(Tick)

Spec == Init /\ [][Next]_vars

FairSpec == Spec /\ Fairness

-----------------------------------------------------------------------------
(* Properties *)

(* No two live parses ever work on one CV, although a claim expires: what  *)
(* a stale claim's successor relies on (the 409 of a second parse).        *)
OneParser ==
    \A c \in Cvs : \A g, h \in Handlers : Parses(g, c) /\ Parses(h, c) => g = h

(* A manual edit is never overwritten by a parse, however late one ends    *)
(* (docs/api-contract-cv.md): the row holds the last edit that was saved.  *)
EditKept ==
    \A c \in Cvs : edited[c] # None =>
        status[c] = "COMPLETED" /\ parsed[c] = edited[c]

(* A CV has parsed data exactly when it is COMPLETED, whatever parses and  *)
(* edits overlapped: an interview is given a CV that can be read.          *)
CompletedHasData ==
    \A c \in Cvs : status[c] = "COMPLETED" <=> parsed[c] # None

(* A parse that succeeded is final: no retry, stale claim or failure takes *)
(* the CV out of COMPLETED.                                                *)
CompletedIsFinal ==
    [][\A c \in Cvs : status[c] = "COMPLETED" => status'[c] = "COMPLETED"]_vars

(* A CV that is being parsed is parsed in the end or may be parsed again:  *)
(* the death of the server does not leave it in PROCESSING for good.       *)
NeverStuck ==
    \A c \in Cvs : status[c] = "PROCESSING" ~> Parsable(c) \/ status[c] = "COMPLETED"
=============================================================================
