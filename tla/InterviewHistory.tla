-------------------------- MODULE InterviewHistory --------------------------
(***************************************************************************)
(* A candidate's list of interviews, read page by page while interviews    *)
(* are created and go on.  A page is two queries that are sent together,   *)
(* the rows of the page and the number of all of them, in no transaction:  *)
(* either may see what the other does not.  The client goes on from the    *)
(* first page for as long as hasNext says that there is another.           *)
(*                                                                         *)
(* A session is its place in the table, the order of the serial ids.       *)
(***************************************************************************)
EXTENDS Naturals, Sequences, FiniteSets

CONSTANTS
    MaxSessions,   \* the sessions the candidate ever has: a bound
    Times,         \* values of created_at
    PageSizes,     \* 1 .. MAX_PAGE_SIZE of the request
    MaxLeft,       \* how often a session leaves a list being read: a bound
    NoValue        \* a filter that was not given

ASSUME HistoryAssumption ==
    /\ MaxSessions \in Nat
    /\ MaxLeft \in Nat
    /\ Times \subseteq Nat
    /\ PageSizes \subseteq Nat \ {0}
    /\ NoValue \notin Nat

VARIABLES
    created,    \* interview_sessions.created_at, by session
    status,     \* interview_sessions.status, by session
    client,     \* whether the client is reading, at the end, or elsewhere
    query,      \* the query it repeats, for one page after the other
    items,      \* the rows of the page being read, or NoValue
    total,      \* the count that comes with them, or NoValue
    expected,   \* history: the sessions the list had when it was opened
    seen,       \* history: the sessions the client has been shown
    left,       \* history: sessions that left the list since it was opened
    torn        \* history: sessions that entered it between a page's count
                \* and its rows

reading == <<client, query, items, total>>
historyVars == <<created, status, reading, expected, seen, left, torn>>

-----------------------------------------------------------------------------
Sessions == DOMAIN created

(* CREATED is left for good; a job that is delivered again takes a session *)
(* from COMPLETED to SCORING and back.  The others come and go like these. *)
Statuses == {"CREATED", "SCORING", "COMPLETED"}

HistoryInit ==
    /\ created = <<>>
    /\ status = <<>>
    /\ client = "elsewhere"
    /\ query = NoValue
    /\ items = NoValue
    /\ total = NoValue
    /\ expected = {}
    /\ seen = {}
    /\ left = 0
    /\ torn = 0

(* The WHERE of both queries: the bounds are part of the range. *)
Matching(q) ==
    {s \in Sessions :
        /\ q.from = NoValue \/ created[s] >= q.from
        /\ q.to = NoValue \/ created[s] <= q.to
        /\ q.status = NoValue \/ status[s] = q.status}

(* Broken forms of definitions below, one plausible bug each; none is used. *)

(* An order without the id: the database may put a tie either way. *)
Before_NoId(s, t) == created[s] > created[t]

(* The order of the list: the newest first, and of two the later row. *)
Before(s, t) ==
    \/ created[s] > created[t]
    \/ created[s] = created[t] /\ s > t

(* The sequences that ORDER BY may give of the rows that were found. *)
Sorted(found) ==
    {f \in [1 .. Cardinality(found) -> found] :
        /\ \A i, j \in DOMAIN f : f[i] = f[j] => i = j
        /\ \A i, j \in DOMAIN f : i < j => ~Before(f[j], f[i])}

(* PageResult: the last page is not full. *)
TotalPages == (total + query.size - 1) \div query.size

HasNext == query.page < TotalPages

-----------------------------------------------------------------------------
(* What becomes of the list being read when session s changes. *)
Record(s) ==
    LET listed == client = "reading" /\ s \in Matching(query)
        stays == client = "reading" /\ s \in Matching(query)'
    IN
    /\ left' = IF listed /\ ~stays THEN left + 1 ELSE left
    /\ torn' = IF ~listed /\ stays /\ items = NoValue /\ total # NoValue
               THEN torn + 1 ELSE torn

(* An interview of the same candidate is created.  created_at is older     *)
(* than the row, so a later row may have the earlier time.                 *)
CreateInterview(at) ==
    /\ Len(created) < MaxSessions
    /\ created' = Append(created, at)
    /\ status' = Append(status, "CREATED")
    /\ UNCHANGED <<reading, expected, seen>>
    /\ Record(Len(created) + 1)

(* A session goes on to another status. *)
Proceed(s, to) ==
    /\ to \notin {"CREATED", status[s]}
    /\ status' = [status EXCEPT ![s] = to]
    /\ UNCHANGED <<created, reading, expected, seen>>
    /\ Record(s)
    /\ left' <= MaxLeft

Inverted(q) == NoValue \notin {q.from, q.to} /\ q.from > q.to

(* GET /interviews: the first page.  An inverted range is refused, instead *)
(* of answered with an empty list.                                         *)
OpenList(q) ==
    /\ client = "elsewhere"
    /\ ~Inverted(q)
    /\ client' = "reading"
    /\ query' = q
    /\ expected' = Matching(q)
    /\ UNCHANGED <<created, status, items, total, seen, left, torn>>

(* findMany: skip and take of the sorted rows. *)
FindRows ==
    /\ client = "reading"
    /\ items = NoValue
    /\ \E f \in Sorted(Matching(query)) :
        items' = {f[i] : i \in {j \in DOMAIN f : j > (query.page - 1) * query.size
                                             /\ j <= query.page * query.size}}
    /\ UNCHANGED <<created, status, client, query, total, expected, seen, left, torn>>

CountRows ==
    /\ client = "reading"
    /\ total = NoValue
    /\ total' = Cardinality(Matching(query))
    /\ torn' = 0
    /\ UNCHANGED <<created, status, client, query, items, expected, seen, left>>

(* Both are there and the client shows the page; then it asks for the next *)
(* one or has come to the end.                                             *)
ShowPage ==
    /\ items # NoValue
    /\ total # NoValue
    /\ seen' = seen \cup items
    /\ \/ HasNext /\ query' = [query EXCEPT !.page = @ + 1] /\ client' = client
       \/ ~HasNext /\ client' = "atEnd" /\ query' = query
    /\ items' = NoValue
    /\ total' = NoValue
    /\ UNCHANGED <<created, status, expected, left, torn>>

(* A query fails, or the candidate goes elsewhere. *)
Leave ==
    /\ client # "elsewhere"
    /\ client' = "elsewhere"
    /\ items' = NoValue
    /\ total' = NoValue
    /\ query' = NoValue
    /\ expected' = {}
    /\ seen' = {}
    /\ left' = 0
    /\ torn' = 0
    /\ UNCHANGED <<created, status>>

Queries ==   \* InterviewHistoryQueryDto
    [from : Times \cup {NoValue}, to : Times \cup {NoValue},
     status : Statuses \cup {NoValue}, size : PageSizes, page : {1}]

(* The list of the interview module: the same two queries, no filters. *)
AllSessions(size) ==
    [from |-> NoValue, to |-> NoValue, status |-> NoValue, size |-> size, page |-> 1]

HistoryNext ==
    \/ \E at \in Times : CreateInterview(at)
    \/ \E s \in Sessions, to \in Statuses : Proceed(s, to)
    \/ \E q \in Queries \cup {AllSessions(n) : n \in PageSizes} : OpenList(q)
    \/ FindRows
    \/ CountRows
    \/ ShowPage
    \/ Leave

HistorySpec == HistoryInit /\ [][HistoryNext]_historyVars

-----------------------------------------------------------------------------
(* Properties *)

(* A client that follows hasNext to the end has been shown every interview *)
(* the list had when it was opened, but for one for each time that an      *)
(* interview left the list meanwhile, and one for each that entered it     *)
(* between the count of the last page and its rows: whatever is created,   *)
(* wherever the pages are cut and whatever created_at they share.          *)
NothingSkipped ==
    client = "atEnd" => Cardinality(expected \ seen) <= left + torn
=============================================================================
