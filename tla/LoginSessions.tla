--------------------------- MODULE LoginSessions ---------------------------
(***************************************************************************)
(* What the backend promises of a login, without tokens, rows and locks:   *)
(* it opens a session, whose end is set at that moment and is not moved    *)
(* again; it is one session however often the client refreshes; and a      *)
(* session that was ended, alone or with others, is not resumed.           *)
(***************************************************************************)
EXTENDS Naturals

CONSTANTS Logins, Ttl, None

VARIABLES
    phase,      \* "absent", "open" or "ended"
    deadline,   \* when the session expires, None before it is opened
    clock

vars == <<phase, deadline, clock>>

Init ==
    /\ phase = [s \in Logins |-> "absent"]
    /\ deadline = [s \in Logins |-> None]
    /\ clock = 0

Open(s) ==
    /\ phase[s] = "absent"
    /\ phase' = [phase EXCEPT ![s] = "open"]
    /\ deadline' = [deadline EXCEPT ![s] = clock + Ttl]
    /\ UNCHANGED clock

End(S) ==
    /\ \A s \in S : phase[s] = "open"
    /\ phase' = [s \in Logins |-> IF s \in S THEN "ended" ELSE phase[s]]
    /\ UNCHANGED <<deadline, clock>>

Pass ==
    /\ clock' = clock + 1
    /\ UNCHANGED <<phase, deadline>>

Next ==
    \/ \E s \in Logins : Open(s)
    \/ \E S \in SUBSET Logins : End(S)
    \/ Pass

Spec == Init /\ [][Next]_vars
=============================================================================
