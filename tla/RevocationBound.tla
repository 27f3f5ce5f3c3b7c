--------------------------- MODULE RevocationBound ---------------------------
(***************************************************************************)
(* How late a revocation can be.  AccessLifecycle with an observer that    *)
(* counts, for each session, the ends of worker cycles it has seen: late   *)
(* counts them while the session was active and its request Denied or      *)
(* Expired without a break, overtime while it was active, the time of its  *)
(* request over and no decision or webhook wrote that request.  They count *)
(* no further than 2.  The observer reads the system and never constrains  *)
(* it.                                                                     *)
(***************************************************************************)
EXTENDS AccessLifecycle

VARIABLES late, overtime

Overdue(s) == sess[s] = "Active" /\ Dead(sessReq[s])

Outlived(s) == sess[s] = "Active" /\ Due(sessReq[s])

Rewritten(r) == \E c \in Calls : WriteDecision(c) /\ call[c].req = r

Another(n) == IF EndCycle /\ n < 2 THEN n + 1 ELSE n

Observe ==
    /\ late' = [s \in Sessions |-> IF Overdue(s) /\ Overdue(s)' THEN Another(late[s]) ELSE 0]
    /\ overtime' = [s \in Sessions |->
            IF Outlived(s) /\ Outlived(s)' /\ ~ Rewritten(sessReq[s]) THEN Another(overtime[s]) ELSE 0]

observedVars == <<vars, late, overtime>>

ObservedInit ==
    /\ Init
    /\ late = [s \in Sessions |-> 0] /\ overtime = [s \in Sessions |-> 0]

ObservedSpec == ObservedInit /\ [][Next /\ Observe]_observedVars /\ Fairness

\* A session whose request dies, or whose time is over, while a cycle is at work
\* may live through the end of that cycle, and never through the end of the next:
\* with a cycle a minute, access ends within two of them even if its request was
\* overwritten, or its session started, behind the worker's snapshots.  Of time
\* that is over this holds as long as no decision or webhook writes the request,
\* which may reopen it.
RevokedByNextCycle == \A s \in Sessions : late[s] <= 1 /\ overtime[s] <= 1
=============================================================================
