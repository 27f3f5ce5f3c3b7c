------------------------------ MODULE JitAccess ------------------------------
(***************************************************************************)
(* What PAM Gateway promises about just-in-time access, with no store, no  *)
(* handler and no worker: a request is granted by a decision, it lapses    *)
(* when its time is over, a session is admitted only under a request that  *)
(* is granted and has not lapsed, and a session that was closed is never   *)
(* opened again.  AccessLifecycle is shown to implement this module.       *)
(***************************************************************************)

CONSTANTS Requests, Sessions, NoRequest

VARIABLES
    granted,    \* requests that some decision has approved
    lapsed,     \* requests whose time is over
    access,     \* what has become of each session
    holder      \* the request each session was admitted under

vars == <<granted, lapsed, access, holder>>

Init ==
    /\ granted = {}
    /\ lapsed = {}
    /\ access = [s \in Sessions |-> "none"]
    /\ holder = [s \in Sessions |-> NoRequest]

Grant(r) ==
    /\ granted' = granted \cup {r}
    /\ UNCHANGED <<lapsed, access, holder>>

\* One tick of the clock may end several requests at once, or none.
Lapse ==
    /\ lapsed' \in SUBSET Requests /\ lapsed \subseteq lapsed'
    /\ UNCHANGED <<granted, access, holder>>

Admit(s, r) ==
    /\ access[s] = "none"
    /\ r \in granted \ lapsed
    /\ access' = [access EXCEPT ![s] = "admitted"]
    /\ holder' = [holder EXCEPT ![s] = r]
    /\ UNCHANGED <<granted, lapsed>>

Open(s) ==
    /\ access[s] = "admitted"
    /\ access' = [access EXCEPT ![s] = "open"]
    /\ UNCHANGED <<granted, lapsed, holder>>

Close(s) ==
    /\ access[s] = "open"
    /\ access' = [access EXCEPT ![s] = "closed"]
    /\ UNCHANGED <<granted, lapsed, holder>>

Next ==
    \/ Lapse
    \/ \E r \in Requests : Grant(r)
    \/ \E s \in Sessions, r \in Requests : Admit(s, r)
    \/ \E s \in Sessions : Open(s) \/ Close(s)

Spec == Init /\ [][Next]_vars

-----------------------------------------------------------------------------

(***************************************************************************)
(* No session outlives its request for ever: hld.md 5.2 step 4, revocation *)
(* when the TTL is over.                                                   *)
(***************************************************************************)
LapsedAccessCloses ==
    \A s \in Sessions :
        (access[s] = "open" /\ holder[s] \in lapsed) ~> (access[s] = "closed")
=============================================================================
