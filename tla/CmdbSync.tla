------------------------------ MODULE CmdbSync ------------------------------
(***************************************************************************)
(* CmdbSyncService: the copy that the API keeps of the systems in the CMDB *)
(* (Jira Insight), by full and by delta cycles, while systems are edited   *)
(* in Jira and targets by hand.                                            *)
(*                                                                         *)
(* A value stands for the attributes of a system that the copy has; names, *)
(* which come with the list, are left out.  Hosts, ports and labels are    *)
(* not in the CMDB and no cycle changes them.                              *)
(***************************************************************************)
EXTENDS Integers

CONSTANTS
    Objects, Values, Absent,
    DeltaSyncEnabled,
    FullSyncEveryNth    \* 0: never

ASSUME CmdbAssumption ==
    /\ Absent \notin Values
    /\ DeltaSyncEnabled \in BOOLEAN
    /\ FullSyncEveryNth \in Nat

VARIABLES
    cmdb,           \* external: systems in the CMDB
    modified,       \* external: systems a query of what changed since _lastSyncedAt returns
    targets,        \* ITargetStore, by Id
    lastSynced,     \* _lastSyncedAt is not null
    syncCounter,    \* _syncCounter, as UseFullSync looks at it
    sync,           \* the cycle: [at, full, left, fetched, pending]
    touched,        \* history: edited since the cycle listed or fetched them
    overtaken       \* history: edited by hand, or while a cycle was under way

vars == <<cmdb, modified, targets, lastSynced, syncCounter, sync, touched, overtaken>>

Waiting == [at |-> "waiting", full |-> FALSE, left |-> {},
            fetched |-> [o \in Objects |-> Absent], pending |-> {}]

Counts == IF FullSyncEveryNth = 0 THEN {0} ELSE 0..(FullSyncEveryNth - 1)

\* The API is started with what the store holds.
Init ==
    /\ cmdb \in [Objects -> Values \cup {Absent}]
    /\ modified = {}
    /\ targets = [o \in Objects |-> Absent]
    /\ lastSynced = FALSE
    /\ syncCounter = 0
    /\ sync = Waiting
    /\ touched = {}
    /\ overtaken = {}

Incremented == IF FullSyncEveryNth = 0 THEN 0 ELSE (syncCounter + 1) % FullSyncEveryNth

\* Mutant: after the first, every cycle is a delta.
FirstOnly(count) == ~ DeltaSyncEnabled \/ ~ lastSynced

UseFullSync(count) ==
    \/ ~ DeltaSyncEnabled
    \/ ~ lastSynced
    \/ FullSyncEveryNth > 0 /\ count = 0

-----------------------------------------------------------------------------
(* SyncAsync *)

\* The cycle is counted whether or not it succeeds.
Start ==
    /\ sync.at \in {"waiting", "failed"}
    /\ syncCounter' = Incremented
    /\ sync' = [Waiting EXCEPT !.at = "asking", !.full = UseFullSync(syncCounter')]
    /\ UNCHANGED <<cmdb, modified, targets, lastSynced, touched, overtaken>>

\* FetchTargetsAsync, or FetchTargetsModifiedSinceAsync: the list of systems.
List ==
    /\ sync.at = "asking"
    /\ sync' = [sync EXCEPT !.at = "fetching",
                            !.left = {o \in Objects : cmdb[o] # Absent /\ (sync.full \/ o \in modified)}]
    /\ touched' = {}
    /\ UNCHANGED <<cmdb, modified, targets, lastSynced, syncCounter, overtaken>>

\* FetchAttributesAsync: one system after the other.
FetchAttributes(o) ==
    /\ sync.at = "fetching" /\ o \in sync.left
    /\ sync' = [sync EXCEPT !.left = @ \ {o}, !.fetched[o] = cmdb[o]]
    /\ touched' = touched \ {o}
    /\ UNCHANGED <<cmdb, modified, targets, lastSynced, syncCounter, overtaken>>

Fetched == {o \in Objects : sync.fetched[o] # Absent}

\* GetAll, once: what is equal now is not written later.
ReadExisting ==
    /\ sync.at = "fetching" /\ sync.left = {}
    /\ sync' = [sync EXCEPT !.at = "writing", !.pending = {o \in Fetched : targets[o] # sync.fetched[o]}]
    /\ UNCHANGED <<cmdb, modified, targets, lastSynced, syncCounter, touched, overtaken>>

\* AddOrUpdate: each row is saved by itself.
AddOrUpdate(o) ==
    /\ sync.at = "writing" /\ o \in sync.pending
    /\ targets' = [targets EXCEPT ![o] = sync.fetched[o]]
    /\ sync' = [sync EXCEPT !.pending = @ \ {o}]
    /\ UNCHANGED <<cmdb, modified, lastSynced, syncCounter, touched, overtaken>>

\* _lastSyncedAt is now, not the time of the list; the next query has it to the
\* minute, so that it may find some of the last edits again.
Finish ==
    /\ sync.at = "writing" /\ sync.pending = {}
    /\ lastSynced' = TRUE
    /\ modified' \in SUBSET modified
    /\ sync' = Waiting
    /\ overtaken' = (overtaken \ Fetched) \cup touched
    /\ touched' = {}
    /\ UNCHANGED <<cmdb, targets, syncCounter>>

\* Mutant: the time of a cycle that failed is remembered too.
FailAndRemember ==
    /\ sync.at \notin {"waiting", "failed"}
    /\ sync' = [Waiting EXCEPT !.at = "failed"]
    /\ modified' = {}
    /\ touched' = {}
    /\ UNCHANGED <<cmdb, targets, lastSynced, syncCounter, overtaken>>

\* A request to Jira or a write throws; what was written stays.
Fail ==
    /\ sync.at \notin {"waiting", "failed"}
    /\ sync' = [Waiting EXCEPT !.at = "failed"]
    /\ touched' = {}
    /\ UNCHANGED <<cmdb, modified, targets, lastSynced, syncCounter, overtaken>>

-----------------------------------------------------------------------------
(* What happens around the service *)

Running == sync.at \in {"fetching", "writing"}

\* A system is edited in Jira, or is new.
Edit(o, v) ==
    /\ cmdb[o] # v
    /\ cmdb' = [cmdb EXCEPT ![o] = v]
    /\ modified' = modified \cup {o}
    /\ touched' = IF Running THEN touched \cup {o} ELSE touched
    /\ UNCHANGED <<targets, lastSynced, syncCounter, sync, overtaken>>

\* TargetsController.Create and Update; CmdbController.Sync, which has fetched
\* the row at some time before.
Put(o, v) ==
    /\ targets[o] # v
    /\ targets' = [targets EXCEPT ![o] = v]
    /\ touched' = IF Running THEN touched \cup {o} ELSE touched
    /\ overtaken' = overtaken \cup {o}
    /\ UNCHANGED <<cmdb, modified, lastSynced, syncCounter, sync>>

\* The API is started again: the store has what was saved.
Restart ==
    /\ lastSynced' = FALSE
    /\ syncCounter' = 0
    /\ sync' = Waiting
    /\ touched' = {}
    /\ UNCHANGED <<cmdb, modified, targets, overtaken>>

Cycle == Start \/ List \/ ReadExisting \/ Finish \/ \E o \in Objects : FetchAttributes(o) \/ AddOrUpdate(o)

Disturbance == Fail \/ Restart \/ \E o \in Objects, v \in Values : Edit(o, v) \/ Put(o, v)

Next == Cycle \/ Disturbance

Spec == Init /\ [][Next]_vars

\* The service goes on with its cycles.
FairSpec == Spec /\ WF_vars(Cycle)

-----------------------------------------------------------------------------

\* Every variable keeps its type.
TypeOK ==
    /\ cmdb \in [Objects -> Values \cup {Absent}] /\ targets \in [Objects -> Values \cup {Absent}]
    /\ modified \subseteq Objects /\ touched \subseteq Objects /\ overtaken \subseteq Objects
    /\ lastSynced \in BOOLEAN
    /\ syncCounter \in Counts
    /\ sync \in [at : {"waiting", "asking", "fetching", "writing", "failed"}, full : BOOLEAN, left : SUBSET Objects,
                 fetched : [Objects -> Values \cup {Absent}], pending : SUBSET Objects]

\* Cycles that fail anywhere, restarts and rows half written lose no edit: once
\* a cycle has succeeded, a target that is not what the CMDB says is found by the
\* next delta, or was edited by hand or between the steps of an earlier cycle.
NothingForgotten ==
    lastSynced => \A o \in Objects : cmdb[o] # Absent /\ targets[o] # cmdb[o] => o \in modified \cup overtaken

\* A full cycle that succeeds leaves no target that is not what the CMDB says but
\* those touched since it fetched them.
FullCycleCopiesAll ==
    [][sync.full /\ Finish =>
           \A o \in Objects : cmdb[o] # Absent /\ targets[o] # cmdb[o] => o \in touched]_vars

\* When edits, failures and restarts end, the copy comes to be what the CMDB
\* says and stays so, edits that were overtaken included: a full cycle is due
\* after every few deltas, whichever cycles failed.
CopyConverges ==
    <>[][~ Disturbance]_vars => <>[](\A o \in Objects : cmdb[o] # Absent => targets[o] = cmdb[o])
=============================================================================
