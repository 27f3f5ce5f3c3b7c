----------------------------- MODULE AuditTrail -----------------------------
(***************************************************************************)
(* The audit log, its export to a SIEM and its rotation.                   *)
(*                                                                         *)
(* Everything appends to the log.  SiemExportService keeps the number of   *)
(* events it has exported, and sends what GetAll lists behind so many;     *)
(* during the send the log goes on changing.  AuditRotationService deletes *)
(* events that are too old, a batch at a time.  Neither knows of the other.*)
(*                                                                         *)
(* In memory GetAll is the list itself.  In a database it is a copy of the *)
(* rows in no stated order: a new row may be listed before older ones, in  *)
(* the space of a deleted one or of a page that was not full.  Rows are    *)
(* never updated, and are taken to keep the order they once had.           *)
(***************************************************************************)
EXTENDS Naturals, FiniteSets

CONSTANTS
    BatchSize,          \* AuditRotationOptions.BatchSize
    MaxEvents           \* bound: so many events are ever added

ASSUME BoundAssumption == BatchSize \in Nat \ {0} /\ MaxEvents \in Nat

VARIABLES
    provider,   \* Storage:Provider
    place,      \* where each event, by the order of adding, is stored; 0 if it is not
    added,      \* how many were ever added
    expired,    \* events up to this one are older than the retention
    cursor,     \* _lastExportedIndex
    exporter,   \* the export under way: the events being sent and their list's length
    exported,   \* events that reached the SIEM
    forgone     \* history: how many events were lost on the way, in one of the ways
                \* the steps below name, since the exporter was started

vars == <<provider, place, added, expired, cursor, exporter, exported, forgone>>

-----------------------------------------------------------------------------

Waiting == [sending |-> FALSE, batch |-> {}, count |-> 0]

Events == 1..MaxEvents

\* The events in the store.
log == {e \in Events : place[e] # 0}

\* GetAll lists them by their places; these are the first n of the list.
Before(e) == {f \in log : place[f] < place[e]}
First(n) == {e \in log : Cardinality(Before(e)) < n}

Init ==
    /\ provider \in {"InMemory", "Database"}
    /\ place = [e \in Events |-> 0]
    /\ added = 0
    /\ expired = 0
    /\ cursor = 0
    /\ exporter = Waiting
    /\ exported = {}
    /\ forgone = 0

\* A row put at p pushes one that was among the first n out of them.
PushesOut(p, n) ==
    /\ Cardinality({f \in log : place[f] < p}) < n
    /\ n <= Cardinality(log)

\* The exporter will take the row at p for one of those it has sent.
Overtaken(p) ==
    \/ PushesOut(p, cursor)
    \/ exporter.sending /\ PushesOut(p, exporter.count)

\* IAuditStore.Add.
Add ==
    /\ added < MaxEvents
    /\ added' = added + 1
    /\ \E p \in Events :
           /\ \A e \in log : place[e] # p
           /\ provider = "InMemory" => p = added'
           /\ place' = [place EXCEPT ![added'] = p]
           /\ forgone' = IF Overtaken(p) THEN forgone + 1 ELSE forgone
    /\ UNCHANGED <<provider, expired, cursor, exporter, exported>>

Expire ==
    /\ expired < added
    /\ expired' = expired + 1
    /\ UNCHANGED <<provider, place, added, cursor, exporter, exported, forgone>>

-----------------------------------------------------------------------------
(* SiemExportService.ExportNewEventsAsync *)

StartSending(batch) ==
    /\ ~exporter.sending
    /\ Cardinality(log) > cursor
    /\ exporter' = [sending |-> TRUE, batch |-> batch, count |-> Cardinality(log)]
    /\ UNCHANGED <<provider, place, added, expired, cursor, exported, forgone>>

\* Mutant: the first of the new events is passed over.
BeginExportPastNext == StartSending(log \ First(cursor + 1))

\* Up to the first await.
BeginExport == StartSending(log \ First(cursor))

\* Mutant: the cursor is moved by the number that was counted.
FinishExportAddingUp ==
    /\ exporter.sending
    /\ exported' = exported \cup exporter.batch
    /\ cursor' = cursor + exporter.count
    /\ exporter' = Waiting
    /\ UNCHANGED <<provider, place, added, expired, forgone>>

\* Mutant: the log is counted once more after the send.
FinishExportCountingAgain ==
    /\ exporter.sending
    /\ exported' = exported \cup exporter.batch
    /\ cursor' = Cardinality(log)
    /\ exporter' = Waiting
    /\ UNCHANGED <<provider, place, added, expired, forgone>>

\* The length of allEvents when the send is over: a list in memory has grown
\* with the log.
CountAfterSend == IF provider = "InMemory" THEN Cardinality(log) ELSE exporter.count

\* What it has grown by is passed over.
Overlooked == IF provider = "InMemory" THEN log \ First(exporter.count) ELSE {}

\* The cursor moves on, whatever has arrived.
EndSending(arrived) ==
    /\ exporter.sending
    /\ exported' = exported \cup arrived
    /\ cursor' = CountAfterSend
    /\ exporter' = Waiting
    /\ forgone' = forgone + Cardinality(exporter.batch \ arrived) + Cardinality(Overlooked)
    /\ UNCHANGED <<provider, place, added, expired>>

\* Everything was sent and has arrived.
FinishExport == EndSending(exporter.batch)

\* The webhook answers with an error, or no receiver is configured: that is
\* logged.
RejectExport == EndSending({})

\* Of the datagrams of a syslog export any may get lost without a trace.
LoseDatagrams ==
    \E arrived \in SUBSET exporter.batch : arrived # exporter.batch /\ EndSending(arrived)

\* An exception leaves the cursor where it was.  Some datagrams, or the whole
\* post, may have arrived.
FailExport ==
    /\ exporter.sending
    /\ \E arrived \in SUBSET exporter.batch : exported' = exported \cup arrived
    /\ exporter' = Waiting
    /\ UNCHANGED <<provider, place, added, expired, cursor, forgone>>

\* The cursor is kept in memory, and so may be the log.
Restart ==
    /\ cursor' = 0
    /\ exporter' = Waiting
    /\ forgone' = 0
    /\ place' = IF provider = "InMemory" THEN [e \in Events |-> 0] ELSE place
    /\ UNCHANGED <<provider, added, expired, exported>>

-----------------------------------------------------------------------------
(* AuditRotationService.RotateAsync: a batch, saved on its own *)

\* The oldest of the events that are due, wherever their rows are.
Due == {e \in log : e <= expired}
Batch == {e \in Due : Cardinality({f \in Due : f < e}) < BatchSize}

RotateBatch ==
    /\ provider = "Database"
    /\ Due # {}
    /\ place' = [e \in Events |-> IF e \in Batch THEN 0 ELSE place[e]]
    /\ forgone' = forgone + Cardinality(Batch)
    /\ UNCHANGED <<provider, added, expired, cursor, exporter, exported>>

-----------------------------------------------------------------------------

Next ==
    \/ Add
    \/ Expire
    \/ BeginExport
    \/ FinishExport
    \/ RejectExport
    \/ LoseDatagrams
    \/ FailExport
    \/ Restart
    \/ RotateBatch

\* The export is tried again and again, and does not fail for ever.
Fairness == WF_vars(BeginExport) /\ SF_vars(FinishExport)

Spec == Init /\ [][Next]_vars /\ Fairness

-----------------------------------------------------------------------------

\* Every variable keeps its type; the cursor is never past the longest the log
\* has been, and no two events are stored at one place.
TypeOK ==
    /\ provider \in {"InMemory", "Database"}
    /\ added \in 0..MaxEvents
    /\ place \in [Events -> 0..MaxEvents]
    /\ \A e \in log : e <= added
    /\ \A e, f \in log : place[e] = place[f] => e = f
    /\ expired \in 0..added
    /\ cursor \in 0..added
    /\ exporter \in [sending : BOOLEAN, batch : SUBSET (1..added), count : 0..added]
    /\ exported \subseteq 1..added
    /\ forgone \in Nat

\* Events the exporter takes for exported although they are not.
Skipped == First(cursor) \ exported

\* No event is skipped without a cause: each is set against one that was
\* rotated away or rejected, that a datagram lost, that was added during a send
\* to the list in memory, or whose row the database listed before older ones,
\* since the exporter was started.  However rotation, appends, failed sends and
\* restarts fall between the count and the send, nothing else is lost.
SkippedAtMostForgone == Cardinality(Skipped) <= forgone

\* Every event in the log reaches the SIEM, unless it is deleted first, or
\* something has been forgone since the exporter was last started: failed sends
\* are repeated, and every restart begins again with the first event.
ExportedUnlessForgone ==
    \A e \in Events : e \in log ~> (e \in exported \/ e \notin log \/ [](forgone > 0))
=============================================================================
