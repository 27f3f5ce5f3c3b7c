--------------------------- MODULE CmdbSyncProofs ---------------------------
(***************************************************************************)
(* Theorems of CmdbSync, for any systems in the CMDB, with delta cycles or *)
(* without and with a full cycle as often as one likes.                    *)
(***************************************************************************)
EXTENDS CmdbSync, TLAPS

Rows == [Objects -> Values \cup {Absent}]
SyncType == [at : {"waiting", "asking", "fetching", "writing", "failed"}, full : BOOLEAN, left : SUBSET Objects,
             fetched : Rows, pending : SUBSET Objects]

\* NothingForgotten, of one system.
NextDeltaFinds(o) ==
    lastSynced /\ cmdb[o] # Absent /\ targets[o] # cmdb[o] => o \in modified \cup overtaken

\* No delta cycle before the first that succeeds.
FirstIsFull == sync.at \notin {"waiting", "failed"} /\ ~ sync.full => lastSynced

\* What was fetched is what the CMDB says, or else the system was edited since.
FetchedIsCurrent(o) ==
    Running /\ sync.fetched[o] # Absent /\ sync.fetched[o] # cmdb[o] => o \in modified \cap touched

NothingFetchedYet(o) == sync.at = "asking" => sync.fetched[o] = Absent

\* The cycle has every system it is to bring, or will fetch it, or the system was
\* edited since the list.
ListIsComplete(o) ==
    Running /\ cmdb[o] # Absent /\ (sync.full \/ o \in modified) =>
        o \in sync.left \cup touched \/ sync.fetched[o] # Absent

\* The rows that need not be written, or not any more, are as they were fetched.
WrittenIsFetched(o) ==
    sync.at = "writing" =>
        /\ sync.left = {}
        /\ o \in sync.pending => sync.fetched[o] # Absent
        /\ sync.fetched[o] # Absent /\ o \notin sync.pending \cup touched => targets[o] = sync.fetched[o]

Good(o) ==
    NextDeltaFinds(o) /\ NothingFetchedYet(o) /\ FetchedIsCurrent(o) /\ ListIsComplete(o) /\ WrittenIsFetched(o)

SyncInv == TypeOK /\ FirstIsFull /\ \A o \in Objects : Good(o)
-----------------------------------------------------------------------------

LEMMA NobodyIsFetchedYet ==
    /\ Waiting \in SyncType
    /\ \A o \in Objects : Waiting.fetched[o] = Absent
  BY DEF Waiting, SyncType, Rows

LEMMA ZeroCounts == 0 \in Counts
  BY CmdbAssumption DEF Counts

LEMMA CountsCount ==
    ASSUME TypeOK
    PROVE  Incremented \in Counts
  <1>1. CASE FullSyncEveryNth = 0
    BY <1>1 DEF Incremented, Counts
  <1>2. CASE FullSyncEveryNth # 0
    <2>1. syncCounter + 1 \in Nat /\ FullSyncEveryNth \in Nat \ {0}
      BY <1>2, CmdbAssumption DEF TypeOK, Counts
    <2>2. \A m \in Nat, n \in Nat \ {0} : m % n \in 0..(n - 1)
      OBVIOUS
    <2> QED
      BY <1>2, <2>1, <2>2 DEF Incremented, Counts
  <1> QED
    BY <1>1, <1>2

LEMMA InitSync == Init => SyncInv
  <1> SUFFICES ASSUME Init PROVE SyncInv
    OBVIOUS
  <1>1. TypeOK
    BY NobodyIsFetchedYet, ZeroCounts DEF Init, TypeOK, SyncType, Rows
  <1>2. lastSynced = FALSE /\ sync.at = "waiting"
    BY DEF Init, Waiting
  <1>3. FirstIsFull /\ \A o \in Objects : Good(o)
    BY <1>2 DEF FirstIsFull, Good, NextDeltaFinds, NothingFetchedYet, FetchedIsCurrent, ListIsComplete,
                WrittenIsFetched, Running
  <1> QED
    BY <1>1, <1>3 DEF SyncInv

\* A cycle that is started, or ends without success, has nothing of its own.
LEMMA WaitingKeepsSync ==
    ASSUME SyncInv, Start \/ Fail \/ Restart
    PROVE  SyncInv'
  <1>1. UNCHANGED <<cmdb, modified, targets, overtaken>> /\ (lastSynced' = lastSynced \/ lastSynced' = FALSE)
    BY DEF Start, Fail, Restart
  <1>2. /\ sync' \in SyncType /\ sync'.at \in {"waiting", "asking", "failed"}
        /\ sync'.at = "asking" /\ ~ sync'.full => lastSynced'
        /\ \A o \in Objects : sync'.fetched[o] = Absent
    <2>1. CASE Start
      <3>1. PICK full : full = UseFullSync(syncCounter')
        OBVIOUS
      <3>2. full \in BOOLEAN /\ (~ full => lastSynced')
        BY <2>1, <3>1 DEF Start, UseFullSync
      <3>3. sync' = [Waiting EXCEPT !.at = "asking", !.full = full]
        BY <2>1, <3>1 DEF Start
      <3> QED
        BY <3>2, <3>3, NobodyIsFetchedYet DEF SyncType, Waiting
    <2>2. CASE Fail
      <3>1. sync' = [Waiting EXCEPT !.at = "failed"]
        BY <2>2 DEF Fail
      <3> QED
        BY <3>1, NobodyIsFetchedYet DEF SyncType, Waiting
    <2>3. CASE Restart
      BY <2>3, NobodyIsFetchedYet DEF Restart, Waiting
    <2> QED
      BY <2>1, <2>2, <2>3
  <1>3. syncCounter' \in Counts /\ touched' \subseteq Objects
    BY CountsCount, ZeroCounts DEF Start, Fail, Restart, SyncInv, TypeOK
  <1>4. TypeOK'
    BY <1>1, <1>2, <1>3 DEF SyncInv, TypeOK, SyncType, Rows
  <1>5. FirstIsFull'
    BY <1>2 DEF FirstIsFull
  <1>6. ASSUME NEW o \in Objects PROVE Good(o)'
    <2>1. NextDeltaFinds(o)'
      BY <1>1 DEF SyncInv, Good, NextDeltaFinds
    <2> QED
      BY <1>2, <2>1 DEF Good, NothingFetchedYet, FetchedIsCurrent, ListIsComplete, WrittenIsFetched, Running
  <1> QED
    BY <1>4, <1>5, <1>6 DEF SyncInv

LEMMA ListKeepsSync ==
    ASSUME SyncInv, List
    PROVE  SyncInv'
  <1>1. PICK full, fetched, pending : full = sync.full /\ fetched = sync.fetched /\ pending = sync.pending
    OBVIOUS
  <1>2. PICK left : left = {o \in Objects : cmdb[o] # Absent /\ (full \/ o \in modified)}
    OBVIOUS
  <1>3. full \in BOOLEAN /\ fetched \in Rows /\ pending \subseteq Objects /\ sync.at = "asking"
    BY <1>1 DEF List, SyncInv, TypeOK, Rows
  <1>4. sync' = [at |-> "fetching", full |-> full, left |-> left, fetched |-> fetched, pending |-> pending]
    BY <1>1, <1>2 DEF List, SyncInv, TypeOK
  <1>5. touched' = {} /\ UNCHANGED <<cmdb, modified, targets, lastSynced, syncCounter, overtaken>>
    BY DEF List
  <1>6. TypeOK'
    BY <1>2, <1>3, <1>4, <1>5 DEF SyncInv, TypeOK, Rows
  <1>7. FirstIsFull'
    BY <1>1, <1>3, <1>4, <1>5 DEF SyncInv, FirstIsFull
  <1>8. ASSUME NEW o \in Objects PROVE Good(o)'
    <2>1. NextDeltaFinds(o)'
      BY <1>5 DEF SyncInv, Good, NextDeltaFinds
    <2>2. fetched[o] = Absent
      BY <1>1, <1>3 DEF SyncInv, Good, NothingFetchedYet
    <2> QED
      BY <1>2, <1>4, <1>5, <2>1, <2>2
         DEF Good, NothingFetchedYet, FetchedIsCurrent, ListIsComplete, WrittenIsFetched, Running
  <1> QED
    BY <1>6, <1>7, <1>8 DEF SyncInv

LEMMA FetchKeepsSync ==
    ASSUME SyncInv, NEW x \in Objects, FetchAttributes(x)
    PROVE  SyncInv'
  <1>1. PICK full, left, fetched, pending :
            full = sync.full /\ left = sync.left /\ fetched = sync.fetched /\ pending = sync.pending
    OBVIOUS
  <1>2. /\ full \in BOOLEAN /\ left \subseteq Objects /\ fetched \in Rows /\ pending \subseteq Objects
        /\ sync.at = "fetching" /\ cmdb \in Rows /\ modified \subseteq Objects /\ touched \subseteq Objects
    BY <1>1 DEF FetchAttributes, SyncInv, TypeOK, Rows
  <1>3. PICK now : now = [fetched EXCEPT ![x] = cmdb[x]]
    OBVIOUS
  <1>4. now \in Rows /\ \A o \in Objects : now[o] = IF o = x THEN cmdb[x] ELSE fetched[o]
    BY <1>2, <1>3 DEF Rows
  <1>5. sync' = [at |-> "fetching", full |-> full, left |-> left \ {x}, fetched |-> now, pending |-> pending]
    BY <1>1, <1>3 DEF FetchAttributes, SyncInv, TypeOK
  <1>6. touched' = touched \ {x} /\ UNCHANGED <<cmdb, modified, targets, lastSynced, syncCounter, overtaken>>
    BY DEF FetchAttributes
  <1>7. TypeOK'
    BY <1>2, <1>4, <1>5, <1>6 DEF SyncInv, TypeOK, Rows
  <1>8. FirstIsFull'
    BY <1>1, <1>2, <1>5, <1>6 DEF SyncInv, FirstIsFull
  <1>9. ASSUME NEW o \in Objects PROVE Good(o)'
    <2>1. NextDeltaFinds(o)'
      BY <1>6 DEF SyncInv, Good, NextDeltaFinds
    <2>2. fetched[o] # Absent /\ fetched[o] # cmdb[o] => o \in modified \cap touched
      BY <1>1, <1>2 DEF SyncInv, Good, FetchedIsCurrent, Running
    <2>3. cmdb[o] # Absent /\ (full \/ o \in modified) => o \in left \cup touched \/ fetched[o] # Absent
      BY <1>1, <1>2 DEF SyncInv, Good, ListIsComplete, Running
    <2> QED
      BY <1>4, <1>5, <1>6, <2>1, <2>2, <2>3
         DEF Good, NothingFetchedYet, FetchedIsCurrent, ListIsComplete, WrittenIsFetched, Running
  <1> QED
    BY <1>7, <1>8, <1>9 DEF SyncInv

LEMMA ReadExistingKeepsSync ==
    ASSUME SyncInv, ReadExisting
    PROVE  SyncInv'
  <1>1. PICK full, left, fetched : full = sync.full /\ left = sync.left /\ fetched = sync.fetched
    OBVIOUS
  <1>2. full \in BOOLEAN /\ left = {} /\ fetched \in Rows /\ sync.at = "fetching"
    BY <1>1 DEF ReadExisting, SyncInv, TypeOK, Rows
  <1>3. PICK pending : pending = {o \in Objects : fetched[o] # Absent /\ targets[o] # fetched[o]}
    OBVIOUS
  <1>4. sync' = [at |-> "writing", full |-> full, left |-> left, fetched |-> fetched, pending |-> pending]
    <2>1. {o \in Fetched : targets[o] # sync.fetched[o]} = pending
      BY <1>1, <1>3 DEF Fetched
    <2> QED
      BY <1>1, <2>1 DEF ReadExisting, SyncInv, TypeOK
  <1>5. UNCHANGED <<cmdb, modified, targets, lastSynced, syncCounter, touched, overtaken>>
    BY DEF ReadExisting
  <1>6. TypeOK'
    BY <1>2, <1>3, <1>4, <1>5 DEF SyncInv, TypeOK, Rows
  <1>7. FirstIsFull'
    BY <1>1, <1>2, <1>4, <1>5 DEF SyncInv, FirstIsFull
  <1>8. ASSUME NEW o \in Objects PROVE Good(o)'
    <2>1. NextDeltaFinds(o)'
      BY <1>5 DEF SyncInv, Good, NextDeltaFinds
    <2>2. fetched[o] # Absent /\ fetched[o] # cmdb[o] => o \in modified \cap touched
      BY <1>1, <1>2 DEF SyncInv, Good, FetchedIsCurrent, Running
    <2>3. cmdb[o] # Absent /\ (full \/ o \in modified) => o \in left \cup touched \/ fetched[o] # Absent
      BY <1>1, <1>2 DEF SyncInv, Good, ListIsComplete, Running
    <2> QED
      BY <1>2, <1>3, <1>4, <1>5, <2>1, <2>2, <2>3
         DEF Good, NothingFetchedYet, FetchedIsCurrent, ListIsComplete, WrittenIsFetched, Running
  <1> QED
    BY <1>6, <1>7, <1>8 DEF SyncInv

\* While rows are written, what was fetched is still what the CMDB says, or the
\* system has been edited and the next delta finds it.
LEMMA WriteKeepsSync ==
    ASSUME SyncInv, NEW x \in Objects, AddOrUpdate(x)
    PROVE  SyncInv'
  <1>1. PICK full, left, fetched, pending :
            full = sync.full /\ left = sync.left /\ fetched = sync.fetched /\ pending = sync.pending
    OBVIOUS
  <1>2. /\ full \in BOOLEAN /\ left = {} /\ fetched \in Rows /\ pending \subseteq Objects
        /\ sync.at = "writing" /\ targets \in Rows
    BY <1>1 DEF AddOrUpdate, SyncInv, TypeOK, Rows, Good, WrittenIsFetched
  <1>3. sync' = [at |-> "writing", full |-> full, left |-> left, fetched |-> fetched, pending |-> pending \ {x}]
    BY <1>1, <1>2 DEF AddOrUpdate, SyncInv, TypeOK
  <1>4. targets' = [targets EXCEPT ![x] = fetched[x]]
    BY <1>1 DEF AddOrUpdate
  <1>5. targets' \in Rows /\ \A o \in Objects : targets'[o] = IF o = x THEN fetched[x] ELSE targets[o]
    BY <1>2, <1>4 DEF Rows
  <1>6. UNCHANGED <<cmdb, modified, lastSynced, syncCounter, touched, overtaken>>
    BY DEF AddOrUpdate
  <1>7. TypeOK'
    BY <1>2, <1>3, <1>5, <1>6 DEF SyncInv, TypeOK, Rows
  <1>8. FirstIsFull'
    BY <1>1, <1>2, <1>3, <1>6 DEF SyncInv, FirstIsFull
  <1>9. ASSUME NEW o \in Objects PROVE Good(o)'
    <2>1. lastSynced /\ cmdb[o] # Absent /\ targets[o] # cmdb[o] => o \in modified \cup overtaken
      BY DEF SyncInv, Good, NextDeltaFinds
    <2>2. fetched[o] # Absent /\ fetched[o] # cmdb[o] => o \in modified \cap touched
      BY <1>1, <1>2 DEF SyncInv, Good, FetchedIsCurrent, Running
    <2>3. cmdb[o] # Absent /\ (full \/ o \in modified) => o \in left \cup touched \/ fetched[o] # Absent
      BY <1>1, <1>2 DEF SyncInv, Good, ListIsComplete, Running
    <2>4. /\ fetched[o] # Absent /\ o \notin pending \cup touched => targets[o] = fetched[o]
          /\ o \in pending => fetched[o] # Absent
      BY <1>1, <1>2 DEF SyncInv, Good, WrittenIsFetched
    <2>5. x \in pending
      BY <1>1 DEF AddOrUpdate
    <2> QED
      BY <1>2, <1>3, <1>5, <1>6, <2>1, <2>2, <2>3, <2>4, <2>5
         DEF Good, NextDeltaFinds, NothingFetchedYet, FetchedIsCurrent, ListIsComplete, WrittenIsFetched, Running
  <1> QED
    BY <1>7, <1>8, <1>9 DEF SyncInv

\* What a cycle that succeeds has not brought was not to be brought, or was
\* touched since it was fetched.
LEMMA FinishedCycleCopies ==
    ASSUME SyncInv, Finish, NEW o \in Objects, cmdb[o] # Absent, targets[o] # cmdb[o], o \notin touched
    PROVE  ~ sync.full /\ o \notin modified /\ o \notin Fetched
  <1>1. sync.at = "writing" /\ sync.pending = {} /\ sync.left = {}
    BY DEF Finish, SyncInv, Good, WrittenIsFetched
  <1>2. sync.fetched[o] = Absent
    BY <1>1 DEF SyncInv, Good, WrittenIsFetched, FetchedIsCurrent, Running
  <1> QED
    BY <1>1, <1>2 DEF SyncInv, Good, ListIsComplete, Running, Fetched

LEMMA FinishKeepsSync ==
    ASSUME SyncInv, Finish
    PROVE  SyncInv'
  <1>1. /\ lastSynced' = TRUE /\ modified' \in SUBSET modified /\ touched' = {}
        /\ overtaken' = (overtaken \ Fetched) \cup touched
        /\ UNCHANGED <<cmdb, targets, syncCounter>>
    BY DEF Finish
  <1>2. sync' \in SyncType /\ sync'.at = "waiting"
    <2>1. sync' = Waiting
      BY DEF Finish
    <2> QED
      BY <2>1, NobodyIsFetchedYet DEF Waiting
  <1>3. TypeOK'
    BY <1>1, <1>2 DEF SyncInv, TypeOK, SyncType, Rows
  <1>4. FirstIsFull'
    BY <1>2 DEF FirstIsFull
  <1>5. ASSUME NEW o \in Objects PROVE Good(o)'
    <2>1. ASSUME cmdb[o] # Absent, targets[o] # cmdb[o], o \notin touched PROVE o \in overtaken \ Fetched
      <3>1. ~ sync.full /\ o \notin modified /\ o \notin Fetched
        BY <2>1, FinishedCycleCopies
      <3>2. lastSynced
        BY <3>1 DEF SyncInv, FirstIsFull, Finish
      <3> QED
        BY <2>1, <3>1, <3>2 DEF SyncInv, Good, NextDeltaFinds
    <2>2. NextDeltaFinds(o)'
      BY <1>1, <2>1 DEF NextDeltaFinds
    <2> QED
      BY <1>2, <2>2 DEF Good, NothingFetchedYet, FetchedIsCurrent, ListIsComplete, WrittenIsFetched, Running
  <1> QED
    BY <1>3, <1>4, <1>5 DEF SyncInv

LEMMA EditKeepsSync ==
    ASSUME SyncInv, NEW x \in Objects, NEW v \in Values, Edit(x, v)
    PROVE  SyncInv'
  <1>1. /\ cmdb' = [cmdb EXCEPT ![x] = v] /\ modified' = modified \cup {x}
        /\ touched' = IF Running THEN touched \cup {x} ELSE touched
        /\ UNCHANGED <<targets, lastSynced, syncCounter, sync, overtaken>>
    BY DEF Edit
  <1>2. cmdb' \in Rows /\ \A o \in Objects : cmdb'[o] = IF o = x THEN v ELSE cmdb[o]
    BY <1>1 DEF SyncInv, TypeOK, Rows
  <1>3. TypeOK'
    BY <1>1, <1>2 DEF SyncInv, TypeOK, Rows
  <1>4. FirstIsFull'
    BY <1>1 DEF SyncInv, FirstIsFull
  <1>5. ASSUME NEW o \in Objects PROVE Good(o)'
    <2>1. NextDeltaFinds(o)' /\ NothingFetchedYet(o)' /\ WrittenIsFetched(o)'
      BY <1>1, <1>2 DEF SyncInv, Good, NextDeltaFinds, NothingFetchedYet, WrittenIsFetched, Running
    <2>2. FetchedIsCurrent(o)' /\ ListIsComplete(o)'
      BY <1>1, <1>2 DEF SyncInv, Good, FetchedIsCurrent, ListIsComplete, Running
    <2> QED
      BY <2>1, <2>2 DEF Good
  <1> QED
    BY <1>3, <1>4, <1>5 DEF SyncInv

LEMMA PutKeepsSync ==
    ASSUME SyncInv, NEW x \in Objects, NEW v \in Values, Put(x, v)
    PROVE  SyncInv'
  <1>1. /\ targets' = [targets EXCEPT ![x] = v] /\ overtaken' = overtaken \cup {x}
        /\ touched' = IF Running THEN touched \cup {x} ELSE touched
        /\ UNCHANGED <<cmdb, modified, lastSynced, syncCounter, sync>>
    BY DEF Put
  <1>2. targets' \in Rows /\ \A o \in Objects : targets'[o] = IF o = x THEN v ELSE targets[o]
    BY <1>1 DEF SyncInv, TypeOK, Rows
  <1>3. TypeOK'
    BY <1>1, <1>2 DEF SyncInv, TypeOK, Rows
  <1>4. FirstIsFull'
    BY <1>1 DEF SyncInv, FirstIsFull
  <1>5. ASSUME NEW o \in Objects PROVE Good(o)'
    <2>1. NextDeltaFinds(o)' /\ NothingFetchedYet(o)' /\ WrittenIsFetched(o)'
      BY <1>1, <1>2 DEF SyncInv, Good, NextDeltaFinds, NothingFetchedYet, WrittenIsFetched, Running
    <2>2. FetchedIsCurrent(o)' /\ ListIsComplete(o)'
      BY <1>1, <1>2 DEF SyncInv, Good, FetchedIsCurrent, ListIsComplete, Running
    <2> QED
      BY <2>1, <2>2 DEF Good
  <1> QED
    BY <1>3, <1>4, <1>5 DEF SyncInv

LEMMA StepsKeepSync == SyncInv /\ [Next]_vars => SyncInv'
  <1> SUFFICES ASSUME SyncInv, [Next]_vars PROVE SyncInv'
    OBVIOUS
  <1>1. CASE Start \/ Fail \/ Restart
    BY <1>1, WaitingKeepsSync
  <1>2. CASE List
    BY <1>2, ListKeepsSync
  <1>3. CASE ReadExisting
    BY <1>3, ReadExistingKeepsSync
  <1>4. CASE Finish
    BY <1>4, FinishKeepsSync
  <1>5. ASSUME NEW x \in Objects, FetchAttributes(x) PROVE SyncInv'
    BY <1>5, FetchKeepsSync
  <1>6. ASSUME NEW x \in Objects, AddOrUpdate(x) PROVE SyncInv'
    BY <1>6, WriteKeepsSync
  <1>7. ASSUME NEW x \in Objects, NEW v \in Values, Edit(x, v) PROVE SyncInv'
    BY <1>7, EditKeepsSync
  <1>8. ASSUME NEW x \in Objects, NEW v \in Values, Put(x, v) PROVE SyncInv'
    BY <1>8, PutKeepsSync
  <1>9. CASE UNCHANGED vars
    <2>1. TypeOK' /\ FirstIsFull'
      BY <1>9 DEF SyncInv, TypeOK, FirstIsFull, vars
    <2>2. ASSUME NEW o \in Objects PROVE Good(o)'
      BY <1>9 DEF SyncInv, Good, NextDeltaFinds, NothingFetchedYet, FetchedIsCurrent, ListIsComplete,
                  WrittenIsFetched, Running, vars
    <2> QED
      BY <2>1, <2>2 DEF SyncInv
  <1> QED
    BY <1>1, <1>2, <1>3, <1>4, <1>5, <1>6, <1>7, <1>8, <1>9 DEF Next, Cycle, Disturbance

LEMMA SyncInvariant == Spec => []SyncInv
  BY InitSync, StepsKeepSync, PTL DEF Spec

-----------------------------------------------------------------------------

\* The rows, the cycle and its histories keep their types.
THEOREM SyncTypeCorrect == Spec => []TypeOK
  <1>1. SyncInv => TypeOK
    BY DEF SyncInv
  <1> QED
    BY <1>1, SyncInvariant, PTL

\* Once a cycle (SyncAsync) has succeeded, a target that differs from the CMDB is
\* found by the next delta, or was edited by hand or during an earlier cycle, though
\* cycles fail anywhere and the API restarts: for any systems, with deltas or
\* without, and however often a full cycle is due.
THEOREM NoEditIsForgotten == Spec => []NothingForgotten
  <1>1. SyncInv => NothingForgotten
    BY DEF SyncInv, Good, NextDeltaFinds, NothingForgotten
  <1> QED
    BY <1>1, SyncInvariant, PTL

\* A full cycle that succeeds leaves no target that differs from the CMDB but
\* those edited since it fetched them, whatever came between its steps.
THEOREM FullCyclesCopyAll == Spec => FullCycleCopiesAll
  <1>1. ASSUME SyncInv, sync.full /\ Finish, NEW o \in Objects, cmdb[o] # Absent, targets[o] # cmdb[o]
        PROVE  o \in touched
    BY <1>1, FinishedCycleCopies
  <1>2. SyncInv /\ [Next]_vars =>
            [sync.full /\ Finish =>
                \A o \in Objects : cmdb[o] # Absent /\ targets[o] # cmdb[o] => o \in touched]_vars
    BY <1>1
  <1> QED
    BY <1>2, SyncInvariant, PTL DEF Spec, FullCycleCopiesAll
=============================================================================
