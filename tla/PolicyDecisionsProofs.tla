----------------------- MODULE PolicyDecisionsProofs -----------------------
(***************************************************************************)
(* Theorems of PolicyDecisions, for any number of calls, any policies and  *)
(* any life of an entry.                                                   *)
(***************************************************************************)
EXTENDS PolicyDecisions, FiniteSetTheorems, WellFoundedInduction, TLAPS

CallType == [at : {"idle", "missed", "read", "decided"}, store : Stores, age : 0..FillTime]
CacheType == [store : Stores, ttl : 0..CacheDuration, age : 0..Window]

\* What an entry says is as old as the query was when it was put there, and as
\* the entry has lived since.
EntryIsRecent ==
    cache.ttl > 0 =>
        /\ cache.age + cache.ttl <= FillTime + CacheDuration
        /\ cache.store \in recent[cache.age]

ReadIsRecent(c) == call[c].at = "read" => call[c].store \in recent[call[c].age]

PolicyInv ==
    /\ TypeOK
    /\ EntryIsRecent
    /\ \A c \in Calls : ReadIsRecent(c)
    /\ policies \in recent[0]

-----------------------------------------------------------------------------

LEMMA WindowIsLongEnough ==
    /\ Window \in Nat
    /\ FillTime \in 0..Window /\ 0 \in 0..Window
    /\ 0..FillTime \subseteq 0..Window
  BY PolicyAssumption DEF Window

LEMMA NoPolicyIsAStore == [id \in Ids |-> Absent] \in Stores
  BY DEF Stores

LEMMA InitPolicies == Init => PolicyInv
  <1> SUFFICES ASSUME Init PROVE PolicyInv
    OBVIOUS
  <1>1. Seeded \in Stores
    BY PolicyAssumption
  <1>2. NoEntry \in CacheType /\ Idle \in CallType
    BY NoPolicyIsAStore, WindowIsLongEnough, PolicyAssumption DEF NoEntry, Idle, CacheType, CallType
  <1>3. recent \in [0..Window -> SUBSET Stores] /\ policies \in recent[0]
    BY <1>1, WindowIsLongEnough DEF Init
  <1>4. TypeOK
    BY <1>1, <1>2, <1>3 DEF Init, TypeOK, CacheType, CallType
  <1>5. EntryIsRecent
    BY DEF Init, EntryIsRecent, NoEntry
  <1>6. \A c \in Calls : ReadIsRecent(c)
    BY DEF Init, ReadIsRecent, Idle
  <1> QED
    BY <1>3, <1>4, <1>5, <1>6 DEF PolicyInv

\* One call goes on, and neither time nor the administrator does.
LEMMA CallsKeepPolicies ==
    ASSUME PolicyInv, NEW c \in Calls, NEW r \in CallType,
           call' = [call EXCEPT ![c] = r], UNCHANGED <<policies, recent>>,
           r.at = "read" => r.store \in recent[r.age],
           cache' \in CacheType, EntryIsRecent'
    PROVE  PolicyInv'
  <1>1. call' \in [Calls -> CallType] /\ \A d \in Calls : call'[d] = IF d = c THEN r ELSE call[d]
    BY DEF PolicyInv, TypeOK, CallType
  <1>2. TypeOK'
    BY <1>1 DEF PolicyInv, TypeOK, CallType, CacheType
  <1>3. ASSUME NEW d \in Calls PROVE ReadIsRecent(d)'
    <2>1. CASE d = c
      BY <1>1, <2>1 DEF ReadIsRecent
    <2>2. CASE d # c
      BY <1>1, <2>2 DEF PolicyInv, ReadIsRecent
    <2> QED
      BY <2>1, <2>2
  <1> QED
    BY <1>2, <1>3 DEF PolicyInv

LEMMA EntryStays ==
    ASSUME PolicyInv, UNCHANGED <<cache, recent>>
    PROVE  cache' \in CacheType /\ EntryIsRecent'
  BY DEF PolicyInv, TypeOK, CacheType, EntryIsRecent

LEMMA LookupKeepsPolicies ==
    ASSUME PolicyInv, NEW c \in Calls, Lookup(c)
    PROVE  PolicyInv'
  <1>1. cache' \in CacheType /\ EntryIsRecent'
    BY EntryStays DEF Lookup
  <1>2. CASE cache.ttl > 0
    <2>1. Decided(cache.store) \in CallType /\ Decided(cache.store).at # "read"
      BY PolicyAssumption DEF PolicyInv, TypeOK, Decided, CallType
    <2>2. call' = [call EXCEPT ![c] = Decided(cache.store)] /\ UNCHANGED <<policies, recent>>
      BY <1>2 DEF Lookup
    <2> QED
      BY <1>1, <2>1, <2>2, CallsKeepPolicies
  <1>3. CASE ~ (cache.ttl > 0)
    <2>1. PICK r : r = [call[c] EXCEPT !.at = "missed"]
      OBVIOUS
    <2>2. r \in CallType /\ r.at # "read"
      BY <2>1 DEF PolicyInv, TypeOK, CallType
    <2>3. call' = [call EXCEPT ![c] = r] /\ UNCHANGED <<policies, recent>>
      BY <1>3, <2>1 DEF Lookup
    <2> QED
      BY <1>1, <2>2, <2>3, CallsKeepPolicies
  <1> QED
    BY <1>2, <1>3

LEMMA GetAllKeepsPolicies ==
    ASSUME PolicyInv, NEW c \in Calls, GetAll(c) \/ GetAllFails(c)
    PROVE  PolicyInv'
  <1>1. cache' \in CacheType /\ EntryIsRecent'
    BY EntryStays DEF GetAll, GetAllFails
  <1>2. CASE GetAll(c)
    <2>1. PICK r : r = [at |-> "read", store |-> policies, age |-> 0]
      OBVIOUS
    <2>2. r \in CallType /\ r.store \in recent[r.age]
      BY <2>1, PolicyAssumption DEF PolicyInv, TypeOK, CallType
    <2>3. call' = [call EXCEPT ![c] = r] /\ UNCHANGED <<policies, recent>>
      BY <1>2, <2>1 DEF GetAll
    <2> QED
      BY <1>1, <2>2, <2>3, CallsKeepPolicies
  <1>3. CASE GetAllFails(c)
    <2>1. Idle \in CallType /\ Idle.at # "read"
      BY NoPolicyIsAStore, PolicyAssumption DEF Idle, CallType
    <2> QED
      BY <1>1, <1>3, <2>1, CallsKeepPolicies DEF GetAllFails
  <1> QED
    BY <1>2, <1>3

LEMMA FillKeepsPolicies ==
    ASSUME PolicyInv, NEW c \in Calls, Fill(c)
    PROVE  PolicyInv'
  <1>1. call[c] \in CallType /\ call[c].at = "read" /\ call[c].store \in recent[call[c].age]
    BY DEF PolicyInv, TypeOK, CallType, ReadIsRecent, Fill
  <1>2. PICK store, age : store = call[c].store /\ age = call[c].age
    OBVIOUS
  <1>3. store \in Stores /\ age \in 0..FillTime /\ age \in 0..Window
    BY <1>1, <1>2, WindowIsLongEnough DEF CallType
  <1>4. cache' = [store |-> store, ttl |-> CacheDuration, age |-> age]
    BY <1>2 DEF Fill, Entry
  <1>5. cache' \in CacheType
    BY <1>3, <1>4, PolicyAssumption DEF CacheType
  <1>6. EntryIsRecent'
    <2>1. age + CacheDuration <= FillTime + CacheDuration
      BY <1>3, PolicyAssumption
    <2>2. recent' = recent
      BY DEF Fill
    <2> QED
      BY <1>1, <1>2, <1>4, <2>1, <2>2 DEF EntryIsRecent
  <1>7. Decided(store) \in CallType /\ Decided(store).at # "read"
    BY <1>3, PolicyAssumption DEF Decided, CallType
  <1>8. call' = [call EXCEPT ![c] = Decided(store)] /\ UNCHANGED <<policies, recent>>
    BY <1>2 DEF Fill
  <1> QED
    BY <1>5, <1>6, <1>7, <1>8, CallsKeepPolicies

LEMMA AnswerKeepsPolicies ==
    ASSUME PolicyInv, NEW c \in Calls, Answer(c)
    PROVE  PolicyInv'
  <1>1. Idle \in CallType /\ Idle.at # "read"
    BY NoPolicyIsAStore, PolicyAssumption DEF Idle, CallType
  <1>2. cache' \in CacheType /\ EntryIsRecent'
    BY EntryStays DEF Answer
  <1> QED
    BY <1>1, <1>2, CallsKeepPolicies DEF Answer

LEMMA WriteKeepsPolicies ==
    ASSUME PolicyInv, NEW w \in Writes, Write(w[1], w[2])
    PROVE  PolicyInv'
  <1>1. w[1] \in Ids /\ w[2] \in Policies
    BY PolicyAssumption DEF Policies
  <1>2. policies' = [policies EXCEPT ![w[1]] = w[2]] /\ UNCHANGED <<cache, call>>
    BY DEF Write
  <1>3. policies' \in Stores
    BY <1>1, <1>2 DEF PolicyInv, TypeOK, Stores
  <1>4. recent' = [recent EXCEPT ![0] = recent[0] \cup {policies'}]
    BY DEF Write
  <1>5. /\ recent' \in [0..Window -> SUBSET Stores]
        /\ policies' \in recent'[0]
        /\ \A i \in 0..Window : recent[i] \subseteq recent'[i]
    BY <1>3, <1>4, WindowIsLongEnough DEF PolicyInv, TypeOK
  <1>6. TypeOK'
    BY <1>2, <1>3, <1>5 DEF PolicyInv, TypeOK
  <1>7. EntryIsRecent'
    <2>1. cache.age \in 0..Window
      BY DEF PolicyInv, TypeOK
    <2> QED
      BY <1>2, <1>5, <2>1 DEF PolicyInv, EntryIsRecent
  <1>8. ASSUME NEW c \in Calls PROVE ReadIsRecent(c)'
    <2>1. call[c].age \in 0..Window
      BY WindowIsLongEnough DEF PolicyInv, TypeOK
    <2> QED
      BY <1>2, <1>5, <2>1 DEF PolicyInv, ReadIsRecent
  <1> QED
    BY <1>5, <1>6, <1>7, <1>8 DEF PolicyInv

LEMMA TickKeepsPolicies ==
    ASSUME PolicyInv, Tick
    PROVE  PolicyInv'
  <1>1. /\ policies' = policies
        /\ recent' = [i \in 0..Window |-> IF i = 0 THEN {policies} ELSE recent[i - 1]]
    BY DEF Tick
  <1>2. recent \in [0..Window -> SUBSET Stores] /\ policies \in Stores
    BY DEF PolicyInv, TypeOK
  <1>3. \A i \in 0..Window : i # 0 => i - 1 \in 0..Window
    BY WindowIsLongEnough
  <1>4. recent' \in [0..Window -> SUBSET Stores] /\ policies' \in recent'[0]
    BY <1>1, <1>2, <1>3, WindowIsLongEnough
  <1>5. ASSUME NEW i \in 0..Window, i + 1 \in 0..Window PROVE recent'[i + 1] = recent[i]
    <2>1. i + 1 # 0 /\ (i + 1) - 1 = i
      BY WindowIsLongEnough
    <2> QED
      BY <1>1, <1>5, <2>1
  <1>6. cache' \in CacheType /\ EntryIsRecent'
    <2>1. CASE cache.ttl > 1
      <3>1. PICK store, ttl, age : store = cache.store /\ ttl = cache.ttl /\ age = cache.age
        OBVIOUS
      <3>2. store \in Stores /\ ttl \in 0..CacheDuration /\ age \in 0..Window /\ ttl > 1
        BY <2>1, <3>1 DEF PolicyInv, TypeOK
      <3>3. age + ttl <= FillTime + CacheDuration /\ store \in recent[age]
        BY <2>1, <3>1, <3>2, PolicyAssumption DEF PolicyInv, EntryIsRecent
      <3>4. /\ ttl - 1 \in 0..CacheDuration /\ age + 1 \in 0..Window
            /\ (age + 1) + (ttl - 1) <= FillTime + CacheDuration
        BY <3>2, <3>3, PolicyAssumption DEF Window
      <3>5. cache' = [store |-> store, ttl |-> ttl - 1, age |-> age + 1]
        BY <2>1, <3>1 DEF Tick, PolicyInv, TypeOK
      <3>6. cache' \in CacheType
        BY <3>2, <3>4, <3>5 DEF CacheType
      <3>7. store \in recent'[age + 1]
        BY <1>5, <3>2, <3>3, <3>4
      <3> QED
        BY <3>4, <3>5, <3>6, <3>7 DEF EntryIsRecent
    <2>2. CASE ~ (cache.ttl > 1)
      <3>1. cache' = NoEntry
        BY <2>2 DEF Tick
      <3> QED
        BY <3>1, NoPolicyIsAStore, WindowIsLongEnough, PolicyAssumption DEF NoEntry, CacheType, EntryIsRecent
    <2> QED
      BY <2>1, <2>2
  <1>7. ASSUME NEW c \in Calls PROVE call'[c] \in CallType /\ ReadIsRecent(c)'
    <2>1. call[c] \in CallType
      BY DEF PolicyInv, TypeOK, CallType
    <2>2. CASE call[c].at = "read"
      <3>1. PICK store, age : store = call[c].store /\ age = call[c].age
        OBVIOUS
      <3>2. store \in recent[age] /\ store \in Stores /\ age \in 0..FillTime /\ age < FillTime
        BY <2>1, <2>2, <3>1 DEF PolicyInv, ReadIsRecent, CallType, Tick
      <3>3. age + 1 \in 0..FillTime /\ age \in 0..Window /\ age + 1 \in 0..Window
        BY <3>2, WindowIsLongEnough, PolicyAssumption
      <3>4. call'[c] = [at |-> "read", store |-> store, age |-> age + 1]
        BY <2>1, <2>2, <3>1 DEF Tick, CallType
      <3>5. store \in recent'[age + 1]
        BY <1>5, <3>2, <3>3
      <3> QED
        BY <3>2, <3>3, <3>4, <3>5 DEF CallType, ReadIsRecent
    <2>3. CASE call[c].at # "read"
      BY <2>1, <2>3 DEF Tick, ReadIsRecent
    <2> QED
      BY <2>2, <2>3
  <1>8. call' \in [Calls -> CallType]
    BY <1>7 DEF Tick
  <1>9. TypeOK'
    BY <1>1, <1>2, <1>4, <1>6, <1>8 DEF TypeOK, CallType, CacheType
  <1> QED
    BY <1>4, <1>6, <1>7, <1>9 DEF PolicyInv

LEMMA RestartKeepsPolicies ==
    ASSUME PolicyInv, Restart
    PROVE  PolicyInv'
  <1>1. NoEntry \in CacheType /\ Idle \in CallType
    BY NoPolicyIsAStore, WindowIsLongEnough, PolicyAssumption DEF NoEntry, Idle, CacheType, CallType
  <1>2. TypeOK'
    BY <1>1 DEF PolicyInv, TypeOK, Restart, CacheType, CallType
  <1>3. EntryIsRecent' /\ \A c \in Calls : ReadIsRecent(c)'
    BY DEF Restart, EntryIsRecent, ReadIsRecent, NoEntry, Idle
  <1> QED
    BY <1>2, <1>3 DEF PolicyInv, Restart

LEMMA StepsKeepPolicies == PolicyInv /\ [Next]_vars => PolicyInv'
  <1> SUFFICES ASSUME PolicyInv, [Next]_vars PROVE PolicyInv'
    OBVIOUS
  <1>1. CASE Tick
    BY <1>1, TickKeepsPolicies
  <1>2. CASE Restart
    BY <1>2, RestartKeepsPolicies
  <1>3. ASSUME NEW c \in Calls, Lookup(c) PROVE PolicyInv'
    BY <1>3, LookupKeepsPolicies
  <1>4. ASSUME NEW c \in Calls, GetAll(c) \/ GetAllFails(c) PROVE PolicyInv'
    BY <1>4, GetAllKeepsPolicies
  <1>5. ASSUME NEW c \in Calls, Fill(c) PROVE PolicyInv'
    BY <1>5, FillKeepsPolicies
  <1>6. ASSUME NEW c \in Calls, Answer(c) PROVE PolicyInv'
    BY <1>6, AnswerKeepsPolicies
  <1>7. ASSUME NEW w \in Writes, Write(w[1], w[2]) PROVE PolicyInv'
    BY <1>7, WriteKeepsPolicies
  <1>8. CASE UNCHANGED vars
    BY <1>8 DEF PolicyInv, TypeOK, EntryIsRecent, ReadIsRecent, vars
  <1> QED
    BY <1>1, <1>2, <1>3, <1>4, <1>5, <1>6, <1>7, <1>8 DEF Next

LEMMA PolicyInvariant == Spec => []PolicyInv
  BY InitPolicies, StepsKeepPolicies, PTL DEF Spec

\* A call decides by the entry or by what it has read itself.
LEMMA StepsDecideByRecent ==
    ASSUME PolicyInv, [Next]_vars, NEW c \in Calls,
           call[c].at # "decided", call'[c].at = "decided"
    PROVE  \E i \in 0..Window : call'[c].store \in recent[i]
  <1>1. call \in [Calls -> CallType]
    BY DEF PolicyInv, TypeOK, CallType
  <1>2. ASSUME NEW d \in Calls, Lookup(d) PROVE \E i \in 0..Window : call'[c].store \in recent[i]
    <2>1. d = c /\ cache.ttl > 0 /\ call'[c].store = cache.store
      BY <1>1, <1>2 DEF Lookup, Decided, CallType
    <2>2. cache.age \in 0..Window /\ cache.store \in recent[cache.age]
      BY <2>1 DEF PolicyInv, TypeOK, EntryIsRecent
    <2> QED
      BY <2>1, <2>2
  <1>3. ASSUME NEW d \in Calls, Fill(d) PROVE \E i \in 0..Window : call'[c].store \in recent[i]
    <2>1. d = c /\ call[c].at = "read" /\ call'[c].store = call[c].store
      BY <1>1, <1>3 DEF Fill, Decided, CallType
    <2>2. call[c].age \in 0..Window /\ call[c].store \in recent[call[c].age]
      BY <1>1, <2>1, WindowIsLongEnough DEF PolicyInv, ReadIsRecent, CallType
    <2> QED
      BY <2>1, <2>2
  <1>4. ASSUME NEW d \in Calls, GetAll(d) \/ GetAllFails(d) \/ Answer(d) PROVE FALSE
    BY <1>1, <1>4 DEF GetAll, GetAllFails, Answer, Idle
  <1>5. ASSUME NEW w \in Writes, Write(w[1], w[2]) PROVE FALSE
    BY <1>5 DEF Write
  <1>6. CASE Tick
    BY <1>1, <1>6 DEF Tick, CallType
  <1>7. CASE Restart
    BY <1>7 DEF Restart, Idle
  <1>8. CASE UNCHANGED vars
    BY <1>8 DEF vars
  <1> QED
    BY <1>2, <1>3, <1>4, <1>5, <1>6, <1>7, <1>8 DEF Next

-----------------------------------------------------------------------------
(* What roles a user has in effect.  The evaluator walks up from each role  *)
(* the user holds and stops at a role it has met; it is shown that this     *)
(* collects the least set of roles that is closed under parents.            *)

Closed(above) == \A r \in above \cap DOMAIN RoleHierarchy : RoleHierarchy[r] \in above

\* The least closed set that has the roles of s.
Closure(s) == {r \in Roles : \A above \in SUBSET Roles : s \subseteq above /\ Closed(above) => r \in above}

\* Every finite descent through sets of roles ends: a non-empty set of sets of
\* roles has a member that has no proper subset among the others.
LEMMA SmallestSetOfRoles ==
    ASSUME NEW T, T \subseteq SUBSET Roles, T # {}
    PROVE  \E s \in T : \A t \in T : t \subseteq s => t = s
  <1>1. IsWellFoundedOn(StrictSubsetOrdering(Roles), SUBSET Roles)
    <2>1. FiniteSubsetsOf(Roles) = SUBSET Roles
      BY PolicyAssumption, FS_FiniteSubsetsOfFinite
    <2> QED
      BY <2>1, FS_StrictSubsetOrderingWellFounded
  <1>2. PICK s \in T : \A t \in T : ~ (<<t, s>> \in StrictSubsetOrdering(Roles))
    BY <1>1, WFMin
  <1> QED
    BY <1>2 DEF StrictSubsetOrdering

\* What it means to be the function that AddInheritedRoles names.
WalksUp(f) == f = [a \in Roles \X SUBSET Roles |->
    IF a[1] \in DOMAIN RoleHierarchy /\ RoleHierarchy[a[1]] \notin a[2]
    THEN f[<<RoleHierarchy[a[1]], a[2] \cup {RoleHierarchy[a[1]]}>>]
    ELSE a[2]]

\* A set that has every role the walk still meets when it is at role and has collected.
HasAllMet(met, role, collected) ==
    \A r \in (met \cup {role}) \cap DOMAIN RoleHierarchy :
        RoleHierarchy[r] \notin collected => RoleHierarchy[r] \in met

Met(role, collected) == {r \in Roles : \A met \in SUBSET Roles : HasAllMet(met, role, collected) => r \in met}

\* The recursion of AddInheritedRoles has a solution, though the hierarchy may
\* go in circles.
LEMMA WalkExists == \E f : WalksUp(f)
  <1> DEFINE f == [a \in Roles \X SUBSET Roles |-> a[2] \cup Met(a[1], a[2])]
  <1>1. ASSUME NEW role \in Roles, NEW collected \in SUBSET Roles,
               ~ (role \in DOMAIN RoleHierarchy /\ RoleHierarchy[role] \notin collected)
        PROVE  Met(role, collected) = {}
    <2>1. HasAllMet({}, role, collected)
      BY <1>1 DEF HasAllMet
    <2> QED
      BY <2>1 DEF Met
  <1>2. ASSUME NEW role \in Roles, NEW collected \in SUBSET Roles,
               role \in DOMAIN RoleHierarchy, RoleHierarchy[role] \notin collected,
               NEW p, p = RoleHierarchy[role]
        PROVE  collected \cup Met(role, collected) = (collected \cup {p}) \cup Met(p, collected \cup {p})
    <2>1. p \in Roles
      BY <1>2, PolicyAssumption
    <2>2. ASSUME NEW met \in SUBSET Roles, HasAllMet(met, role, collected)
          PROVE  p \in met /\ HasAllMet(met, p, collected \cup {p})
      <3>1. p \in met
        BY <1>2, <2>2 DEF HasAllMet
      <3> QED
        BY <2>2, <3>1 DEF HasAllMet
    <2>3. ASSUME NEW met \in SUBSET Roles, HasAllMet(met, p, collected \cup {p})
          PROVE  HasAllMet(met \cup {p}, role, collected)
      BY <1>2, <2>3 DEF HasAllMet
    <2>4. p \in Met(role, collected) /\ Met(p, collected \cup {p}) \subseteq Met(role, collected)
      BY <2>1, <2>2 DEF Met
    <2>5. Met(role, collected) \subseteq Met(p, collected \cup {p}) \cup {p}
      <3> SUFFICES ASSUME NEW r \in Met(role, collected), r # p PROVE r \in Met(p, collected \cup {p})
        OBVIOUS
      <3>1. ASSUME NEW met \in SUBSET Roles, HasAllMet(met, p, collected \cup {p}) PROVE r \in met
        <4>1. met \cup {p} \in SUBSET Roles /\ HasAllMet(met \cup {p}, role, collected)
          BY <2>1, <2>3, <3>1
        <4>2. r \in met \cup {p}
          BY <4>1 DEF Met
        <4> QED
          BY <4>2
      <3>2. r \in Roles
        BY DEF Met
      <3> QED
        BY <3>1, <3>2 DEF Met
    <2> QED
      BY <2>4, <2>5
  <1>3. ASSUME NEW a \in Roles \X SUBSET Roles
        PROVE  f[a] = IF a[1] \in DOMAIN RoleHierarchy /\ RoleHierarchy[a[1]] \notin a[2]
                      THEN f[<<RoleHierarchy[a[1]], a[2] \cup {RoleHierarchy[a[1]]}>>]
                      ELSE a[2]
    <2>1. PICK role \in Roles, collected \in SUBSET Roles : a = <<role, collected>>
      OBVIOUS
    <2>2. f[a] = collected \cup Met(role, collected)
      BY <2>1
    <2>3. CASE role \in DOMAIN RoleHierarchy /\ RoleHierarchy[role] \notin collected
      <3>1. PICK p : p = RoleHierarchy[role]
        OBVIOUS
      <3>2. p \in Roles /\ <<p, collected \cup {p}>> \in Roles \X SUBSET Roles
        BY <2>3, <3>1, PolicyAssumption
      <3>3. f[<<p, collected \cup {p}>>] = (collected \cup {p}) \cup Met(p, collected \cup {p})
        BY <3>2
      <3> HIDE DEF f
      <3>4. f[a] = f[<<p, collected \cup {p}>>]
        <4>1. collected \cup Met(role, collected) = (collected \cup {p}) \cup Met(p, collected \cup {p})
          BY <1>2, <2>3, <3>1
        <4> QED
          BY <2>2, <3>3, <4>1
      <3>5. a[1] = role /\ a[2] = collected
        BY <2>1
      <3> QED
        BY <2>3, <3>1, <3>4, <3>5
    <2>4. CASE ~ (role \in DOMAIN RoleHierarchy /\ RoleHierarchy[role] \notin collected)
      <3>1. f[a] = collected
        BY <1>1, <2>2, <2>4
      <3> QED
        BY <2>1, <2>4, <3>1
    <2> QED
      BY <2>3, <2>4
  <1>4. WalksUp(f)
    <2> DEFINE g == [a \in Roles \X SUBSET Roles |->
                        IF a[1] \in DOMAIN RoleHierarchy /\ RoleHierarchy[a[1]] \notin a[2]
                        THEN f[<<RoleHierarchy[a[1]], a[2] \cup {RoleHierarchy[a[1]]}>>]
                        ELSE a[2]]
    <2>1. DOMAIN f = Roles \X SUBSET Roles /\ DOMAIN g = Roles \X SUBSET Roles
      OBVIOUS
    <2>2. \A a \in Roles \X SUBSET Roles : f[a] = g[a]
      BY <1>3
    <2> HIDE DEF f
    <2>3. f = g
      BY <2>2, Zenon DEF f
    <2> QED
      BY <2>3 DEF WalksUp
  <1> QED
    BY <1>4

LEMMA WalkUnfolds ==
    ASSUME NEW role \in Roles, NEW collected \in SUBSET Roles
    PROVE  AddInheritedRoles[<<role, collected>>] =
               IF role \in DOMAIN RoleHierarchy /\ RoleHierarchy[role] \notin collected
               THEN AddInheritedRoles[<<RoleHierarchy[role], collected \cup {RoleHierarchy[role]}>>]
               ELSE collected
  <1>1. AddInheritedRoles = CHOOSE f : WalksUp(f)
    BY Zenon DEF AddInheritedRoles, WalksUp
  <1>2. WalksUp(AddInheritedRoles)
    BY <1>1, WalkExists, Zenon
  <1>3. PICK a : a = <<role, collected>>
    OBVIOUS
  <1>4. a \in Roles \X SUBSET Roles /\ a[1] = role /\ a[2] = collected
    BY <1>3
  <1>5. AddInheritedRoles[a] =
            IF a[1] \in DOMAIN RoleHierarchy /\ RoleHierarchy[a[1]] \notin a[2]
            THEN AddInheritedRoles[<<RoleHierarchy[a[1]], a[2] \cup {RoleHierarchy[a[1]]}>>]
            ELSE a[2]
    BY <1>2, <1>4 DEF WalksUp
  <1> QED
    BY <1>3, <1>4, <1>5

\* A walk that starts where only the parent of role may be missing collects the
\* least closed set.
WalkCloses(role, collected) ==
    LET all == AddInheritedRoles[<<role, collected>>] IN
    /\ all \in SUBSET Roles
    /\ collected \subseteq all
    /\ Closed(all)
    /\ \A above \in SUBSET Roles : collected \subseteq above /\ Closed(above) => all \subseteq above

OnlyParentMissing(role, collected) ==
    /\ role \in collected
    /\ \A r \in (collected \ {role}) \cap DOMAIN RoleHierarchy : RoleHierarchy[r] \in collected

\* The roles not collected become fewer with every step of the walk.
LEMMA WalkIsClosure ==
    \A role \in Roles, collected \in SUBSET Roles :
        OnlyParentMissing(role, collected) => WalkCloses(role, collected)
  <1> DEFINE Fails == {left \in SUBSET Roles : \E role \in Roles :
                           OnlyParentMissing(role, Roles \ left) /\ ~ WalkCloses(role, Roles \ left)}
  <1>1. ASSUME Fails # {} PROVE FALSE
    <2>1. PICK left \in Fails : \A l \in Fails : l \subseteq left => l = left
      <3>1. Fails \subseteq SUBSET Roles
        OBVIOUS
      <3> HIDE DEF Fails
      <3> QED
        BY <1>1, <3>1, SmallestSetOfRoles
    <2>2. PICK collected : collected = Roles \ left
      OBVIOUS
    <2>3. PICK role \in Roles : OnlyParentMissing(role, collected) /\ ~ WalkCloses(role, collected)
      BY <2>1, <2>2
    <2>4. collected \in SUBSET Roles /\ role \in collected
      BY <2>2, <2>3 DEF OnlyParentMissing
    <2>5. CASE role \in DOMAIN RoleHierarchy /\ RoleHierarchy[role] \notin collected
      <3>1. PICK p : p = RoleHierarchy[role]
        OBVIOUS
      <3>2. PICK more : more = collected \cup {p}
        OBVIOUS
      <3>3. p \in Roles /\ p \notin collected /\ more \in SUBSET Roles
        BY <2>4, <2>5, <3>1, <3>2, PolicyAssumption
      <3>4. AddInheritedRoles[<<role, collected>>] = AddInheritedRoles[<<p, more>>]
        BY <2>4, <2>5, <3>1, <3>2, WalkUnfolds
      <3>5. OnlyParentMissing(p, more)
        BY <2>3, <3>1, <3>2 DEF OnlyParentMissing
      <3>6. WalkCloses(p, more)
        <4>1. PICK l : l = Roles \ more
          OBVIOUS
        <4>2. l \in SUBSET Roles /\ l \subseteq left /\ l # left /\ Roles \ l = more
          BY <2>1, <2>2, <3>2, <3>3, <4>1
        <4>3. l \notin Fails
          BY <2>1, <4>2
        <4> QED
          BY <3>3, <3>5, <4>2, <4>3
      <3>7. ASSUME NEW above \in SUBSET Roles, collected \subseteq above, Closed(above)
            PROVE  more \subseteq above
        BY <2>4, <2>5, <3>1, <3>2, <3>7 DEF Closed
      <3>8. WalkCloses(role, collected)
        BY <3>2, <3>4, <3>6, <3>7 DEF WalkCloses
      <3> QED
        BY <2>3, <3>8
    <2>6. CASE ~ (role \in DOMAIN RoleHierarchy /\ RoleHierarchy[role] \notin collected)
      <3>1. AddInheritedRoles[<<role, collected>>] = collected
        BY <2>4, <2>6, WalkUnfolds
      <3>2. Closed(collected)
        BY <2>3, <2>6 DEF OnlyParentMissing, Closed
      <3>3. WalkCloses(role, collected)
        BY <2>4, <3>1, <3>2 DEF WalkCloses
      <3> QED
        BY <2>3, <3>3
    <2> QED
      BY <2>5, <2>6
  <1> SUFFICES ASSUME NEW role \in Roles, NEW collected \in SUBSET Roles, OnlyParentMissing(role, collected)
               PROVE  WalkCloses(role, collected)
    OBVIOUS
  <1>2. PICK left : left = Roles \ collected
    OBVIOUS
  <1>3. left \in SUBSET Roles /\ Roles \ left = collected
    BY <1>2
  <1>4. left \notin Fails
    BY <1>1
  <1> QED
    BY <1>3, <1>4

LEMMA ClosureIsLeast ==
    ASSUME NEW s \in SUBSET Roles
    PROVE  /\ Closure(s) \in SUBSET Roles
           /\ s \subseteq Closure(s)
           /\ Closed(Closure(s))
           /\ \A above \in SUBSET Roles : s \subseteq above /\ Closed(above) => Closure(s) \subseteq above
  <1>1. Closed(Closure(s))
    <2> SUFFICES ASSUME NEW r \in Closure(s), r \in DOMAIN RoleHierarchy
                 PROVE  RoleHierarchy[r] \in Closure(s)
      BY DEF Closed
    <2>1. RoleHierarchy[r] \in Roles
      BY PolicyAssumption
    <2>2. ASSUME NEW above \in SUBSET Roles, s \subseteq above, Closed(above)
          PROVE  RoleHierarchy[r] \in above
      BY <2>2 DEF Closure, Closed
    <2> QED
      BY <2>1, <2>2 DEF Closure
  <1> QED
    BY <1>1 DEF Closure

\* One role more, and the walk up from it.
LEMMA WalkExtendsClosure ==
    ASSUME NEW s \in SUBSET Roles, NEW x \in s
    PROVE  AddInheritedRoles[<<x, Closure(s \ {x}) \cup {x}>>] = Closure(s)
  <1>1. PICK below : below = Closure(s \ {x})
    OBVIOUS
  <1>2. PICK collected : collected = below \cup {x}
    OBVIOUS
  <1>3. /\ below \in SUBSET Roles /\ s \ {x} \subseteq below /\ Closed(below)
        /\ \A above \in SUBSET Roles : s \ {x} \subseteq above /\ Closed(above) => below \subseteq above
    BY <1>1, ClosureIsLeast
  <1>4. x \in Roles /\ collected \in SUBSET Roles /\ s \subseteq collected
    BY <1>2, <1>3
  <1>5. OnlyParentMissing(x, collected)
    BY <1>2, <1>3 DEF OnlyParentMissing, Closed
  <1>6. WalkCloses(x, collected)
    BY <1>4, <1>5, WalkIsClosure
  <1>7. PICK all : all = AddInheritedRoles[<<x, collected>>]
    OBVIOUS
  <1>8. /\ all \in SUBSET Roles /\ collected \subseteq all /\ Closed(all)
        /\ \A above \in SUBSET Roles : collected \subseteq above /\ Closed(above) => all \subseteq above
    BY <1>6, <1>7 DEF WalkCloses
  <1>9. Closure(s) \subseteq all
    BY <1>4, <1>8, ClosureIsLeast
  <1>10. all \subseteq Closure(s)
    <2>1. collected \subseteq Closure(s)
      BY <1>2, <1>3, ClosureIsLeast
    <2> QED
      BY <1>8, <2>1, ClosureIsLeast
  <1> QED
    BY <1>1, <1>2, <1>7, <1>9, <1>10

\* What it means to be the function that FoldSet walks the roles held with.
FoldsRoles(f, roles) == f = [s \in SUBSET roles |->
    IF s = {} THEN {}
    ELSE AddInheritedRoles[<<CHOOSE x \in s : TRUE, f[s \ {CHOOSE x \in s : TRUE}] \cup {CHOOSE x \in s : TRUE}>>]]

LEMMA FoldExists ==
    ASSUME NEW roles \in SUBSET Roles
    PROVE  \E f : FoldsRoles(f, roles)
  <1> DEFINE f == [s \in SUBSET roles |-> Closure(s)]
             x(s) == CHOOSE y \in s : TRUE
             g == [s \in SUBSET roles |->
                       IF s = {} THEN {} ELSE AddInheritedRoles[<<x(s), f[s \ {x(s)}] \cup {x(s)}>>]]
  <1>1. ASSUME NEW s \in SUBSET roles PROVE f[s] = g[s]
    <2>1. CASE s = {}
      <3>1. Closed({})
        BY DEF Closed
      <3>2. Closure({}) = {}
        BY <3>1 DEF Closure
      <3> QED
        BY <2>1, <3>2
    <2>2. CASE s # {}
      <3>1. x(s) \in s /\ s \ {x(s)} \in SUBSET roles /\ s \in SUBSET Roles
        BY <2>2
      <3> HIDE DEF x
      <3>2. f[s \ {x(s)}] = Closure(s \ {x(s)})
        BY <3>1
      <3>3. g[s] = AddInheritedRoles[<<x(s), Closure(s \ {x(s)}) \cup {x(s)}>>]
        BY <2>2, <3>2
      <3> QED
        BY <3>1, <3>3, WalkExtendsClosure
    <2> QED
      BY <2>1, <2>2
  <1>2. f = g
    <2>1. DOMAIN f = SUBSET roles /\ DOMAIN g = SUBSET roles
      OBVIOUS
    <2> QED
      BY <1>1, Zenon
  <1> QED
    BY <1>2, Zenon DEF FoldsRoles

\* Whatever the order of the fold, it collects the closure of the roles held.
LEMMA FoldIsClosure ==
    ASSUME NEW held, held \cap KnownRoles \in SUBSET Roles
    PROVE  EffectiveRoles(held) = Closure(held \cap KnownRoles)
  <1>1. PICK roles : roles = held \cap KnownRoles
    OBVIOUS
  <1> DEFINE iter == CHOOSE f : FoldsRoles(f, roles)
             Fails == {s \in SUBSET roles : iter[s] # Closure(s)}
  <1>2. EffectiveRoles(held) = iter[roles]
    BY <1>1, Zenon DEF EffectiveRoles, FoldSet, MapThenFoldSet, FoldsRoles
  <1>3. FoldsRoles(iter, roles)
    BY <1>1, FoldExists, Zenon
  <1> HIDE DEF iter
  <1>4. ASSUME NEW s \in SUBSET roles
        PROVE  iter[s] = IF s = {} THEN {}
                         ELSE AddInheritedRoles[<<CHOOSE x \in s : TRUE,
                                  iter[s \ {CHOOSE x \in s : TRUE}] \cup {CHOOSE x \in s : TRUE}>>]
    BY <1>3, Zenon DEF FoldsRoles
  <1>5. ASSUME Fails # {} PROVE FALSE
    <2>1. Fails \subseteq SUBSET Roles
      BY <1>1
    <2>2. PICK s \in Fails : \A t \in Fails : t \subseteq s => t = s
      <3> HIDE DEF Fails
      <3> QED
        BY <1>5, <2>1, SmallestSetOfRoles
    <2>3. s \in SUBSET roles /\ s \in SUBSET Roles /\ iter[s] # Closure(s)
      BY <2>1, <2>2
    <2>4. CASE s = {}
      <3>1. Closed({})
        BY DEF Closed
      <3>2. Closure({}) = {}
        BY <3>1 DEF Closure
      <3> QED
        BY <1>4, <2>3, <2>4, <3>2
    <2>5. CASE s # {}
      <3>1. PICK x : x = CHOOSE y \in s : TRUE
        OBVIOUS
      <3>2. x \in s
        BY <2>5, <3>1
      <3>3. iter[s] = AddInheritedRoles[<<x, iter[s \ {x}] \cup {x}>>]
        BY <1>4, <2>3, <2>5, <3>1
      <3>4. iter[s \ {x}] = Closure(s \ {x})
        BY <2>2, <2>3, <3>2
      <3>5. iter[s] = Closure(s)
        BY <2>3, <3>2, <3>3, <3>4, WalkExtendsClosure
      <3> QED
        BY <2>3, <3>5
    <2> QED
      BY <2>4, <2>5
  <1>6. iter[roles] = Closure(roles)
    BY <1>5
  <1> QED
    BY <1>1, <1>2, <1>6

\* The roles that bring policies are those a user has and those above them.
LEMMA EffectiveRolesWithPolicies ==
    ASSUME NEW held \in Users
    PROVE  EffectiveRoles(held) \cap DOMAIN RolePolicyIds = Inherited[held] \cap DOMAIN RolePolicyIds
  <1>1. PICK all : all = EffectiveRoles(held)
    OBVIOUS
  <1>2. held \in SUBSET Roles /\ held \cap KnownRoles \in SUBSET Roles
    BY PolicyAssumption
  <1>3. /\ all \in SUBSET Roles /\ held \cap KnownRoles \subseteq all /\ Closed(all)
        /\ \A above \in SUBSET Roles : held \cap KnownRoles \subseteq above /\ Closed(above) => all \subseteq above
    <2>1. all = Closure(held \cap KnownRoles)
      BY <1>1, <1>2, FoldIsClosure
    <2> QED
      BY <1>2, <2>1, ClosureIsLeast
  <1>4. Inherited[held] = {role \in Roles : \A above \in SUBSET Roles :
                               held \subseteq above /\ Closed(above) => role \in above}
    BY DEF Inherited, Closed
  <1>5. all \subseteq Inherited[held]
    BY <1>3, <1>4
  <1>6. ASSUME NEW role \in Inherited[held], role \in DOMAIN RolePolicyIds PROVE role \in all
    <2>1. all \cup held \in SUBSET Roles /\ Closed(all \cup held)
      BY <1>2, <1>3 DEF Closed, KnownRoles
    <2>2. role \in all \cup held
      BY <1>4, <2>1
    <2> QED
      BY <1>3, <1>6, <2>2 DEF KnownRoles
  <1> QED
    BY <1>1, <1>5, <1>6

\* What Evaluate answers from any copy of the policies.
LEMMA EvaluationDenyOverrides ==
    ASSUME NEW store \in Stores, NEW held \in Users, NEW target, NEW protocol
    PROVE  Evaluate(held, target, protocol, store)
               <=> \/ DOMAIN RolePolicyIds = {}
                   \/ /\ \E id \in Applying(held, target, protocol, store) : store[id].effect = "allow"
                      /\ ~ \E id \in Applying(held, target, protocol, store) : store[id].effect = "deny"
  <1>1. PICK named : named = UNION {RolePolicyIds[role] : role \in Inherited[held] \cap DOMAIN RolePolicyIds}
    OBVIOUS
  <1>2. PICK ids : ids = Applying(held, target, protocol, store)
    OBVIOUS
  <1>3. PICK matched : matched = {policy \in GetPoliciesForUser(held, store) :
                                      MatchesTarget(policy, target) /\ AllowsProtocol(policy, protocol)}
    OBVIOUS
  <1>4. GetPoliciesForUser(held, store) = {store[id] : id \in named} \ {Absent}
    BY <1>1, EffectiveRolesWithPolicies DEF GetPoliciesForUser
  <1>5. ids = {id \in named : /\ store[id] # Absent
                              /\ MatchesTarget(store[id], target)
                              /\ AllowsProtocol(store[id], protocol)}
    BY <1>1, <1>2 DEF Applying, MatchesTarget, AllowsProtocol
  <1>6. matched = {store[id] : id \in ids}
    BY <1>3, <1>4, <1>5
  <1>7. ASSUME NEW id \in ids PROVE store[id].effect \in {"allow", "deny"}
    <2>1. id \in Ids
      BY <1>1, <1>5, PolicyAssumption
    <2>2. store[id] \in Policies
      BY <1>5, <2>1 DEF Stores
    <2> QED
      BY <2>2, PolicyAssumption
  <1>8. Evaluate(held, target, protocol, store)
            <=> \/ DOMAIN RolePolicyIds = {}
                \/ matched # {} /\ \A policy \in matched : policy.effect # "deny"
    BY <1>3 DEF Evaluate
  <1> QED
    BY <1>2, <1>6, <1>7, <1>8

-----------------------------------------------------------------------------

\* The store, the entry and the calls keep their types.
THEOREM PolicyTypeCorrect == Spec => []TypeOK
  <1>1. PolicyInv => TypeOK
    BY DEF PolicyInv
  <1> QED
    BY <1>1, PolicyInvariant, PTL

\* Every decision (Evaluate) follows policies that were in force within the life
\* of an entry (CacheDuration) and of the query that filled it, however calls
\* that fill the entry overtake each other.
THEOREM DecisionsFollowRecentPolicies == Spec => DecisionsAreRecent
  <1>1. PolicyInv /\ [Next]_vars =>
            \A c \in Calls : call[c].at # "decided" /\ call'[c].at = "decided" =>
                \E i \in 0..Window : call'[c].store \in recent[i]
    BY StepsDecideByRecent
  <1>2. PolicyInv /\ [Next]_vars =>
            [\A c \in Calls : call[c].at # "decided" /\ call'[c].at = "decided" =>
                \E i \in 0..Window : call'[c].store \in recent[i]]_vars
    BY <1>1
  <1> QED
    BY <1>2, PolicyInvariant, PTL DEF Spec, DecisionsAreRecent

\* A call (Evaluate) lets a user have a target exactly when a policy of his roles
\* or of roles above them allows it and none denies it, or no role has policies:
\* for any roles, any hierarchy of them, circles included, any policies, and
\* whatever copy of the policies the call has got hold of.
THEOREM DenialOverrides == Spec => []DenyOverrides
  <1>1. PolicyInv => DenyOverrides
    <2> SUFFICES ASSUME PolicyInv, NEW c \in Calls, NEW held \in Users, NEW target \in Targets,
                        NEW protocol \in Protocols \cup {"none"}
                 PROVE  LET store == call[c].store
                            ids == Applying(held, target, protocol, store) IN
                        Evaluate(held, target, protocol, store)
                            <=> \/ DOMAIN RolePolicyIds = {}
                                \/ /\ \E id \in ids : store[id].effect = "allow"
                                   /\ ~ \E id \in ids : store[id].effect = "deny"
      BY DEF DenyOverrides
    <2>1. call[c].store \in Stores
      BY DEF PolicyInv, TypeOK
    <2> QED
      BY <2>1, EvaluationDenyOverrides
  <1> QED
    BY <1>1, PolicyInvariant, PTL

\* The roles the evaluator collects (GetPoliciesForUser, AddInheritedRoles) are
\* the least set that has the known roles of the user and the parent of every
\* role in it: each is there once, none is missed, in whatever order it walks
\* and though the hierarchy may go in circles.
THEOREM EffectiveRolesAreInherited ==
    ASSUME NEW held \in Users
    PROVE  /\ held \cap KnownRoles \subseteq EffectiveRoles(held)
           /\ \A role \in EffectiveRoles(held) \cap DOMAIN RoleHierarchy : RoleHierarchy[role] \in EffectiveRoles(held)
           /\ \A above \in SUBSET Roles :
                  /\ held \cap KnownRoles \subseteq above
                  /\ \A role \in above \cap DOMAIN RoleHierarchy : RoleHierarchy[role] \in above
                  => EffectiveRoles(held) \subseteq above
  <1>1. PICK known : known = held \cap KnownRoles
    OBVIOUS
  <1>2. known \in SUBSET Roles
    BY <1>1, PolicyAssumption
  <1>3. EffectiveRoles(held) = Closure(known)
    BY <1>1, <1>2, FoldIsClosure
  <1>4. /\ known \subseteq Closure(known) /\ Closed(Closure(known))
        /\ \A above \in SUBSET Roles : known \subseteq above /\ Closed(above) => Closure(known) \subseteq above
    BY <1>2, ClosureIsLeast
  <1> QED
    BY <1>1, <1>3, <1>4 DEF Closed
=============================================================================
