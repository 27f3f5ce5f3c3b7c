-------------------------- MODULE PolicyDecisions --------------------------
(***************************************************************************)
(* AccessPolicyEvaluator: whether the roles of a user let him have a       *)
(* target, from a copy of all policies that the calls of the API share and *)
(* that any of them fills; and the administrator, who writes policies      *)
(* while calls are under way.                                              *)
(*                                                                         *)
(* Time passes in units of which the copy lives CacheDuration.  Which user *)
(* asks for which target is left open until the decision: nothing before   *)
(* it depends on them.                                                     *)
(***************************************************************************)
EXTENDS Integers, FiniteSets, FiniteSetsExt

CONSTANTS
    Roles,
    Users,          \* the roles that a user may have together
    RoleHierarchy,  \* role -> its parent, for some of the roles
    RolePolicyIds,  \* role -> set of ids, for some of the roles
    Ids, Generated, \* ids of policies; those Create makes
    Absent,         \* no policy
    Seeded,         \* the policies the store starts with
    Writes,         \* <<id, policy>> the administrator may write
    Targets,        \* [type, labels]
    Protocols,
    Calls,
    CacheDuration,
    FillTime,       \* what a query of all policies takes at most
    MaxVersions     \* bound: versions of the policies in one unit of time

Policies == {w[2] : w \in Writes} \cup ({Seeded[id] : id \in Ids} \ {Absent})
Stores == [Ids -> Policies \cup {Absent}]

\* A policy is written with one of two effects (PolicyCreateDto, PolicyUpsertDto).
ASSUME PolicyAssumption ==
    /\ IsFiniteSet(Roles) /\ Users \subseteq SUBSET Roles
    /\ DOMAIN RoleHierarchy \subseteq Roles
    /\ \A role \in DOMAIN RoleHierarchy : RoleHierarchy[role] \in Roles
    /\ DOMAIN RolePolicyIds \subseteq Roles
    /\ \A role \in DOMAIN RolePolicyIds : RolePolicyIds[role] \subseteq Ids
    /\ \A policy \in Policies : policy.effect \in {"allow", "deny"}
    /\ Seeded \in Stores
    /\ \A w \in Writes : w[1] \in Ids
    /\ Generated \subseteq Ids
    /\ CacheDuration \in Nat \ {0}
    /\ FillTime \in Nat

VARIABLES
    policies,   \* IPolicyStore
    cache,      \* entry policy_eval_all_policies: what it lives yet, and how old what it says is
    call,       \* calls that evaluate
    recent      \* history: versions of the policies, by the units of time since they were current

vars == <<policies, cache, call, recent>>

-----------------------------------------------------------------------------
(* What is decided *)

\* A parent that is there already is not followed: it has been, or is being.
AddInheritedRoles[a \in Roles \X SUBSET Roles] ==
    LET role == a[1]
        collected == a[2] IN
    IF role \in DOMAIN RoleHierarchy /\ RoleHierarchy[role] \notin collected
    THEN AddInheritedRoles[<<RoleHierarchy[role], collected \cup {RoleHierarchy[role]}>>]
    ELSE collected

\* Roles that no setting names are not known.
KnownRoles == DOMAIN RolePolicyIds \cup DOMAIN RoleHierarchy

\* Mutant: the parents of the roles held, and no further.
RolesAndParents(held) ==
    (held \cap KnownRoles) \cup {RoleHierarchy[role] : role \in held \cap DOMAIN RoleHierarchy}

EffectiveRoles(held) ==
    FoldSet(LAMBDA role, collected : AddInheritedRoles[<<role, collected \cup {role}>>],
            {}, held \cap KnownRoles)

GetPoliciesForUser(held, store) ==
    {store[id] : id \in UNION {RolePolicyIds[role] : role \in EffectiveRoles(held) \cap DOMAIN RolePolicyIds}}
        \ {Absent}

\* A target without labels has none of those a selector asks for.
MatchesTarget(policy, target) ==
    /\ policy.type \in {"*", target.type}
    /\ policy.labels \subseteq target.labels

\* A request for access names no protocol, a session does.
AllowsProtocol(policy, protocol) ==
    \/ protocol = "none" \/ policy.protocols = {}
    \/ {"*", protocol} \cap policy.protocols # {}

Evaluate(held, target, protocol, store) ==
    LET matched == {policy \in GetPoliciesForUser(held, store) :
                        MatchesTarget(policy, target) /\ AllowsProtocol(policy, protocol)} IN
    \/ DOMAIN RolePolicyIds = {}
    \/ matched # {} /\ \A policy \in matched : policy.effect # "deny"

-----------------------------------------------------------------------------
(* The copy of all policies *)

NoEntry == [store |-> [id \in Ids |-> Absent], ttl |-> 0, age |-> 0]
Idle == [at |-> "idle", store |-> [id \in Ids |-> Absent], age |-> 0]

\* What a decision may be based on, in units of time.
Window == FillTime + CacheDuration - 1

Init ==
    /\ policies = Seeded
    /\ cache = NoEntry
    /\ call = [c \in Calls |-> Idle]
    /\ recent = [i \in 0..Window |-> IF i = 0 THEN {Seeded} ELSE {}]

Decided(store) == [at |-> "decided", store |-> store, age |-> 0]

\* Mutant: an entry that is used lives on.
LookupAndRenew(c) ==
    /\ call[c].at = "idle"
    /\ IF cache.ttl > 0
       THEN /\ call' = [call EXCEPT ![c] = Decided(cache.store)]
            /\ cache' = [cache EXCEPT !.ttl = CacheDuration]
       ELSE call' = [call EXCEPT ![c].at = "missed"] /\ UNCHANGED cache
    /\ UNCHANGED <<policies, recent>>

\* Evaluate: with an entry, it decides at once.
Lookup(c) ==
    /\ call[c].at = "idle"
    /\ call' = [call EXCEPT ![c] = IF cache.ttl > 0 THEN Decided(cache.store) ELSE [@ EXCEPT !.at = "missed"]]
    /\ UNCHANGED <<policies, cache, recent>>

\* The factory: _policies.GetAll().
GetAll(c) ==
    /\ call[c].at = "missed"
    /\ call' = [call EXCEPT ![c] = [at |-> "read", store |-> policies, age |-> 0]]
    /\ UNCHANGED <<policies, cache, recent>>

\* The query throws: no entry.
GetAllFails(c) ==
    /\ call[c].at = "missed"
    /\ call' = [call EXCEPT ![c] = Idle]
    /\ UNCHANGED <<policies, cache, recent>>

\* Mutant: the entry lives one unit too long.
LongEntry(store, age) == [store |-> store, ttl |-> CacheDuration + 1, age |-> age]

Entry(store, age) == [store |-> store, ttl |-> CacheDuration, age |-> age]

\* The entry is put over what another call has put there since the lookup.
Fill(c) ==
    /\ call[c].at = "read"
    /\ cache' = Entry(call[c].store, call[c].age)
    /\ call' = [call EXCEPT ![c] = Decided(call[c].store)]
    /\ UNCHANGED <<policies, recent>>

Answer(c) ==
    /\ call[c].at = "decided"
    /\ call' = [call EXCEPT ![c] = Idle]
    /\ UNCHANGED <<policies, cache, recent>>

\* PoliciesController.Create, under a new id, and Update.
Write(id, policy) ==
    /\ Cardinality(recent[0]) < MaxVersions
    /\ (id \in Generated) = (policies[id] = Absent)
    /\ policies' = [policies EXCEPT ![id] = policy]
    /\ recent' = [recent EXCEPT ![0] = @ \cup {policies'}]
    /\ UNCHANGED <<cache, call>>

\* Mutant: the entry was made without an expiration.
TickWithoutExpiration ==
    /\ \A c \in Calls : call[c].at = "read" => call[c].age < FillTime
    /\ call' = [c \in Calls |-> IF call[c].at = "read" THEN [call[c] EXCEPT !.age = @ + 1] ELSE call[c]]
    /\ recent' = [i \in 0..Window |-> IF i = 0 THEN {policies} ELSE recent[i - 1]]
    /\ UNCHANGED <<policies, cache>>

\* A unit of time.
Tick ==
    /\ \A c \in Calls : call[c].at = "read" => call[c].age < FillTime
    /\ cache' = IF cache.ttl > 1 THEN [cache EXCEPT !.ttl = @ - 1, !.age = @ + 1] ELSE NoEntry
    /\ call' = [c \in Calls |-> IF call[c].at = "read" THEN [call[c] EXCEPT !.age = @ + 1] ELSE call[c]]
    /\ recent' = [i \in 0..Window |-> IF i = 0 THEN {policies} ELSE recent[i - 1]]
    /\ UNCHANGED policies

\* The API is started again.
Restart ==
    /\ cache' = NoEntry
    /\ call' = [c \in Calls |-> Idle]
    /\ UNCHANGED <<policies, recent>>

Next ==
    \/ Tick \/ Restart
    \/ \E c \in Calls : Lookup(c) \/ GetAll(c) \/ GetAllFails(c) \/ Fill(c) \/ Answer(c)
    \/ \E w \in Writes : Write(w[1], w[2])

\* Time passes, and a query that was answered is used.
Fairness == WF_vars(Tick) /\ \A c \in Calls : WF_vars(Fill(c))

Spec == Init /\ [][Next]_vars
FairSpec == Spec /\ Fairness

-----------------------------------------------------------------------------

\* Every variable keeps its type.
TypeOK ==
    /\ policies \in Stores
    /\ cache \in [store : Stores, ttl : 0..CacheDuration, age : 0..Window]
    /\ call \in [Calls -> [at : {"idle", "missed", "read", "decided"}, store : Stores, age : 0..FillTime]]
    /\ recent \in [0..Window -> SUBSET Stores]

\* The least set of roles that has those of the user and the parents of its own.
Inherited == [held \in Users |->
    {role \in Roles : \A above \in SUBSET Roles :
         held \subseteq above /\ (\A r \in above \cap DOMAIN RoleHierarchy : RoleHierarchy[r] \in above)
             => role \in above}]

\* The policies a user's roles or those above them name, that fit what is asked.
Applying(held, target, protocol, store) ==
    {id \in UNION {RolePolicyIds[role] : role \in Inherited[held] \cap DOMAIN RolePolicyIds} :
        /\ store[id] # Absent
        /\ store[id].type = "*" \/ store[id].type = target.type
        /\ \A label \in store[id].labels : label \in target.labels
        /\ \/ protocol = "none" \/ store[id].protocols = {} \/ "*" \in store[id].protocols
           \/ protocol \in store[id].protocols}

\* Whatever the order in which the evaluator walks roles and policies, and even
\* where the hierarchy goes in a circle, a call lets a user have a target when a
\* policy of his roles or of those above them allows it and none of these denies
\* it, or when no role has policies at all.
DenyOverrides ==
    \A c \in Calls : call[c].at = "decided" =>
        \A held \in Users, target \in Targets, protocol \in Protocols \cup {"none"} :
            LET store == call[c].store
                ids == Applying(held, target, protocol, store) IN
            Evaluate(held, target, protocol, store)
                <=> \/ DOMAIN RolePolicyIds = {}
                    \/ /\ \E id \in ids : store[id].effect = "allow"
                       /\ ~ \E id \in ids : store[id].effect = "deny"

\* A decision follows policies that were in force at some time within the life
\* of an entry and of the query that filled it, though a slow query may put older
\* policies over newer ones that decisions have followed already.
DecisionsAreRecent ==
    [][\A c \in Calls : call[c].at # "decided" /\ call'[c].at = "decided" =>
           \E i \in 0..Window : call'[c].store \in recent[i]]_vars

\* When the administrator is done, the entry and every query under way come to
\* hold what he wrote, without anybody invalidating the entry.
PoliciesTakeEffect ==
    <>[][policies' = policies]_policies =>
        <>[](/\ cache.ttl > 0 => cache.store = policies
             /\ \A c \in Calls : call[c].at = "read" => call[c].store = policies)
=============================================================================
