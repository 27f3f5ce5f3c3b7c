-------------------------- MODULE AuditTrailProofs --------------------------
(***************************************************************************)
(* Theorems of AuditTrail, for any number of events and any batch size.    *)
(***************************************************************************)
EXTENDS AuditTrail, FiniteSetTheorems, TLAPS

-----------------------------------------------------------------------------
(* Finite sets *)

\* A part of a finite set is finite, and not larger.
LEMMA PartOf ==
    ASSUME NEW S, IsFiniteSet(S), NEW T, T \subseteq S
    PROVE  /\ IsFiniteSet(T)
           /\ Cardinality(T) \in Nat /\ Cardinality(S) \in Nat
           /\ Cardinality(T) <= Cardinality(S)
  <1>1. T \in SUBSET S
    OBVIOUS
  <1> QED
    BY <1>1, FS_Subset, FS_CardinalityType

\* Two finite sets cover no more than the sum of what they hold.
LEMMA UnionBound ==
    ASSUME NEW A, NEW B, IsFiniteSet(A), IsFiniteSet(B), NEW T, T \subseteq A \cup B
    PROVE  /\ Cardinality(T) \in Nat /\ Cardinality(A) \in Nat /\ Cardinality(B) \in Nat
           /\ Cardinality(T) <= Cardinality(A) + Cardinality(B)
  <1>1. /\ IsFiniteSet(A \cup B)
        /\ Cardinality(A \cup B) = Cardinality(A) + Cardinality(B) - Cardinality(A \cap B)
    BY FS_Union
  <1>2. Cardinality(A \cap B) \in Nat
    BY FS_Intersection, FS_CardinalityType
  <1>3. /\ Cardinality(T) \in Nat
        /\ Cardinality(T) <= Cardinality(A \cup B)
    BY <1>1, PartOf
  <1>4. Cardinality(A) \in Nat /\ Cardinality(B) \in Nat
    BY FS_CardinalityType
  <1> QED
    BY <1>1, <1>2, <1>3, <1>4

\* A set is as large as the two parts another one makes of it.
LEMMA TwoParts ==
    ASSUME NEW S, IsFiniteSet(S), NEW E
    PROVE  /\ IsFiniteSet(S \cap E) /\ IsFiniteSet(S \ E)
           /\ Cardinality(S \cap E) \in Nat /\ Cardinality(S \ E) \in Nat
           /\ Cardinality(S) = Cardinality(S \cap E) + Cardinality(S \ E)
  <1>1. S \cap E \subseteq S /\ S \ E \subseteq S
    OBVIOUS
  <1>2. /\ IsFiniteSet(S \cap E) /\ IsFiniteSet(S \ E)
        /\ Cardinality(S \cap E) \in Nat /\ Cardinality(S \ E) \in Nat
    BY <1>1, PartOf
  <1>3. (S \cap E) \cup (S \ E) = S /\ (S \cap E) \cap (S \ E) = {}
    OBVIOUS
  <1>4. Cardinality(S) = Cardinality(S \cap E) + Cardinality(S \ E) - Cardinality({})
    BY <1>2, <1>3, FS_Union
  <1> QED
    BY <1>2, <1>4, FS_EmptySet

-----------------------------------------------------------------------------
(* A store: which events it holds, and in which order they are listed *)

Stored(pl) == {e \in Events : pl[e] # 0}
Ahead(pl, p) == {f \in Stored(pl) : pl[f] < p}
Listed(pl, n) == {e \in Stored(pl) : Cardinality(Ahead(pl, pl[e])) < n}

\* Every event has a place of its own.
Placing(pl) ==
    /\ pl \in [Events -> 0..MaxEvents]
    /\ \A e, f \in Stored(pl) : pl[e] = pl[f] => e = f

\* These are the operators of AuditTrail.
LEMMA StoreOfLog ==
    /\ log = Stored(place)
    /\ \A n : First(n) = Listed(place, n)
    /\ \A p, n : PushesOut(p, n) <=> /\ Cardinality(Ahead(place, p)) < n
                                     /\ n <= Cardinality(log)
  BY DEF log, Stored, First, Listed, Before, Ahead, PushesOut

\* There are finitely many events, so every set of them can be counted.
LEMMA EventsFinite ==
    ASSUME NEW T, T \subseteq Events
    PROVE  IsFiniteSet(T) /\ Cardinality(T) \in Nat
  <1>1. IsFiniteSet(Events)
    BY BoundAssumption, FS_Interval DEF Events
  <1> QED
    BY <1>1, PartOf

\* What a store holds and lists, and what lies ahead of a place, are events.
LEMMA StoreFinite ==
    ASSUME NEW pl, NEW n, NEW p
    PROVE  /\ Stored(pl) \subseteq Events /\ IsFiniteSet(Stored(pl))
           /\ Cardinality(Stored(pl)) \in Nat
           /\ Listed(pl, n) \subseteq Stored(pl) /\ IsFiniteSet(Listed(pl, n))
           /\ Cardinality(Listed(pl, n)) \in Nat
           /\ Ahead(pl, p) \subseteq Stored(pl) /\ IsFiniteSet(Ahead(pl, p))
           /\ Cardinality(Ahead(pl, p)) \in Nat
  <1>1. Stored(pl) \subseteq Events /\ Listed(pl, n) \subseteq Stored(pl) /\ Ahead(pl, p) \subseteq Stored(pl)
    BY DEF Stored, Listed, Ahead
  <1>2. Listed(pl, n) \subseteq Events /\ Ahead(pl, p) \subseteq Events
    BY <1>1
  <1> QED
    BY <1>1, <1>2, EventsFinite

\* An event at a later place has more events ahead of it.
LEMMA LaterHasMoreAhead ==
    ASSUME NEW pl, Placing(pl), NEW e \in Stored(pl), NEW p \in Nat, pl[e] < p
    PROVE  Cardinality(Ahead(pl, pl[e])) < Cardinality(Ahead(pl, p))
  <1>1. \A f \in Stored(pl) : pl[f] \in Nat
    BY BoundAssumption DEF Placing, Stored
  <1>2. /\ Ahead(pl, pl[e]) \subseteq Ahead(pl, p)
        /\ e \in Ahead(pl, p)
        /\ e \notin Ahead(pl, pl[e])
    BY <1>1 DEF Ahead
  <1>3. IsFiniteSet(Ahead(pl, p)) /\ IsFiniteSet(Ahead(pl, pl[e]))
    BY StoreFinite
  <1>4. Ahead(pl, pl[e]) \subseteq Ahead(pl, p) \ {e}
    BY <1>2
  <1>5. /\ IsFiniteSet(Ahead(pl, p) \ {e})
        /\ Cardinality(Ahead(pl, p) \ {e}) = Cardinality(Ahead(pl, p)) - 1
    BY <1>2, <1>3, FS_RemoveElement
  <1>6. /\ Cardinality(Ahead(pl, pl[e])) \in Nat
        /\ Cardinality(Ahead(pl, pl[e])) <= Cardinality(Ahead(pl, p) \ {e})
    BY <1>4, <1>5, PartOf
  <1>7. Cardinality(Ahead(pl, p)) \in Nat
    BY StoreFinite
  <1> QED
    BY <1>5, <1>6, <1>7

\* No two events of a store have as many ahead of them.
LEMMA RanksDiffer ==
    ASSUME NEW pl, Placing(pl), NEW e \in Stored(pl), NEW f \in Stored(pl),
           Cardinality(Ahead(pl, pl[e])) = Cardinality(Ahead(pl, pl[f]))
    PROVE  e = f
  <1>1. pl[e] \in Nat /\ pl[f] \in Nat
    BY BoundAssumption DEF Placing, Stored
  <1>2. ~ (pl[e] < pl[f]) /\ ~ (pl[f] < pl[e])
    BY <1>1, LaterHasMoreAhead, StoreFinite
  <1>3. pl[e] = pl[f]
    BY <1>1, <1>2
  <1> QED
    BY <1>3 DEF Placing

\* The first n of a list are n at most.
LEMMA ListedAtMost ==
    ASSUME NEW pl, Placing(pl), NEW n \in Nat
    PROVE  Cardinality(Listed(pl, n)) <= n
  <1> DEFINE rank == [e \in Listed(pl, n) |-> Cardinality(Ahead(pl, pl[e])) + 1]
  <1>1. \A e \in Listed(pl, n) : /\ e \in Stored(pl)
                                 /\ Cardinality(Ahead(pl, pl[e])) \in Nat
                                 /\ Cardinality(Ahead(pl, pl[e])) < n
    BY StoreFinite DEF Listed
  <1>2. rank \in [Listed(pl, n) -> 1..n]
    BY <1>1
  <1>3. ASSUME NEW e \in Listed(pl, n), NEW f \in Listed(pl, n), rank[e] = rank[f]
        PROVE  e = f
    BY <1>1, <1>3, RanksDiffer
  <1>4. rank \in Injection(Listed(pl, n), 1..n)
    BY <1>2, <1>3 DEF Injection, IsInjective
  <1>5. IsFiniteSet(1..n) /\ Cardinality(1..n) = n
    <2>1. 1 \in Int /\ n \in Int /\ (IF 1 > n THEN 0 ELSE n - 1 + 1) = n
      OBVIOUS
    <2> QED
      BY <2>1, FS_Interval
  <1> QED
    BY <1>4, <1>5, FS_Injection

\* The first of a list, as many as it has, are all of it.
LEMMA AllListed ==
    ASSUME NEW pl, Placing(pl), NEW n \in Nat, Cardinality(Stored(pl)) <= n
    PROVE  Listed(pl, n) = Stored(pl)
  <1> SUFFICES ASSUME NEW e \in Stored(pl) PROVE Cardinality(Ahead(pl, pl[e])) < n
    BY DEF Listed
  <1>1. pl[e] \in Nat
    BY BoundAssumption DEF Placing, Stored
  <1>2. Ahead(pl, pl[e]) \subseteq Stored(pl) \ {e}
    BY <1>1 DEF Ahead
  <1>3. IsFiniteSet(Stored(pl)) /\ Cardinality(Stored(pl)) \in Nat
    BY StoreFinite
  <1>4. /\ IsFiniteSet(Stored(pl) \ {e})
        /\ Cardinality(Stored(pl) \ {e}) = Cardinality(Stored(pl)) - 1
    BY <1>3, FS_RemoveElement
  <1>5. /\ Cardinality(Ahead(pl, pl[e])) \in Nat
        /\ Cardinality(Ahead(pl, pl[e])) <= Cardinality(Stored(pl) \ {e})
    BY <1>2, <1>4, PartOf
  <1> QED
    BY <1>3, <1>4, <1>5

-----------------------------------------------------------------------------
(* How a store changes *)

\* An event is put at a free place.
Put(pl, e, p) == [pl EXCEPT ![e] = p]

\* Events are deleted.
Without(pl, D) == [e \in Events |-> IF e \in D THEN 0 ELSE pl[e]]

\* The new event joins those that were stored.
LEMMA PutStores ==
    ASSUME NEW pl, Placing(pl), NEW e \in Events, NEW p \in Events,
           \A f \in Stored(pl) : pl[f] # p
    PROVE  /\ Placing(Put(pl, e, p))
           /\ Stored(Put(pl, e, p)) = Stored(pl) \cup {e}
  <1>1. p # 0 /\ p \in 0..MaxEvents
    BY BoundAssumption DEF Events
  <1>2. pl \in [Events -> 0..MaxEvents]
    BY DEF Placing
  <1>3. \A f \in Events : Put(pl, e, p)[f] = IF f = e THEN p ELSE pl[f]
    BY <1>2 DEF Put
  <1>4. Put(pl, e, p) \in [Events -> 0..MaxEvents]
    BY <1>1, <1>2 DEF Put
  <1>5. Stored(Put(pl, e, p)) = Stored(pl) \cup {e}
    BY <1>1, <1>3 DEF Stored
  <1>6. ASSUME NEW f \in Stored(Put(pl, e, p)), NEW g \in Stored(Put(pl, e, p)),
               Put(pl, e, p)[f] = Put(pl, e, p)[g]
        PROVE  f = g
    <2>1. f \in Events /\ g \in Events
      BY <1>6 DEF Stored
    <2> QED
      BY <1>3, <1>5, <1>6, <2>1 DEF Placing
  <1> QED
    BY <1>4, <1>5, <1>6 DEF Placing

\* Of the first n, one at most is no longer among them when an event is put
\* before it; and none, unless the place has fewer than n ahead of it and the
\* list was n long.
LEMMA PutPushesOne ==
    ASSUME NEW pl, Placing(pl), NEW e \in Events, e \notin Stored(pl), NEW p \in Events,
           \A f \in Stored(pl) : pl[f] # p, NEW n \in Nat
    PROVE  LET lost == Listed(pl, n) \ Listed(Put(pl, e, p), n)
           IN  /\ Cardinality(lost) <= 1
               /\ lost # {} => /\ Cardinality(Ahead(pl, p)) < n
                               /\ n <= Cardinality(Stored(pl))
  <1> DEFINE new == Put(pl, e, p)
             lost == Listed(pl, n) \ Listed(new, n)
  <1>1. /\ Placing(new) /\ Stored(new) = Stored(pl) \cup {e}
        /\ \A f \in Stored(pl) : new[f] = pl[f] /\ pl[f] \in Nat
        /\ new[e] = p /\ p \in Nat
    BY PutStores, BoundAssumption DEF Put, Placing, Stored, Events
  <1> HIDE DEF new
  <1>2. ASSUME NEW f \in lost
        PROVE  /\ f \in Stored(pl)
               /\ Cardinality(Ahead(pl, pl[f])) = n - 1
               /\ p < pl[f]
    <2>1. /\ f \in Stored(pl) /\ f \in Stored(new) /\ new[f] = pl[f] /\ pl[f] \in Nat
          /\ Cardinality(Ahead(pl, pl[f])) < n
          /\ ~ (Cardinality(Ahead(new, pl[f])) < n)
      BY <1>1, <1>2 DEF Listed
    <2>2. /\ IsFiniteSet(Ahead(pl, pl[f]))
          /\ Cardinality(Ahead(pl, pl[f])) \in Nat
          /\ Cardinality(Ahead(new, pl[f])) \in Nat
      BY StoreFinite
    <2>3. p < pl[f]
      <3> SUFFICES ASSUME ~ (p < pl[f]) PROVE FALSE
        OBVIOUS
      <3>1. Ahead(new, pl[f]) = Ahead(pl, pl[f])
        BY <1>1, <2>1 DEF Ahead
      <3> QED
        BY <2>1, <3>1
    <2>4. Ahead(new, pl[f]) \subseteq Ahead(pl, pl[f]) \cup {e}
      BY <1>1 DEF Ahead
    <2>5. Cardinality(Ahead(new, pl[f])) <= Cardinality(Ahead(pl, pl[f])) + 1
      <3>1. IsFiniteSet({e}) /\ Cardinality({e}) = 1
        BY FS_Singleton
      <3> QED
        BY <2>2, <2>4, <3>1, UnionBound
    <2> QED
      BY <2>1, <2>2, <2>3, <2>5
  <1>3. Cardinality(lost) <= 1
    <2>1. CASE lost = {}
      BY <2>1, FS_EmptySet
    <2>2. CASE lost # {}
      <3>1. PICK f : f \in lost
        BY <2>2
      <3>2. \A g \in lost : g = f
        BY <1>2, <3>1, RanksDiffer
      <3>3. lost = {f}
        BY <3>1, <3>2
      <3>4. Cardinality({f}) = 1
        BY FS_Singleton
      <3> HIDE DEF lost
      <3> QED
        BY <3>3, <3>4
    <2> QED
      BY <2>1, <2>2
  <1>4. ASSUME lost # {}
        PROVE  /\ Cardinality(Ahead(pl, p)) < n
               /\ n <= Cardinality(Stored(pl))
    <2>1. PICK f : f \in lost
      BY <1>4
    <2>2. /\ f \in Stored(pl) /\ Cardinality(Ahead(pl, pl[f])) = n - 1 /\ p < pl[f]
          /\ pl[f] \in Nat /\ p \in Nat
      BY <1>1, <1>2, <2>1
    <2>3. Ahead(pl, p) \subseteq Ahead(pl, pl[f])
      BY <1>1, <2>2 DEF Ahead
    <2>4. /\ Cardinality(Ahead(pl, p)) \in Nat
          /\ Cardinality(Ahead(pl, p)) <= Cardinality(Ahead(pl, pl[f]))
      BY <2>3, StoreFinite, PartOf
    <2>5. Ahead(pl, pl[f]) \subseteq Stored(pl) \ {f}
      BY <1>1, <2>2 DEF Ahead
    <2>6. /\ IsFiniteSet(Stored(pl) \ {f}) /\ Cardinality(Stored(pl)) \in Nat
          /\ Cardinality(Stored(pl) \ {f}) = Cardinality(Stored(pl)) - 1
      BY <2>2, StoreFinite, FS_RemoveElement
    <2>7. Cardinality(Ahead(pl, pl[f])) <= Cardinality(Stored(pl) \ {f})
      BY <2>5, <2>6, PartOf
    <2> QED
      BY <2>2, <2>4, <2>6, <2>7
  <1> QED
    BY <1>3, <1>4 DEF new

\* The deletion of events keeps the others, and of the first n only the deleted
\* are no longer among them.
LEMMA WithoutKeeps ==
    ASSUME NEW pl, Placing(pl), NEW D, NEW n \in Nat
    PROVE  /\ Placing(Without(pl, D))
           /\ Stored(Without(pl, D)) = Stored(pl) \ D
           /\ Listed(pl, n) \ D \subseteq Listed(Without(pl, D), n)
  <1> DEFINE new == Without(pl, D)
  <1>1. /\ \A f \in Events : new[f] = IF f \in D THEN 0 ELSE pl[f]
        /\ new \in [Events -> 0..MaxEvents]
    BY BoundAssumption DEF Without, Placing
  <1> HIDE DEF new
  <1>2. Stored(new) = Stored(pl) \ D
    BY <1>1 DEF Stored
  <1>3. \A f \in Stored(new) : f \in Stored(pl) /\ new[f] = pl[f]
    BY <1>1, <1>2 DEF Stored
  <1>4. Placing(new)
    BY <1>1, <1>3 DEF Placing
  <1>5. ASSUME NEW f \in Listed(pl, n) \ D
        PROVE  f \in Listed(new, n)
    <2>1. f \in Stored(new) /\ new[f] = pl[f] /\ Cardinality(Ahead(pl, pl[f])) < n
      BY <1>2, <1>3 DEF Listed
    <2>2. Ahead(new, pl[f]) \subseteq Ahead(pl, pl[f])
      BY <1>3 DEF Ahead
    <2>3. /\ Cardinality(Ahead(new, pl[f])) \in Nat /\ Cardinality(Ahead(pl, pl[f])) \in Nat
          /\ Cardinality(Ahead(new, pl[f])) <= Cardinality(Ahead(pl, pl[f]))
      BY <2>2, StoreFinite, PartOf
    <2> QED
      BY <2>1, <2>3 DEF Listed
  <1> QED
    BY <1>2, <1>4, <1>5 DEF new

-----------------------------------------------------------------------------
(* What the first n of a list miss of the events in a set *)

Gap(pl, n, E) == n - Cardinality(Listed(pl, n) \cap E)

\* A gap is an integer: there are finitely many events.
LEMMA GapType ==
    ASSUME NEW pl, NEW n \in Nat, NEW E
    PROVE  /\ Gap(pl, n, E) \in Int
           /\ IsFiniteSet(Listed(pl, n) \cap E)
           /\ Cardinality(Listed(pl, n) \cap E) \in Nat
  <1>1. Listed(pl, n) \cap E \subseteq Listed(pl, n) /\ IsFiniteSet(Listed(pl, n))
    BY StoreFinite
  <1>2. IsFiniteSet(Listed(pl, n) \cap E) /\ Cardinality(Listed(pl, n) \cap E) \in Nat
    BY <1>1, PartOf
  <1> QED
    BY <1>2 DEF Gap

\* A change that takes no more than D from the listed events of a set widens
\* the gap by no more than D holds.
LEMMA GapWidens ==
    ASSUME NEW pl, NEW q, NEW n \in Nat, NEW E, NEW F, NEW D, IsFiniteSet(D),
           Listed(pl, n) \cap E \subseteq (Listed(q, n) \cap F) \cup D
    PROVE  Gap(q, n, F) <= Gap(pl, n, E) + Cardinality(D)
  <1>1. /\ IsFiniteSet(Listed(q, n) \cap F) /\ Cardinality(Listed(q, n) \cap F) \in Nat
        /\ Cardinality(Listed(pl, n) \cap E) \in Nat
    BY GapType
  <1>2. /\ Cardinality(Listed(pl, n) \cap E)
               <= Cardinality(Listed(q, n) \cap F) + Cardinality(D)
        /\ Cardinality(D) \in Nat
    BY <1>1, UnionBound
  <1> QED
    BY <1>1, <1>2 DEF Gap

\* What is missing from the first n of a list is in its gap.
LEMMA MissingInGap ==
    ASSUME NEW pl, Placing(pl), NEW n \in Nat, NEW E
    PROVE  /\ Cardinality(Listed(pl, n) \ E) \in Nat
           /\ Cardinality(Listed(pl, n) \ E) <= Gap(pl, n, E)
  <1> DEFINE L == Listed(pl, n)
  <1>1. IsFiniteSet(L) /\ Cardinality(L) \in Nat /\ Cardinality(L) <= n
    BY StoreFinite, ListedAtMost
  <1>2. /\ Cardinality(L \cap E) \in Nat /\ Cardinality(L \ E) \in Nat
        /\ Cardinality(L) = Cardinality(L \cap E) + Cardinality(L \ E)
    BY <1>1, TwoParts
  <1>3. Gap(pl, n, E) = n - Cardinality(L \cap E)
    BY DEF Gap
  <1> HIDE DEF L
  <1>4. Cardinality(L \ E) \in Nat /\ Cardinality(L \ E) <= Gap(pl, n, E)
    BY <1>1, <1>2, <1>3
  <1> QED
    BY <1>4 DEF L

\* When everything behind the cursor has arrived the whole list misses no more
\* than what was missing before the cursor.
LEMMA GapOfSend ==
    ASSUME NEW pl, Placing(pl), NEW c \in Nat, NEW E
    PROVE  Gap(pl, Cardinality(Stored(pl)), E \cup (Stored(pl) \ Listed(pl, c))) <= Gap(pl, c, E)
  <1> DEFINE S == Stored(pl)
             L == Listed(pl, c)
             F == E \cup (S \ L)
  <1>1. /\ IsFiniteSet(S) /\ Cardinality(S) \in Nat /\ L \subseteq S
        /\ IsFiniteSet(L) /\ Cardinality(L) \in Nat
    BY StoreFinite
  <1>2. Listed(pl, Cardinality(S)) = S
    BY <1>1, AllListed
  <1>3. Gap(pl, Cardinality(S), F) = Cardinality(S) - Cardinality(S \cap F)
    BY <1>2 DEF Gap
  <1>4. Cardinality(L \ E) \in Nat /\ Cardinality(L \ E) <= Gap(pl, c, E)
    BY MissingInGap
  <1>5. IsFiniteSet(L \ E) /\ S \ F = L \ E
    BY <1>1, TwoParts
  <1>6. /\ Cardinality(S \cap F) \in Nat
        /\ Cardinality(S) = Cardinality(S \cap F) + Cardinality(S \ F)
    BY <1>1, TwoParts
  <1>7. Gap(pl, c, E) \in Int
    BY GapType
  <1> HIDE DEF S, L, F
  <1>8. Gap(pl, Cardinality(S), F) <= Gap(pl, c, E)
    BY <1>1, <1>3, <1>4, <1>5, <1>6, <1>7
  <1> QED
    BY <1>8 DEF S, L, F

\* To count the whole list for its first n misses what is behind them.
LEMMA GapOfCount ==
    ASSUME NEW pl, Placing(pl), NEW n \in Nat, NEW E
    PROVE  Gap(pl, Cardinality(Stored(pl)), E)
               <= Gap(pl, n, E) + Cardinality(Stored(pl) \ Listed(pl, n))
  <1> DEFINE S == Stored(pl)
             L == Listed(pl, n)
  <1>1. /\ IsFiniteSet(S) /\ Cardinality(S) \in Nat /\ L \subseteq S
        /\ IsFiniteSet(L) /\ Cardinality(L) \in Nat /\ Cardinality(L) <= n
    BY StoreFinite, ListedAtMost
  <1>2. Listed(pl, Cardinality(S)) = S
    BY <1>1, AllListed
  <1>3. Gap(pl, Cardinality(S), E) = Cardinality(S) - Cardinality(S \cap E)
    BY <1>2 DEF Gap
  <1>4. Gap(pl, n, E) = n - Cardinality(L \cap E)
    BY DEF Gap
  <1>5. S \cap L = L
    BY <1>1
  <1>6. Cardinality(S) = Cardinality(L) + Cardinality(S \ L) /\ Cardinality(S \ L) \in Nat
    <2>1. Cardinality(S) = Cardinality(S \cap L) + Cardinality(S \ L) /\ Cardinality(S \ L) \in Nat
      BY <1>1, TwoParts
    <2> HIDE DEF S, L
    <2> QED
      BY <1>5, <2>1
  <1>7. IsFiniteSet(S \cap E) /\ Cardinality(S \cap E) \in Nat
    BY <1>1, TwoParts
  <1>8. L \cap E \subseteq S \cap E
    BY <1>1
  <1>9. Cardinality(L \cap E) \in Nat /\ Cardinality(L \cap E) <= Cardinality(S \cap E)
    BY <1>7, <1>8, PartOf
  <1> HIDE DEF S, L
  <1>10. Gap(pl, Cardinality(S), E) <= Gap(pl, n, E) + Cardinality(S \ L)
    BY <1>1, <1>3, <1>4, <1>6, <1>7, <1>9
  <1> QED
    BY <1>10 DEF S, L

-----------------------------------------------------------------------------
(* Types *)

Export == [sending : BOOLEAN, batch : SUBSET (1..added), count : 0..added]

\* The parts of TypeOK, the log as a store.
Typed ==
    /\ provider \in {"InMemory", "Database"}
    /\ added \in 0..MaxEvents
    /\ Placing(place)
    /\ Stored(place) \subseteq 1..added
    /\ expired \in 0..added
    /\ cursor \in 0..added
    /\ exporter \in Export
    /\ exported \subseteq 1..added
    /\ forgone \in Nat

\* TypeOK says so in the words of AuditTrail.
LEMMA TypedIsTypeOK == Typed <=> TypeOK
  <1>1. \A e \in Stored(place) : e \in Events
    BY DEF Stored
  <1>2. added \in 0..MaxEvents => (Stored(place) \subseteq 1..added <=> \A e \in Stored(place) : e <= added)
    BY <1>1, BoundAssumption DEF Events
  <1>3. log = Stored(place)
    BY StoreOfLog
  <1> QED
    BY <1>2, <1>3 DEF Typed, TypeOK, Placing, Export

\* A store of some of the first n events has n at most.
LEMMA StoredAtMost ==
    ASSUME NEW n \in Nat, NEW pl, Stored(pl) \subseteq 1..n
    PROVE  Cardinality(Stored(pl)) \in 0..n
  <1>1. IsFiniteSet(1..n) /\ Cardinality(1..n) = n
    <2>1. 1 \in Int /\ n \in Int /\ (IF 1 > n THEN 0 ELSE n - 1 + 1) = n
      OBVIOUS
    <2> QED
      BY <2>1, FS_Interval
  <1>2. Cardinality(Stored(pl)) \in Nat /\ Cardinality(Stored(pl)) <= n
    BY <1>1, PartOf
  <1> QED
    BY <1>2

\* The first event to be added next has no place yet, and gets one for itself.
LEMMA AddPuts ==
    ASSUME Typed, Add
    PROVE  \E p \in Events :
               /\ added + 1 \in Events /\ added + 1 \notin Stored(place)
               /\ \A f \in Stored(place) : place[f] # p
               /\ place' = Put(place, added + 1, p)
               /\ forgone' = IF Overtaken(p) THEN forgone + 1 ELSE forgone
  <1>1. added \in Nat /\ added + 1 \in Events /\ added + 1 \notin Stored(place)
    BY BoundAssumption DEF Typed, Add, Events
  <1> QED
    BY <1>1, StoreOfLog DEF Add, Put

\* Every step keeps the types: the cursor is set to a number of events that were
\* in the log, and a new event gets a place of its own.
LEMMA TypeStep == Typed /\ [Next]_vars => Typed'
  <1> SUFFICES ASSUME Typed, [Next]_vars
               PROVE  Typed'
    OBVIOUS
  <1>t. /\ provider \in {"InMemory", "Database"}
        /\ added \in 0..MaxEvents /\ added \in Nat
        /\ Placing(place)
        /\ Stored(place) \subseteq 1..added
        /\ expired \in 0..added
        /\ cursor \in 0..added
        /\ exporter \in Export
        /\ exported \subseteq 1..added
        /\ forgone \in Nat
    BY BoundAssumption DEF Typed
  <1>w. Waiting \in Export
    BY <1>t DEF Waiting, Export
  <1>l. /\ Cardinality(Stored(place)) \in 0..added
        /\ log = Stored(place)
        /\ \A n : First(n) = Listed(place, n)
    BY <1>t, StoredAtMost, StoreOfLog
  <1>e. ASSUME NEW T, T \subseteq 1..added
        PROVE  Cardinality(T) \in Nat
    <2>1. T \subseteq Events
      BY <1>t, <1>e, BoundAssumption DEF Events
    <2> QED
      BY <2>1, EventsFinite
  <1>1. CASE Add
    <2>1. PICK p \in Events :
              /\ added + 1 \in Events /\ added + 1 \notin Stored(place)
              /\ \A f \in Stored(place) : place[f] # p
              /\ place' = Put(place, added + 1, p)
              /\ forgone' = IF Overtaken(p) THEN forgone + 1 ELSE forgone
      BY <1>1, AddPuts
    <2>2. Placing(place') /\ Stored(place') = Stored(place) \cup {added + 1}
      BY <1>t, <2>1, PutStores
    <2>3. /\ added' = added + 1 /\ added + 1 \in 0..MaxEvents
          /\ UNCHANGED <<provider, expired, cursor, exporter, exported>>
      BY <1>1, <2>1, BoundAssumption DEF Add, Events
    <2>4. Stored(place') \subseteq 1..(added + 1) /\ forgone' \in Nat
      BY <1>t, <2>1, <2>2
    <2>5. exporter \in [sending : BOOLEAN, batch : SUBSET (1..(added + 1)), count : 0..(added + 1)]
      BY <1>t DEF Export
    <2> QED
      BY <1>t, <2>2, <2>3, <2>4, <2>5 DEF Typed, Export
  <1>2. CASE Expire
    BY <1>2, <1>t DEF Expire, Typed, Export
  <1>3. CASE BeginExport
    <2>1. /\ exporter' = [sending |-> TRUE, batch |-> log \ First(cursor), count |-> Cardinality(log)]
          /\ UNCHANGED <<provider, place, added, expired, cursor, exported, forgone>>
      BY <1>3 DEF BeginExport, StartSending
    <2>2. exporter' \in Export
      BY <1>t, <1>l, <2>1 DEF Export
    <2> QED
      BY <1>t, <2>1, <2>2 DEF Typed, Export
  <1>4. ASSUME NEW arrived \in SUBSET exporter.batch, EndSending(arrived)
        PROVE  Typed'
    <2>1. /\ exported' = exported \cup arrived /\ cursor' = CountAfterSend
          /\ exporter' = Waiting
          /\ forgone' = forgone + Cardinality(exporter.batch \ arrived) + Cardinality(Overlooked)
          /\ UNCHANGED <<provider, place, added, expired>>
      BY <1>4 DEF EndSending
    <2>2. exporter.batch \subseteq 1..added /\ exporter.count \in 0..added
      BY <1>t DEF Export
    <2>3. cursor' \in 0..added
      BY <1>l, <2>1, <2>2 DEF CountAfterSend
    <2>4. exported' \subseteq 1..added /\ exporter.batch \ arrived \subseteq 1..added
      BY <1>t, <2>1, <2>2
    <2>5. Overlooked \subseteq 1..added
      BY <1>t, <1>l DEF Overlooked
    <2>6. /\ Cardinality(exporter.batch \ arrived) \in Nat
          /\ Cardinality(Overlooked) \in Nat
      BY <1>e, <2>4, <2>5
    <2>7. forgone' \in Nat
      BY <1>t, <2>1, <2>6
    <2> QED
      BY <1>t, <1>w, <2>1, <2>3, <2>4, <2>7 DEF Typed, Export
  <1>5. CASE FailExport
    <2>1. PICK arrived \in SUBSET exporter.batch : exported' = exported \cup arrived
      BY <1>5 DEF FailExport
    <2>2. exported' \subseteq 1..added
      BY <1>t, <2>1 DEF Export
    <2> QED
      BY <1>5, <1>t, <1>w, <2>2 DEF FailExport, Typed, Export
  <1>6. CASE Restart
    <2>1. /\ cursor' = 0 /\ exporter' = Waiting /\ forgone' = 0
          /\ UNCHANGED <<provider, added, expired, exported>>
          /\ place' = place \/ place' = [e \in Events |-> 0]
      BY <1>6 DEF Restart
    <2>2. Placing(place') /\ Stored(place') \subseteq 1..added
      <3>1. CASE place' = place
        BY <1>t, <3>1
      <3>2. CASE place' = [e \in Events |-> 0]
        <4>1. Stored(place') = {}
          BY <3>2 DEF Stored
        <4> QED
          BY <3>2, <4>1, BoundAssumption DEF Placing
      <3> QED
        BY <2>1, <3>1, <3>2
    <2> QED
      BY <1>t, <1>w, <2>1, <2>2 DEF Typed, Export
  <1>7. CASE RotateBatch
    <2>1. /\ place' = Without(place, Batch) /\ forgone' = forgone + Cardinality(Batch)
          /\ UNCHANGED <<provider, added, expired, cursor, exporter, exported>>
      BY <1>7 DEF RotateBatch, Without
    <2>2. Placing(place') /\ Stored(place') = Stored(place) \ Batch
      BY <1>t, <2>1, WithoutKeeps
    <2>3. Batch \subseteq 1..added
      BY <1>t, <1>l DEF Batch, Due
    <2>4. Cardinality(Batch) \in Nat
      BY <1>e, <2>3
    <2>5. forgone' \in Nat
      BY <1>t, <2>1, <2>4
    <2> QED
      BY <1>t, <2>1, <2>2, <2>5 DEF Typed, Export
  <1>8. CASE UNCHANGED vars
    BY <1>8, <1>t DEF vars, Typed, Export
  <1>9. CASE FinishExport \/ RejectExport \/ LoseDatagrams
    BY <1>4, <1>9 DEF FinishExport, RejectExport, LoseDatagrams
  <1> QED
    BY <1>1, <1>2, <1>3, <1>5, <1>6, <1>7, <1>8, <1>9 DEF Next

\* An empty store lists nothing.
LEMMA EmptyStore ==
    ASSUME NEW pl, pl = [e \in Events |-> 0]
    PROVE  Placing(pl) /\ Stored(pl) = {}
  BY BoundAssumption DEF Placing, Stored

\* The log starts empty and typed.
LEMMA InitTyped == Init => Typed
  <1> SUFFICES ASSUME Init PROVE Typed
    OBVIOUS
  <1>1. Placing(place) /\ Stored(place) = {}
    BY EmptyStore DEF Init
  <1> QED
    BY <1>1, BoundAssumption DEF Init, Typed, Export, Waiting

\* The audit log, the exporter's cursor and its batch keep their types in either
\* store, under any interleaving of appends, exports, failures, restarts and
\* rotation.
THEOREM AuditTypeCorrect == Spec => []TypeOK
  <1>1. Typed => TypeOK
    BY TypedIsTypeOK
  <1> QED
    BY InitTyped, TypeStep, <1>1, PTL DEF Spec

-----------------------------------------------------------------------------
(* The account of what is skipped *)

\* What is missing before the cursor, and what will be missing before it after
\* the export under way, is in forgone.
GapInv ==
    /\ Gap(place, cursor, exported) <= forgone
    /\ exporter.sending =>
           Gap(place, exporter.count, exported \cup exporter.batch) <= forgone

\* The first none of a list have no gap.
LEMMA NoGapAtStart ==
    ASSUME NEW pl, NEW E
    PROVE  Gap(pl, 0, E) = 0
  <1>1. ASSUME NEW e \in Stored(pl)
        PROVE  ~ (Cardinality(Ahead(pl, pl[e])) < 0)
    <2>1. Cardinality(Ahead(pl, pl[e])) \in Nat
      BY StoreFinite
    <2> QED
      BY <2>1
  <1>2. Listed(pl, 0) \cap E = {}
    BY <1>1 DEF Listed
  <1> QED
    BY <1>2, FS_EmptySet DEF Gap

\* A new event widens a gap by one at most, and only where it overtakes.
LEMMA GapAfterPut ==
    ASSUME Typed, NEW n \in Nat, NEW E, NEW e \in Events, e \notin Stored(place),
           NEW p \in Events, \A f \in Stored(place) : place[f] # p
    PROVE  Gap(Put(place, e, p), n, E) <= Gap(place, n, E) + (IF PushesOut(p, n) THEN 1 ELSE 0)
  <1> DEFINE lost == Listed(place, n) \ Listed(Put(place, e, p), n)
  <1>1. Placing(place)
    BY DEF Typed
  <1>2. /\ Cardinality(lost) <= 1
        /\ lost # {} => PushesOut(p, n)
    BY <1>1, PutPushesOne, StoreOfLog
  <1>3. lost \subseteq Events
    BY StoreFinite
  <1>4. IsFiniteSet(lost) /\ Cardinality(lost) \in Nat
    BY <1>3, EventsFinite
  <1>5. Gap(Put(place, e, p), n, E) <= Gap(place, n, E) + Cardinality(lost)
    <2>1. Listed(place, n) \cap E \subseteq (Listed(Put(place, e, p), n) \cap E) \cup lost
      OBVIOUS
    <2> HIDE DEF lost
    <2> QED
      BY <1>4, <2>1, GapWidens
  <1>6. lost = {} => Cardinality(lost) = 0
    BY FS_EmptySet
  <1>7. Gap(Put(place, e, p), n, E) \in Int /\ Gap(place, n, E) \in Int
    BY GapType
  <1> HIDE DEF lost
  <1> QED
    BY <1>2, <1>4, <1>5, <1>6, <1>7

\* The end of an export, whatever of it has arrived: what was lost of the batch
\* and what the list in memory has grown by is added to the account.
LEMMA GapAfterSend ==
    ASSUME Typed, GapInv, NEW arrived \in SUBSET exporter.batch, EndSending(arrived)
    PROVE  Gap(place, cursor', exported') <= forgone'
  <1> DEFINE missed == exporter.batch \ arrived
             n == exporter.count
  <1>1. /\ exporter.sending /\ exported' = exported \cup arrived /\ cursor' = CountAfterSend
        /\ forgone' = forgone + Cardinality(missed) + Cardinality(Overlooked)
    BY DEF EndSending
  <1>2. /\ Placing(place) /\ n \in Nat /\ forgone \in Nat /\ missed \subseteq Events
    BY BoundAssumption DEF Typed, Export, Events
  <1>3. IsFiniteSet(missed) /\ Cardinality(missed) \in Nat
    BY <1>2, EventsFinite
  <1>4. Gap(place, n, exported') <= Gap(place, n, exported \cup exporter.batch) + Cardinality(missed)
    <2>1. Listed(place, n) \cap (exported \cup exporter.batch)
              \subseteq (Listed(place, n) \cap (exported \cup arrived)) \cup missed
      OBVIOUS
    <2>2. Gap(place, n, exported \cup arrived)
              <= Gap(place, n, exported \cup exporter.batch) + Cardinality(missed)
      BY <1>2, <1>3, <2>1, GapWidens
    <2> QED
      BY <1>1, <2>2
  <1>5. Gap(place, n, exported \cup exporter.batch) <= forgone
    BY <1>1 DEF GapInv
  <1>6. /\ Gap(place, n, exported \cup exporter.batch) \in Int
        /\ Gap(place, n, exported \cup arrived) \in Int
    BY <1>2, GapType
  <1>7. Gap(place, n, exported') <= forgone + Cardinality(missed)
    <2> HIDE DEF missed, n
    <2> QED
      BY <1>1, <1>2, <1>3, <1>4, <1>5, <1>6
  <1>8. CASE provider = "InMemory"
    <2>1. /\ cursor' = Cardinality(Stored(place))
          /\ Overlooked = Stored(place) \ Listed(place, n)
      BY <1>1, <1>8, StoreOfLog DEF CountAfterSend, Overlooked
    <2>2. Gap(place, Cardinality(Stored(place)), exported \cup arrived)
              <= Gap(place, n, exported \cup arrived) + Cardinality(Overlooked)
      BY <1>2, <2>1, GapOfCount
    <2>3. Overlooked \subseteq Events
      BY <2>1, StoreFinite
    <2>4. Cardinality(Overlooked) \in Nat /\ Cardinality(Stored(place)) \in Nat
      BY <2>3, EventsFinite, StoreFinite
    <2>5. Gap(place, Cardinality(Stored(place)), exported \cup arrived) \in Int
      BY <2>4, GapType
    <2> HIDE DEF missed, n
    <2> QED
      BY <1>1, <1>2, <1>3, <1>6, <1>7, <2>1, <2>2, <2>4, <2>5
  <1>9. CASE provider # "InMemory"
    <2>1. cursor' = n /\ Overlooked = {}
      BY <1>1, <1>9 DEF CountAfterSend, Overlooked
    <2>2. Cardinality(Overlooked) = 0
      BY <2>1, FS_EmptySet
    <2> HIDE DEF missed, n
    <2> QED
      BY <1>1, <1>2, <1>3, <1>7, <2>1, <2>2
  <1> QED
    BY <1>8, <1>9

\* Every step keeps the account, in either store.
LEMMA GapStep == Typed /\ GapInv /\ [Next]_vars => GapInv'
  <1> SUFFICES ASSUME Typed, GapInv, [Next]_vars
               PROVE  GapInv'
    OBVIOUS
  <1> DEFINE sent == exported \cup exporter.batch
  <1>t. /\ Placing(place) /\ cursor \in Nat /\ exporter.count \in Nat /\ forgone \in Nat
    BY BoundAssumption DEF Typed, Export
  <1>i. /\ Gap(place, cursor, exported) <= forgone
        /\ exporter.sending => Gap(place, exporter.count, sent) <= forgone
    BY DEF GapInv
  <1>g. /\ Gap(place, cursor, exported) \in Int
        /\ Gap(place, exporter.count, sent) \in Int
    BY <1>t, GapType
  <1>1. CASE Add
    <2>1. PICK p \in Events :
              /\ added + 1 \in Events /\ added + 1 \notin Stored(place)
              /\ \A f \in Stored(place) : place[f] # p
              /\ place' = Put(place, added + 1, p)
              /\ forgone' = IF Overtaken(p) THEN forgone + 1 ELSE forgone
      BY <1>1, AddPuts
    <2>2. UNCHANGED <<cursor, exporter, exported>>
      BY <1>1 DEF Add
    <2> DEFINE new == Put(place, added + 1, p)
    <2>3. /\ Gap(new, cursor, exported)
                 <= Gap(place, cursor, exported) + (IF PushesOut(p, cursor) THEN 1 ELSE 0)
          /\ Gap(new, exporter.count, sent)
                 <= Gap(place, exporter.count, sent) + (IF PushesOut(p, exporter.count) THEN 1 ELSE 0)
      BY <1>t, <2>1, GapAfterPut
    <2>4. Gap(new, cursor, exported) \in Int /\ Gap(new, exporter.count, sent) \in Int
      BY <1>t, GapType
    <2>5. /\ PushesOut(p, cursor) => forgone' = forgone + 1
          /\ exporter.sending /\ PushesOut(p, exporter.count) => forgone' = forgone + 1
          /\ forgone' = forgone \/ forgone' = forgone + 1
      BY <2>1 DEF Overtaken
    <2> HIDE DEF new, sent
    <2>6. Gap(new, cursor, exported) <= forgone'
      BY <1>t, <1>i, <1>g, <2>3, <2>4, <2>5
    <2>7. exporter.sending => Gap(new, exporter.count, sent) <= forgone'
      BY <1>t, <1>i, <1>g, <2>3, <2>4, <2>5
    <2> QED
      BY <2>1, <2>2, <2>6, <2>7 DEF GapInv, new, sent
  <1>2. CASE Expire
    BY <1>2 DEF Expire, GapInv
  <1>3. CASE BeginExport
    <2>1. /\ exporter'.batch = Stored(place) \ Listed(place, cursor)
          /\ exporter'.count = Cardinality(Stored(place))
          /\ UNCHANGED <<place, cursor, exported, forgone>>
      BY <1>3, StoreOfLog DEF BeginExport, StartSending
    <2> DEFINE after == Gap(place, Cardinality(Stored(place)),
                            exported \cup (Stored(place) \ Listed(place, cursor)))
    <2>2. after <= Gap(place, cursor, exported) /\ after \in Int
      BY <1>t, GapOfSend, GapType, StoreFinite
    <2>3. after <= forgone
      <3> HIDE DEF after
      <3> QED
        BY <1>t, <1>i, <1>g, <2>2
    <2> QED
      BY <1>i, <2>1, <2>3 DEF GapInv
  <1>4. ASSUME NEW arrived \in SUBSET exporter.batch, EndSending(arrived)
        PROVE  GapInv'
    <2>1. place' = place /\ ~exporter'.sending
      BY <1>4 DEF EndSending, Waiting
    <2>2. Gap(place, cursor', exported') <= forgone'
      BY <1>4, GapAfterSend
    <2> QED
      BY <2>1, <2>2 DEF GapInv
  <1>5. CASE FailExport
    <2>1. PICK arrived \in SUBSET exporter.batch : exported' = exported \cup arrived
      BY <1>5 DEF FailExport
    <2>2. ~exporter'.sending /\ UNCHANGED <<place, cursor, forgone>>
      BY <1>5 DEF FailExport, Waiting
    <2>3. IsFiniteSet({}) /\ Cardinality({}) = 0
      BY FS_EmptySet
    <2>4. Gap(place, cursor, exported \cup arrived) <= Gap(place, cursor, exported) + Cardinality({})
      BY <1>t, <2>3, GapWidens
    <2>5. Gap(place, cursor, exported \cup arrived) \in Int
      BY <1>t, GapType
    <2>6. Gap(place, cursor, exported \cup arrived) <= forgone
      BY <1>t, <1>i, <1>g, <2>3, <2>4, <2>5
    <2> QED
      BY <2>1, <2>2, <2>6 DEF GapInv
  <1>6. CASE Restart
    <2>1. cursor' = 0 /\ forgone' = 0 /\ ~exporter'.sending
      BY <1>6 DEF Restart, Waiting
    <2>2. PICK pl, E : pl = place' /\ E = exported'
      OBVIOUS
    <2>3. Gap(pl, 0, E) = 0
      BY NoGapAtStart
    <2> QED
      BY <2>1, <2>2, <2>3 DEF GapInv
  <1>7. CASE RotateBatch
    <2>1. /\ place' = Without(place, Batch) /\ forgone' = forgone + Cardinality(Batch)
          /\ UNCHANGED <<cursor, exporter, exported>>
      BY <1>7 DEF RotateBatch, Without
    <2>2. Batch \subseteq Events
      BY DEF Batch, Due, log
    <2>3. IsFiniteSet(Batch) /\ Cardinality(Batch) \in Nat
      BY <2>2, EventsFinite
    <2> DEFINE new == Without(place, Batch)
    <2>4. ASSUME NEW n \in Nat, NEW E
          PROVE  Gap(new, n, E) <= Gap(place, n, E) + Cardinality(Batch) /\ Gap(new, n, E) \in Int
      <3>1. Listed(place, n) \ Batch \subseteq Listed(new, n)
        BY <1>t, WithoutKeeps
      <3>2. Listed(place, n) \cap E \subseteq (Listed(new, n) \cap E) \cup Batch
        BY <3>1
      <3> HIDE DEF new
      <3> QED
        BY <2>3, <3>2, GapWidens, GapType
    <2> HIDE DEF new, sent
    <2>5. Gap(new, cursor, exported) <= forgone + Cardinality(Batch)
      BY <1>t, <1>i, <1>g, <2>3, <2>4
    <2>6. exporter.sending => Gap(new, exporter.count, sent) <= forgone + Cardinality(Batch)
      BY <1>t, <1>i, <1>g, <2>3, <2>4
    <2> QED
      BY <2>1, <2>5, <2>6 DEF GapInv, new, sent
  <1>8. CASE UNCHANGED vars
    BY <1>8 DEF vars, GapInv
  <1>9. CASE FinishExport \/ RejectExport \/ LoseDatagrams
    BY <1>4, <1>9 DEF FinishExport, RejectExport, LoseDatagrams
  <1> QED
    BY <1>1, <1>2, <1>3, <1>5, <1>6, <1>7, <1>8, <1>9 DEF Next

\* In memory or in a database that lists its rows in any order, SiemExportService
\* never takes more events for exported, without their having arrived, than were
\* rotated away, refused, lost as datagrams, added during a send to the list in
\* memory or overtaken by a new row since it was started: for any number of
\* events, any batch of rotation and any interleaving with failures and restarts.
THEOREM ExportSkipsAtMostForgone == Spec => []SkippedAtMostForgone
  <1>1. Init => Typed /\ GapInv
    <2> SUFFICES ASSUME Init PROVE GapInv
      BY InitTyped
    <2>1. cursor = 0 /\ forgone = 0 /\ ~exporter.sending
      BY DEF Init, Waiting
    <2>2. Gap(place, 0, exported) = 0
      BY NoGapAtStart
    <2> QED
      BY <2>1, <2>2 DEF GapInv
  <1>2. Typed /\ GapInv /\ [Next]_vars => Typed' /\ GapInv'
    BY TypeStep, GapStep
  <1>3. Typed /\ GapInv => SkippedAtMostForgone
    <2> SUFFICES ASSUME Typed, GapInv PROVE SkippedAtMostForgone
      OBVIOUS
    <2>1. Placing(place) /\ cursor \in Nat /\ forgone \in Nat
      BY BoundAssumption DEF Typed
    <2>2. Skipped = Listed(place, cursor) \ exported
      BY StoreOfLog DEF Skipped
    <2>3. /\ Cardinality(Skipped) \in Nat
          /\ Cardinality(Skipped) <= Gap(place, cursor, exported)
      BY <2>1, <2>2, MissingInGap
    <2>4. Gap(place, cursor, exported) \in Int /\ Gap(place, cursor, exported) <= forgone
      BY <2>1, GapType DEF GapInv
    <2> QED
      BY <2>1, <2>3, <2>4 DEF SkippedAtMostForgone
  <1> QED
    BY <1>1, <1>2, <1>3, PTL DEF Spec
=============================================================================
