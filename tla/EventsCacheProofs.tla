--------------------------- MODULE EventsCacheProofs ---------------------------
(***************************************************************************)
(* Proofs about EventsCache, for every set of events and every capacity,   *)
(* and, with the history of its puts, that it implements RecentEvents.     *)
(***************************************************************************)
EXTENDS EventsCacheHistory, CacheOpsProofs, FiniteSetTheorems

(* Type correctness and the capacity are inductive together: the eviction  *)
(* loop's single round is enough only because the cache was within bounds. *)
LEMMA TypeAndBound == Spec => [](TypeOK /\ Bounded)
<1> USE DEF TypeOK, Bounded
<1>1. Init => TypeOK /\ Bounded
  BY EmptyCacheProperties DEF Init
<1>2. TypeOK /\ Bounded /\ [Next]_vars => (TypeOK /\ Bounded)'
  <2> SUFFICES ASSUME TypeOK /\ Bounded, [Next]_vars PROVE (TypeOK /\ Bounded)'
    OBVIOUS
  <2>1. ASSUME NEW e \in Event, Put(e) PROVE (TypeOK /\ Bounded)'
    BY <2>1, PutProperties DEF Put
  <2>2. ASSUME NEW p, NEW since, NEW limit, GetRecent(p, since, limit)
        PROVE  (TypeOK /\ Bounded)'
    BY <2>2 DEF GetRecent
  <2>3. CASE Clear
    BY <2>3, EmptyCacheProperties DEF Clear
  <2>4. CASE UNCHANGED vars
    BY <2>4 DEF vars
  <2>5. QED
    BY <2>1, <2>2, <2>3, <2>4 DEF Next
<1>3. QED
  BY <1>1, <1>2, PTL DEF Spec

(* The store holds events that were put, the index holds ids, for every    *)
(* set of events and every capacity.                                       *)
THEOREM TypeCorrect == Spec => []TypeOK
BY TypeAndBound, PTL

(* The cache never exceeds its capacity and never stores an id twice,      *)
(* whatever is put into it and in whatever order.                          *)
THEOREM StaysBounded == Spec => []Bounded
BY TypeAndBound, PTL

(* Every stored event can be found through the list of some project, even  *)
(* when an event id is put again under another project.                    *)
THEOREM StaysReachable == Spec => []Reachable
<1> USE DEF TypeOK, Bounded, Reachable
<1>1. Init => Reachable
  BY EmptyCacheProperties DEF Init
<1>2. TypeOK /\ Bounded /\ Reachable /\ [Next]_vars => Reachable'
  <2> SUFFICES ASSUME TypeOK, Bounded, Reachable, [Next]_vars PROVE Reachable'
    OBVIOUS
  <2>1. ASSUME NEW e \in Event, Put(e) PROVE Reachable'
    BY <2>1, PutProperties DEF Put
  <2>2. ASSUME NEW p, NEW since, NEW limit, GetRecent(p, since, limit)
        PROVE  Reachable'
    BY <2>2 DEF GetRecent
  <2>3. CASE Clear
    BY <2>3, EmptyCacheProperties DEF Clear
  <2>4. CASE UNCHANGED vars
    BY <2>4 DEF vars
  <2>5. QED
    BY <2>1, <2>2, <2>3, <2>4 DEF Next
<1>3. QED
  BY <1>1, <1>2, TypeAndBound, PTL DEF Spec

(* When an event id always names the same project, the project index lists *)
(* each stored event exactly once and nothing else: evictions leave no     *)
(* dangling id and no empty list behind, however puts, bumps and clears    *)
(* are interleaved.                                                        *)
THEOREM IndexStaysExact ==
  ASSUME StableProject
  PROVE  Spec => []IndexExact
<1> USE DEF TypeOK, Bounded, IndexExact
<1>1. Init => IndexExact
  BY EmptyCacheProperties DEF Init
<1>2. TypeOK /\ Bounded /\ IndexExact /\ [Next]_vars => IndexExact'
  <2> SUFFICES ASSUME TypeOK, Bounded, IndexExact, [Next]_vars PROVE IndexExact'
    OBVIOUS
  <2>1. ASSUME NEW e \in Event, Put(e) PROVE IndexExact'
    BY <2>1, StableProject, PutProperties DEF Put
  <2>2. ASSUME NEW p, NEW since, NEW limit, GetRecent(p, since, limit)
        PROVE  IndexExact'
    BY <2>2 DEF GetRecent
  <2>3. CASE Clear
    BY <2>3, EmptyCacheProperties DEF Clear
  <2>4. CASE UNCHANGED vars
    BY <2>4 DEF vars
  <2>5. QED
    BY <2>1, <2>2, <2>3, <2>4 DEF Next
<1>3. QED
  BY <1>1, <1>2, TypeAndBound, PTL DEF Spec

-----------------------------------------------------------------------------
(* A non-empty bounded set of natural numbers has a greatest element. *)
LEMMA MaxOfBounded ==
  ASSUME NEW n \in Nat, NEW T, T \subseteq 0..n, T # {}
  PROVE  Max(T) \in T /\ \A y \in T : y <= Max(T)
<1> DEFINE U == {i \in 0..n : n - i \in T}
<1>1. U \subseteq Nat /\ U # {}
  <2>1. PICK y \in T : y \in 0..n
    OBVIOUS
  <2>2. n - y \in 0..n /\ n - (n - y) = y
    BY <2>1
  <2>3. n - y \in U
    BY <2>1, <2>2
  <2>4. U \subseteq Nat
    OBVIOUS
  <2> HIDE DEF U
  <2>5. QED
    BY <2>3, <2>4
<1>2. PICK m \in U : \A i \in U : m <= i
  BY <1>1, MinOfNats
<1>3. n - m \in T
  OBVIOUS
<1>4. \A y \in T : y <= n - m
  <2>1. SUFFICES ASSUME NEW y \in T PROVE y <= n - m
    OBVIOUS
  <2>2. n - y \in 0..n /\ n - (n - y) = y /\ y \in 0..n
    OBVIOUS
  <2>3. n - y \in U
    BY <2>2
  <2>4. m <= n - y
    BY <1>2, <2>3
  <2>5. QED
    BY <2>2, <2>4
<1>5. \E x \in T : \A y \in T : x >= y
  <2>1. \A y \in T : n - m >= y
    BY <1>4
  <2>2. QED
    BY <1>3, <2>1
<1>6. QED
  BY <1>5 DEF Max

(* The smaller and the larger of two numbers. *)
LEMMA SmallerOf ==
  ASSUME NEW a \in Nat, NEW b \in Nat
  PROVE  /\ Min({a, b}) = IF a <= b THEN a ELSE b
         /\ Max({a, b}) = IF a >= b THEN a ELSE b
<1>1. Min({a, b}) \in {a, b} /\ \A y \in {a, b} : Min({a, b}) <= y
  BY MinOfNats
<1>2. \E n \in Nat : {a, b} \subseteq 0..n
  <2>1. {a, b} \subseteq 0..(a + b)
    OBVIOUS
  <2>2. QED
    BY <2>1
<1>3. Max({a, b}) \in {a, b} /\ \A y \in {a, b} : y <= Max({a, b})
  BY <1>2, MaxOfBounded
<1>4. QED
  BY <1>1, <1>3

\* The places after k, and how many they are.
Above(S, k) == {j \in S : j > k}
Rank(S, k) == Cardinality(Above(S, k))

(* Later places of a bounded set have smaller ranks. *)
LEMMA RankProperties ==
  ASSUME NEW N \in Nat, NEW S, S \subseteq 1..N
  PROVE  /\ IsFiniteSet(S) /\ Cardinality(S) \in Nat
         /\ \A k \in S : Rank(S, k) \in 0..(Cardinality(S) - 1)
         /\ \A i, k \in S : i < k => Rank(S, k) < Rank(S, i)
<1>1. IsFiniteSet(S) /\ Cardinality(S) \in Nat
  <2>1. IsFiniteSet(1..N)
    BY FS_Interval
  <2>2. QED
    BY <2>1, FS_Subset, FS_CardinalityType
<1>2. ASSUME NEW k \in S
      PROVE  IsFiniteSet(Above(S, k)) /\ Rank(S, k) \in 0..(Cardinality(S) - 1)
  <2>1. Above(S, k) \in SUBSET S /\ k \notin Above(S, k)
    BY DEF Above
  <2>2. /\ IsFiniteSet(Above(S, k)) /\ Cardinality(Above(S, k)) <= Cardinality(S)
        /\ Cardinality(Above(S, k)) # Cardinality(S)
    BY <1>1, <2>1, FS_Subset
  <2>3. Cardinality(Above(S, k)) \in Nat
    BY <2>2, FS_CardinalityType
  <2>4. QED
    BY <1>1, <2>2, <2>3 DEF Rank
<1>3. ASSUME NEW i \in S, NEW k \in S, i < k
      PROVE  Rank(S, k) < Rank(S, i)
  <2>1. i \in Nat /\ k \in Nat /\ \A j \in S : j \in Nat
    OBVIOUS
  <2>2. Above(S, k) \in SUBSET Above(S, i)
    <3>1. \A j \in S : j > k => j > i
      BY <1>3, <2>1
    <3>2. QED
      BY <3>1, Zenon DEF Above
  <2>3. k \in Above(S, i) /\ k \notin Above(S, k)
    BY <1>3, <2>1 DEF Above
  <2>4. IsFiniteSet(Above(S, i))
    BY <1>2
  <2>5. Rank(S, k) <= Rank(S, i) /\ Rank(S, k) # Rank(S, i)
    BY <2>2, <2>3, <2>4, FS_Subset DEF Rank
  <2>6. Rank(S, k) \in Nat /\ Rank(S, i) \in Nat
    BY <1>2
  <2>7. QED
    BY <2>5, <2>6
<1>4. QED
  BY <1>1, <1>2, <1>3

(* The places of a bounded set can be numbered from the last: NthLast      *)
(* gives each number a place, a larger number an earlier one, and leaves   *)
(* no place without a number.                                              *)
LEMMA NthLastProperties ==
  ASSUME NEW N \in Nat, NEW S, S \subseteq 1..N
  PROVE  /\ IsFiniteSet(S) /\ Cardinality(S) \in Nat
         /\ \A n \in 1..Cardinality(S) : NthLast(S, n) \in S
         /\ \A n, m \in 1..Cardinality(S) : n < m => NthLast(S, m) < NthLast(S, n)
         /\ \A k \in S : \E n \in 1..Cardinality(S) : NthLast(S, n) = k
<1> DEFINE card == Cardinality(S)
           f == [k \in S |-> Rank(S, k) + 1]
<1>1. /\ IsFiniteSet(S) /\ card \in Nat
      /\ \A k \in S : Rank(S, k) \in 0..(card - 1)
      /\ \A i, k \in S : i < k => Rank(S, k) < Rank(S, i)
  BY RankProperties
<1>2. IsFiniteSet(1..card) /\ Cardinality(1..card) = Cardinality(S)
  BY <1>1, FS_Interval
<1> HIDE DEF card
<1>3. ASSUME NEW i \in S, NEW k \in S, Rank(S, i) = Rank(S, k)
      PROVE  i = k
  <2>1. i \in Nat /\ k \in Nat
    OBVIOUS
  <2>2. Rank(S, i) \in Nat /\ ~(i < k) /\ ~(k < i)
    BY <1>1, <1>3
  <2>3. QED
    BY <2>1, <2>2
<1>4. f \in Injection(S, 1..card)
  <2>1. f \in [S -> 1..card]
    BY <1>1
  <2>2. \A i, k \in S : f[i] = f[k] => i = k
    BY <1>1, <1>3
  <2>3. QED
    BY <2>1, <2>2 DEF Injection, IsInjective
<1>5. f \in Surjection(S, 1..card)
  BY <1>2, <1>4, FS_Injection
<1>6. ASSUME NEW n \in 1..card
      PROVE  NthLast(S, n) \in S /\ Rank(S, NthLast(S, n)) = n - 1
  <2>1. PICK k \in S : f[k] = n
    BY <1>5 DEF Surjection
  <2>2. Rank(S, k) = n - 1
    BY <1>1, <2>1
  <2>3. QED
    BY <2>2 DEF NthLast, Rank, Above
<1>7. ASSUME NEW n \in 1..card, NEW m \in 1..card, n < m
      PROVE  NthLast(S, m) < NthLast(S, n)
  <2>1. PICK i \in S, k \in S : i = NthLast(S, n) /\ k = NthLast(S, m)
    BY <1>6
  <2>2. i \in Nat /\ k \in Nat /\ Rank(S, i) = n - 1 /\ Rank(S, k) = m - 1
    BY <1>6, <2>1
  <2>3. ~(i < k) /\ i # k
    BY <1>1, <1>7, <2>2
  <2>4. QED
    BY <2>1, <2>2, <2>3
<1>8. ASSUME NEW k \in S
      PROVE  \E n \in 1..card : NthLast(S, n) = k
  <2>1. PICK n \in 1..card : n = Rank(S, k) + 1
    BY <1>1
  <2>2. Rank(S, k) = n - 1
    BY <1>1, <2>1
  <2>3. NthLast(S, n) = k
    BY <1>3, <1>6, <2>2
  <2>4. QED
    BY <2>3
<1>9. QED
  BY <1>1, <1>6, <1>7, <1>8 DEF card

-----------------------------------------------------------------------------
(* RecentEvents brings its own instance of the library's operators. *)
LEMMA SameOperators ==
  /\ \A S : Feed!Max(S) = Max(S) /\ Feed!Min(S) = Min(S)
  /\ \A S : Feed!Cardinality(S) = Cardinality(S)
BY DEF Feed!Max, Max, Feed!Min, Min, Feed!Cardinality, Cardinality

(* The last put of an id that was put. *)
LEMMA LastPutProperties ==
  ASSUME NEW h \in Seq(Event), NEW id \in Feed!IdsOf(h)
  PROVE  /\ Feed!LastPut(h, id) \in 1..Len(h)
         /\ h[Feed!LastPut(h, id)].id = id
         /\ Feed!LastPut(h, id) \in Feed!PutsOf(h, id)
<1>1. Len(h) \in Nat
  BY LenProperties
<1>2. Feed!PutsOf(h, id) \subseteq 0..Len(h) /\ Feed!PutsOf(h, id) # {}
  BY <1>1 DEF Feed!PutsOf, Feed!IdsOf
<1>3. Feed!LastPut(h, id) \in Feed!PutsOf(h, id)
  BY <1>1, <1>2, MaxOfBounded, SameOperators DEF Feed!LastPut
<1>4. QED
  BY <1>3 DEF Feed!PutsOf

(* One more put: it is the last one of its id, and the last puts of the    *)
(* other ids stay where they were.                                         *)
LEMMA AppendHistory ==
  ASSUME NEW h \in Seq(Event), NEW e \in Event
  PROVE  /\ Feed!IdsOf(Append(h, e)) = Feed!IdsOf(h) \union {e.id}
         /\ Feed!PutsOf(Append(h, e), e.id) = Feed!PutsOf(h, e.id) \union {Len(h) + 1}
         /\ Feed!LastPut(Append(h, e), e.id) = Len(h) + 1
         /\ \A id : id # e.id => /\ Feed!PutsOf(Append(h, e), id) = Feed!PutsOf(h, id)
                                 /\ Feed!LastPut(Append(h, e), id) = Feed!LastPut(h, id)
<1> DEFINE g == Append(h, e)
<1>1. /\ g \in Seq(Event) /\ Len(g) = Len(h) + 1 /\ g[Len(h) + 1] = e
      /\ \A i \in 1..Len(h) : g[i] = h[i]
      /\ Len(h) \in Nat
  BY AppendProperties, LenProperties
<1> HIDE DEF g
<1>2. 1..Len(g) = 1..Len(h) \union {Len(h) + 1}
  BY <1>1
<1>3. Feed!IdsOf(g) = Feed!IdsOf(h) \union {e.id}
  <2>1. Feed!IdsOf(g) = {g[i].id : i \in 1..Len(h) \union {Len(h) + 1}}
    BY <1>2 DEF Feed!IdsOf
  <2>2. Feed!IdsOf(g) = {h[i].id : i \in 1..Len(h)} \union {e.id}
    BY <1>1, <2>1
  <2>3. QED
    BY <2>2 DEF Feed!IdsOf
<1>4. Feed!PutsOf(g, e.id) = Feed!PutsOf(h, e.id) \union {Len(h) + 1}
  BY <1>1, <1>2, Zenon DEF Feed!PutsOf
<1>5. \A id : id # e.id => Feed!PutsOf(g, id) = Feed!PutsOf(h, id)
  BY <1>1, <1>2, Zenon DEF Feed!PutsOf
<1>6. Feed!LastPut(g, e.id) = Len(h) + 1
  <2>1. Feed!PutsOf(g, e.id) \subseteq 0..(Len(h) + 1) /\ Feed!PutsOf(g, e.id) # {}
    BY <1>1, <1>4 DEF Feed!PutsOf
  <2>2. /\ Feed!LastPut(g, e.id) \in 0..(Len(h) + 1)
        /\ \A y \in Feed!PutsOf(g, e.id) : y <= Feed!LastPut(g, e.id)
    <3>1. /\ Max(Feed!PutsOf(g, e.id)) \in Feed!PutsOf(g, e.id)
          /\ \A y \in Feed!PutsOf(g, e.id) : y <= Max(Feed!PutsOf(g, e.id))
      BY <1>1, <2>1, MaxOfBounded
    <3>2. Feed!LastPut(g, e.id) = Max(Feed!PutsOf(g, e.id))
      BY SameOperators DEF Feed!LastPut
    <3>3. QED
      BY <2>1, <3>1, <3>2
  <2>3. Len(h) + 1 <= Feed!LastPut(g, e.id)
    BY <1>4, <2>2
  <2>4. QED
    BY <1>1, <2>2, <2>3
<1>7. QED
  BY <1>3, <1>4, <1>5, <1>6 DEF Feed!LastPut, g

-----------------------------------------------------------------------------
\* Each stored event is the last version put under its id.
ShownIsLast(c, h) ==
  \A i \in 1..Len(c.store) :
     /\ c.store[i].id \in Feed!IdsOf(h)
     /\ c.store[i] = h[Feed!LastPut(h, c.store[i].id)]

LeastRecentFirst(c, h) ==
  \A i, j \in 1..Len(c.store) : i < j =>
     Feed!LastPut(h, c.store[i].id) < Feed!LastPut(h, c.store[j].id)

\* An id that is missing was put before everything in a full cache.
MissingAreOlder(c, h) ==
  \A id \in Feed!IdsOf(h) :
     \/ \E i \in 1..Len(c.store) : c.store[i].id = id
     \/ /\ Len(c.store) = MaxEntries
        /\ \A i \in 1..Len(c.store) :
              Feed!LastPut(h, id) < Feed!LastPut(h, c.store[i].id)

(* What the history says of the store.  StoreIsRecentHistory follows from  *)
(* it, and unlike StoreIsRecentHistory it is inductive: an eviction makes  *)
(* the event dropped one of those that were put before everything kept.    *)
HistInv(c, h) ==
  /\ h \in Seq(Event)
  /\ ShownIsLast(c, h)
  /\ LeastRecentFirst(c, h)
  /\ MissingAreOlder(c, h)

(* An empty cache has no history. *)
LEMMA HistInitially == HistInv(EmptyCache, << >>)
<1>1. Len(EmptyCache.store) = 0 /\ << >> \in Seq(Event) /\ Len(<< >>) = 0
  BY EmptySeq DEF EmptyCache
<1>2. Feed!IdsOf(<< >>) = {}
  BY <1>1 DEF Feed!IdsOf
<1>3. QED
  BY <1>1, <1>2 DEF HistInv, ShownIsLast, LeastRecentFirst, MissingAreOlder

(* A put keeps the store in step with the history. *)
LEMMA HistStep ==
  ASSUME NEW c, IsCache(c), IsBounded(c), NEW e \in Event, NEW h, HistInv(c, h)
  PROVE  HistInv(PutEvent(c, e), Append(h, e))
<1>1. PICK s, t, g : s = c.store /\ t = PutEvent(c, e).store /\ g = Append(h, e)
  OBVIOUS
<1>2. h \in Seq(Event) /\ Len(h) \in Nat
  BY LenProperties DEF HistInv
<1>3. /\ g \in Seq(Event) /\ g[Len(h) + 1] = e
      /\ \A i \in 1..Len(h) : g[i] = h[i]
      /\ Feed!IdsOf(g) = Feed!IdsOf(h) \union {e.id}
      /\ Feed!LastPut(g, e.id) = Len(h) + 1
      /\ \A id : id # e.id => Feed!LastPut(g, id) = Feed!LastPut(h, id)
  BY <1>1, <1>2, AppendProperties, AppendHistory
<1>4. /\ OnlyAdds(s, t, e)
      /\ KeepsOrder(s, t, e)
      /\ DropsEarliest(s, t, e)
      /\ Len(s) <= Len(t)
      /\ Occurs(t, e) \/ (Len(t) = MaxEntries /\ MaxEntries = 0)
  BY <1>1, PutOrder
<1>5. Len(t) \in Nat /\ Len(t) <= MaxEntries /\ Len(s) \in Nat /\ MaxEntries \in Nat
  <2>1. IsCache(PutEvent(c, e)) /\ IsBounded(PutEvent(c, e))
    BY PutProperties
  <2>2. QED
    BY <1>1, <2>1, LenProperties, MaxAssumption DEF IsCache, IsBounded
<1>6. \A id \in Feed!IdsOf(h) : Feed!LastPut(h, id) \in 1..Len(h)
  BY <1>2, LastPutProperties
<1>7. ASSUME NEW x, Occurs(s, x)
      PROVE  x.id \in Feed!IdsOf(h) /\ x = h[Feed!LastPut(h, x.id)]
  BY <1>1, <1>7 DEF HistInv, ShownIsLast, Occurs
<1>8. ASSUME NEW x, NEW y, Precedes(s, x, y)
      PROVE  Feed!LastPut(h, x.id) < Feed!LastPut(h, y.id)
  BY <1>1, <1>8 DEF HistInv, LeastRecentFirst, Precedes
<1>9. ASSUME NEW i \in 1..Len(t)
      PROVE  t[i].id \in Feed!IdsOf(g) /\ t[i] = g[Feed!LastPut(g, t[i].id)]
  <2>1. CASE t[i] = e
    BY <1>3, <2>1
  <2>2. CASE t[i] # e
    <3>1. t[i].id # e.id /\ Occurs(s, t[i])
      BY <1>4, <2>2 DEF OnlyAdds
    <3>2. t[i].id \in Feed!IdsOf(h) /\ t[i] = h[Feed!LastPut(h, t[i].id)]
      BY <1>7, <3>1
    <3>3. QED
      BY <1>3, <1>6, <3>1, <3>2
  <2>3. QED
    BY <2>1, <2>2
\* An id put before is older than e, and than every event that was newer.
<1>10. ASSUME NEW id \in Feed!IdsOf(h), id # e.id, NEW y,
              y = e \/ (y.id # e.id /\ Feed!LastPut(h, id) < Feed!LastPut(h, y.id))
       PROVE  Feed!LastPut(g, id) < Feed!LastPut(g, y.id)
  <2>1. Feed!LastPut(g, id) = Feed!LastPut(h, id) /\ Feed!LastPut(h, id) \in 1..Len(h)
    BY <1>3, <1>6, <1>10
  <2>2. CASE y = e
    BY <1>2, <1>3, <2>1, <2>2
  <2>3. CASE y.id # e.id /\ Feed!LastPut(h, id) < Feed!LastPut(h, y.id)
    BY <1>3, <2>1, <2>3
  <2>4. QED
    BY <1>10, <2>2, <2>3
<1>11. ASSUME NEW i \in 1..Len(t), NEW j \in 1..Len(t), i < j
       PROVE  Feed!LastPut(g, t[i].id) < Feed!LastPut(g, t[j].id)
  <2>1. t[i].id # e.id /\ (t[j] = e \/ Precedes(s, t[i], t[j]))
    BY <1>4, <1>11 DEF KeepsOrder
  <2>2. t[i].id \in Feed!IdsOf(h)
    BY <1>3, <1>9, <2>1
  <2>3. t[j] = e \/ t[j].id # e.id
    BY <1>4 DEF OnlyAdds
  <2>4. QED
    BY <1>8, <1>10, <2>1, <2>2, <2>3
<1>12. ASSUME NEW id \in Feed!IdsOf(g), ~ \E i \in 1..Len(t) : t[i].id = id
       PROVE  /\ Len(t) = MaxEntries
              /\ \A i \in 1..Len(t) : Feed!LastPut(g, id) < Feed!LastPut(g, t[i].id)
  <2>1. CASE id = e.id
    <3>1. ~Occurs(t, e)
      BY <1>12, <2>1 DEF Occurs
    <3>2. Len(t) = MaxEntries /\ MaxEntries = 0
      BY <1>4, <3>1
    <3>3. QED
      BY <3>2
  <2>2. CASE id # e.id
    <3>1. id \in Feed!IdsOf(h)
      BY <1>3, <2>2
    <3>2. \A i \in 1..Len(t) : t[i] = e \/ t[i].id # e.id
      BY <1>4 DEF OnlyAdds
    <3>3. CASE \E k \in 1..Len(s) : s[k].id = id
      <4>1. PICK k \in 1..Len(s) : s[k].id = id
        BY <3>3
      <4>2. /\ Len(t) = MaxEntries
            /\ \A i \in 1..Len(t) : t[i] = e \/ \E b \in 1..Len(s) : k < b /\ s[b] = t[i]
        BY <1>4, <1>12, <4>1 DEF DropsEarliest
      <4>3. ASSUME NEW i \in 1..Len(t)
            PROVE  t[i] = e \/ Feed!LastPut(h, id) < Feed!LastPut(h, t[i].id)
        <5>1. CASE t[i] # e
          <6>1. PICK b \in 1..Len(s) : k < b /\ s[b] = t[i]
            BY <4>2, <5>1
          <6>2. Precedes(s, s[k], t[i])
            BY <4>1, <6>1 DEF Precedes
          <6>3. QED
            BY <1>8, <4>1, <6>2
        <5>2. QED
          BY <5>1
      <4>4. QED
        BY <1>10, <2>2, <3>1, <3>2, <4>2, <4>3
    <3>4. CASE ~ \E k \in 1..Len(s) : s[k].id = id
      <4>1. /\ Len(s) = MaxEntries
            /\ \A k \in 1..Len(s) : Feed!LastPut(h, id) < Feed!LastPut(h, s[k].id)
        BY <1>1, <3>1, <3>4 DEF HistInv, MissingAreOlder
      <4>2. Len(t) = MaxEntries
        BY <1>4, <1>5, <4>1
      <4>3. \A i \in 1..Len(t) : t[i] = e \/ Feed!LastPut(h, id) < Feed!LastPut(h, t[i].id)
        BY <1>4, <4>1 DEF OnlyAdds, Occurs
      <4>4. QED
        BY <1>10, <2>2, <3>1, <3>2, <4>2, <4>3
    <3>5. QED
      BY <3>3, <3>4
  <2>3. QED
    BY <2>1, <2>2
<1>13. QED
  BY <1>1, <1>3, <1>9, <1>11, <1>12 DEF HistInv, ShownIsLast, LeastRecentFirst, MissingAreOlder

-----------------------------------------------------------------------------
(* A cache within its bounds stores as many ids as events. *)
LEMMA StoredCount ==
  ASSUME NEW c, IsCache(c), IsBounded(c)
  PROVE  IsFiniteSet(StoredIds(c)) /\ Cardinality(StoredIds(c)) = Len(c.store)
<1> DEFINE n == Len(c.store)
           f == [k \in 1..n |-> c.store[k].id]
<1>1. n \in Nat
  BY LenProperties DEF IsCache
<1>2. IsFiniteSet(1..n) /\ Cardinality(1..n) = n
  BY <1>1, FS_Interval
<1>3. f \in Surjection(1..n, StoredIds(c))
  <2>1. f \in [1..n -> StoredIds(c)] /\ \A x \in StoredIds(c) : \E k \in 1..n : f[k] = x
    BY DEF StoredIds
  <2>2. QED
    BY <2>1 DEF Surjection
<1>4. f \in Injection(1..n, StoredIds(c))
  <2>1. \A i, j \in 1..n : f[i] = f[j] => i = j
    BY DEF IsBounded
  <2>2. f \in [1..n -> StoredIds(c)]
    BY DEF StoredIds
  <2> HIDE DEF f
  <2>3. QED
    BY <2>1, <2>2 DEF Injection, IsInjective
<1> HIDE DEF f, n
<1>5. IsFiniteSet(StoredIds(c)) /\ Cardinality(StoredIds(c)) = Cardinality(1..n)
  BY <1>2, <1>3, <1>4, FS_Surjection
<1>6. QED
  BY <1>2, <1>5 DEF n

(* A history names finitely many ids. *)
LEMMA IdsAreFinite ==
  ASSUME NEW h \in Seq(Event)
  PROVE  IsFiniteSet(Feed!IdsOf(h))
<1> DEFINE f == [k \in 1..Len(h) |-> h[k].id]
<1>1. IsFiniteSet(1..Len(h))
  BY LenProperties, FS_Interval
<1>2. f \in Surjection(1..Len(h), Feed!IdsOf(h))
  <2>1. f \in [1..Len(h) -> Feed!IdsOf(h)] /\ \A x \in Feed!IdsOf(h) : \E k \in 1..Len(h) : f[k] = x
    BY DEF Feed!IdsOf
  <2>2. QED
    BY <2>1 DEF Surjection
<1> HIDE DEF f
<1>3. QED
  BY <1>1, <1>2, FS_Surjection

\* The ids put after the last put of id.
Newer(h, id) == {j \in Feed!IdsOf(h) : Feed!LastPut(h, j) > Feed!LastPut(h, id)}

(* The ids stored are those the feed holds: fewer than MaxEntries ids are  *)
(* newer than a stored one, and all that are stored are newer than one     *)
(* that is missing.                                                        *)
LEMMA StoredAreHeld ==
  ASSUME NEW c, IsCache(c), IsBounded(c), NEW h, HistInv(c, h)
  PROVE  StoredIds(c) = Feed!Held(h)
<1>1. h \in Seq(Event) /\ IsFiniteSet(Feed!IdsOf(h))
  BY IdsAreFinite DEF HistInv
<1>2. IsFiniteSet(StoredIds(c)) /\ Cardinality(StoredIds(c)) <= MaxEntries
      /\ Cardinality(StoredIds(c)) \in Nat /\ MaxEntries \in Nat
  BY StoredCount, MaxAssumption, FS_CardinalityType DEF IsBounded
<1>3. \A id : id \in StoredIds(c) <=> \E i \in 1..Len(c.store) : c.store[i].id = id
  BY DEF StoredIds
<1>4. StoredIds(c) \subseteq Feed!IdsOf(h)
  BY <1>3 DEF HistInv, ShownIsLast
<1>5. \A id \in Feed!IdsOf(h) : Feed!LastPut(h, id) \in Nat
  BY <1>1, LastPutProperties
<1>6. ASSUME NEW id \in Feed!IdsOf(h)
      PROVE  id \in Feed!Held(h) <=> Cardinality(Newer(h, id)) < MaxEntries
  BY SameOperators DEF Feed!Held, Newer
<1>7. ASSUME NEW id \in StoredIds(c)
      PROVE  Cardinality(Newer(h, id)) < MaxEntries
  <2>1. Newer(h, id) \in SUBSET (StoredIds(c) \ {id})
    <3>1. SUFFICES ASSUME NEW j \in Newer(h, id) PROVE j \in StoredIds(c) \ {id}
      OBVIOUS
    <3>2. /\ j \in Feed!IdsOf(h) /\ id \in Feed!IdsOf(h)
          /\ Feed!LastPut(h, j) > Feed!LastPut(h, id)
      BY <1>4, <3>1 DEF Newer
    <3>3. Feed!LastPut(h, j) \in Nat /\ Feed!LastPut(h, id) \in Nat
      BY <1>5, <3>2
    <3>4. ~(Feed!LastPut(h, j) < Feed!LastPut(h, id)) /\ j # id
      BY <3>2, <3>3
    <3>5. j \in StoredIds(c)
      BY <1>3, <3>2, <3>4 DEF HistInv, MissingAreOlder
    <3>6. QED
      BY <3>4, <3>5
  <2>2. IsFiniteSet(StoredIds(c) \ {id})
        /\ Cardinality(StoredIds(c) \ {id}) = Cardinality(StoredIds(c)) - 1
    BY <1>2, FS_RemoveElement
  <2>3. IsFiniteSet(Newer(h, id)) /\ Cardinality(Newer(h, id)) <= Cardinality(StoredIds(c)) - 1
    BY <2>1, <2>2, FS_Subset
  <2>4. Cardinality(Newer(h, id)) \in Nat
    BY <2>3, FS_CardinalityType
  <2>5. QED
    BY <1>2, <2>3, <2>4
<1>8. ASSUME NEW id \in Feed!IdsOf(h), id \notin StoredIds(c)
      PROVE  ~(Cardinality(Newer(h, id)) < MaxEntries)
  <2>1. /\ Len(c.store) = MaxEntries
        /\ \A i \in 1..Len(c.store) : Feed!LastPut(h, id) < Feed!LastPut(h, c.store[i].id)
    BY <1>3, <1>8 DEF HistInv, MissingAreOlder
  <2>2. StoredIds(c) \in SUBSET Newer(h, id)
    <3>1. SUFFICES ASSUME NEW j \in StoredIds(c) PROVE j \in Newer(h, id)
      OBVIOUS
    <3>2. j \in Feed!IdsOf(h) /\ Feed!LastPut(h, id) < Feed!LastPut(h, j)
      BY <1>3, <1>4, <2>1
    <3>3. Feed!LastPut(h, j) > Feed!LastPut(h, id)
      BY <1>5, <3>2
    <3>4. QED
      BY <3>2, <3>3 DEF Newer
  <2>3. IsFiniteSet(Newer(h, id))
    <3>1. Newer(h, id) \in SUBSET Feed!IdsOf(h)
      BY DEF Newer
    <3>2. QED
      BY <1>1, <3>1, FS_Subset
  <2>4. Cardinality(StoredIds(c)) <= Cardinality(Newer(h, id)) /\ Cardinality(Newer(h, id)) \in Nat
    BY <2>2, <2>3, FS_Subset, FS_CardinalityType
  <2>5. Cardinality(StoredIds(c)) = MaxEntries
    BY <2>1, StoredCount
  <2>6. QED
    BY <1>2, <2>4, <2>5
<1>9. Feed!Held(h) \subseteq Feed!IdsOf(h)
  BY DEF Feed!Held
<1>10. QED
  BY <1>4, <1>6, <1>7, <1>8, <1>9

-----------------------------------------------------------------------------
(* The history does not steer the cache. *)
LEMMA HistoryIsExtra == HSpec => Spec
<1>1. HInit => Init
  BY DEF HInit
<1>2. [HNext]_<< vars, hist >> => [Next]_vars
  BY DEF HNext, HPut, Next, vars
<1>3. QED
  BY <1>1, <1>2, PTL DEF HSpec, Spec

HistoryHolds == HistInv(cache, hist)

(* HistInv is inductive. *)
LEMMA HistoryStaysTrue == HSpec => []HistoryHolds
<1>1. HInit => HistoryHolds
  BY HistInitially DEF HInit, Init, HistoryHolds
<1>2. HistoryHolds /\ TypeOK /\ Bounded /\ [HNext]_<< vars, hist >> => HistoryHolds'
  <2> SUFFICES ASSUME HistoryHolds, TypeOK, Bounded, [HNext]_<< vars, hist >>
               PROVE  HistoryHolds'
    OBVIOUS
  <2>1. ASSUME NEW e \in Event, HPut(e) PROVE HistoryHolds'
    BY <2>1, HistStep DEF HPut, Put, HistoryHolds, TypeOK, Bounded
  <2>2. ASSUME NEW p, NEW since, NEW limit, GetRecent(p, since, limit), UNCHANGED hist
        PROVE  HistoryHolds'
    BY <2>2 DEF GetRecent, HistoryHolds
  <2>3. CASE Clear /\ hist' = << >>
    BY <2>3, HistInitially DEF Clear, HistoryHolds
  <2>4. CASE UNCHANGED << vars, hist >>
    BY <2>4 DEF vars, HistoryHolds
  <2>5. QED
    BY <2>1, <2>2, <2>3, <2>4 DEF HNext
<1>3. QED
  BY <1>1, <1>2, HistoryIsExtra, TypeAndBound, PTL DEF HSpec

(* For every capacity and every sequence of puts and clears, the store is  *)
(* exactly what the history of the puts says: the ids put last, as many as *)
(* there is room for, each with its last version, least recent first.      *)
THEOREM StoreIsHistory == HSpec => []StoreIsRecentHistory
<1>1. HistoryHolds /\ TypeOK /\ Bounded => StoreIsRecentHistory
  BY StoredAreHeld
     DEF HistoryHolds, HistInv, ShownIsLast, LeastRecentFirst, TypeOK, Bounded, StoreIsRecentHistory
<1>2. QED
  BY <1>1, HistoryStaysTrue, HistoryIsExtra, TypeAndBound, PTL

-----------------------------------------------------------------------------
\* The event that get_recent returns for the k-th id of a project's list.
Hit(c, pid, k) == EventOf(c, ListOf(c, pid)[k])

(* With an exact index, what get_recent does not skip are stored events of *)
(* the project, one place for each.                                        *)
LEMMA HitProperties ==
  ASSUME NEW c, IsCache(c), IsBounded(c), IsIndexed(c), NEW pid \in Project, NEW since,
         NEW k \in Hits(c, pid, since)
  PROVE  /\ Occurs(c.store, Hit(c, pid, k))
         /\ Hit(c, pid, k).id = ListOf(c, pid)[k]
         /\ Hit(c, pid, k).project = pid
         /\ Hit(c, pid, k).at >= since
         /\ k \in 1..Len(ListOf(c, pid))
         /\ \A l \in Hits(c, pid, since) : Hit(c, pid, l) = Hit(c, pid, k) => l = k
<1> DEFINE L == ListOf(c, pid)
<1>1. \A l \in Hits(c, pid, since) :
        l \in 1..Len(L) /\ L[l] \in StoredIds(c) /\ Hit(c, pid, l).at >= since
  BY DEF Hits, Hit
<1>2. \A l \in Hits(c, pid, since) : Hit(c, pid, l).id = L[l]
  BY <1>1, EventOfType DEF Hit
<1>3. Occurs(c.store, Hit(c, pid, k)) /\ L[k] \in EventId
  BY <1>1, EventOfType DEF Hit
<1>4. Occurs(L, L[k])
  BY <1>1 DEF Occurs
<1>5. PICK i \in 1..Len(c.store) : c.store[i].id = L[k] /\ c.store[i].project = pid
  BY <1>3, <1>4 DEF IsIndexed
<1>6. Hit(c, pid, k) = c.store[i]
  <2>1. Occurs(c.store, c.store[i])
    BY <1>5 DEF Occurs
  <2>2. QED
    BY <1>5, <2>1, EventOfStored DEF Hit
<1>7. NoRepeats(L)
  <2>1. Len(<< >>) = 0
    BY EmptySeq
  <2>2. QED
    BY <2>1 DEF IsIndexed, ListOf, NoRepeats
<1> HIDE DEF L
<1>8. ASSUME NEW l \in Hits(c, pid, since), Hit(c, pid, l) = Hit(c, pid, k)
      PROVE  l = k
  <2>1. l \in 1..Len(L) /\ k \in 1..Len(L) /\ L[l] = L[k]
    BY <1>1, <1>2, <1>8
  <2>2. QED
    BY <1>7, <2>1 DEF NoRepeats
<1>9. QED
  BY <1>1, <1>2, <1>3, <1>5, <1>6, <1>8 DEF L

(* And every such event has a place among the hits. *)
LEMMA EveryEventHit ==
  ASSUME NEW c, IsCache(c), IsBounded(c), IsIndexed(c), NEW pid \in Project, NEW since,
         NEW x, Occurs(c.store, x), x.project = pid, x.at >= since
  PROVE  \E k \in Hits(c, pid, since) : Hit(c, pid, k) = x
<1>1. x.id \in StoredIds(c) /\ EventOf(c, x.id) = x
  BY EventOfStored
<1>2. x.id \in EventId
  BY <1>1, EventOfType
<1>3. Occurs(ListOf(c, pid), x.id)
  BY <1>2 DEF IsIndexed, Occurs
<1>4. PICK k \in 1..Len(ListOf(c, pid)) : ListOf(c, pid)[k] = x.id
  BY <1>3 DEF Occurs
<1>5. k \in Hits(c, pid, since) /\ Hit(c, pid, k) = x
  BY <1>1, <1>4 DEF Hits, Hit
<1>6. QED
  BY <1>5

(* get_recent returns the events of the last hits, latest arrival first,   *)
(* as many as the limit allows.                                            *)
LEMMA RecentProperties ==
  ASSUME NEW c, IsCache(c), NEW pid, NEW since, NEW limit \in Nat \ {0},
         NEW hits, hits = Hits(c, pid, since),
         NEW m, m = Min({limit, Cardinality(hits)})
  PROVE  /\ IsFiniteSet(hits) /\ m \in Nat /\ m <= limit
         /\ Len(Recent(c, pid, since, limit)) = m
         /\ Recent(c, pid, since, limit) = [n \in 1..m |-> Hit(c, pid, NthLast(hits, n))]
         /\ \A n \in 1..m : NthLast(hits, n) \in hits
         /\ \A i, j \in 1..m : i < j => NthLast(hits, j) < NthLast(hits, i)
         /\ \A k \in hits : \/ \E n \in 1..m : k = NthLast(hits, n)
                            \/ \A n \in 1..m : k < NthLast(hits, n)
<1> DEFINE card == Cardinality(hits)
<1>1. Len(ListOf(c, pid)) \in Nat /\ hits \subseteq 1..Len(ListOf(c, pid))
  <2>1. Len(ListOf(c, pid)) \in Nat
    BY ListOfType, LenProperties
  <2>2. QED
    BY <2>1 DEF Hits
<1>2. /\ IsFiniteSet(hits) /\ card \in Nat
      /\ \A n \in 1..card : NthLast(hits, n) \in hits
      /\ \A i, j \in 1..card : i < j => NthLast(hits, j) < NthLast(hits, i)
      /\ \A k \in hits : \E n \in 1..card : NthLast(hits, n) = k
  BY <1>1, NthLastProperties
<1>3. /\ Max({limit, 1}) = limit /\ Min({card, limit}) = m
      /\ m = IF limit <= card THEN limit ELSE card
  <2>1. Max({limit, 1}) = limit
    BY SmallerOf
  <2>2. Min({limit, card}) = IF limit <= card THEN limit ELSE card
    BY <1>2, SmallerOf
  <2>3. {card, limit} = {limit, card} /\ m = Min({limit, card})
    OBVIOUS
  <2> HIDE DEF card
  <2>4. QED
    BY <2>1, <2>2, <2>3
<1>4. m \in Nat /\ m <= limit /\ m <= card
  BY <1>2, <1>3
<1>5. Recent(c, pid, since, limit) = [n \in 1..m |-> Hit(c, pid, NthLast(hits, n))]
  BY <1>3 DEF Recent, Hit
<1> HIDE DEF card
<1>6. Len(Recent(c, pid, since, limit)) = m
  BY <1>4, <1>5
<1>7. ASSUME NEW k \in hits
      PROVE  \/ \E n \in 1..m : k = NthLast(hits, n)
             \/ \A n \in 1..m : k < NthLast(hits, n)
  <2>1. PICK l \in 1..card : NthLast(hits, l) = k
    BY <1>2
  <2>2. CASE l <= m
    BY <1>2, <1>4, <2>1, <2>2
  <2>3. CASE m < l
    <3>1. \A n \in 1..m : n \in 1..card /\ n < l
      BY <1>2, <1>4, <2>1, <2>3
    <3>2. QED
      BY <1>2, <2>1, <3>1
  <2>4. QED
    BY <1>2, <1>4, <2>1, <2>2, <2>3
<1>8. \A n \in 1..m : n \in 1..card
  BY <1>2, <1>4
<1>9. QED
  BY <1>2, <1>4, <1>5, <1>6, <1>7, <1>8

-----------------------------------------------------------------------------
(* A query is answered with events of its project that are not older than  *)
(* its `since`, whatever is put, bumped and evicted before it.             *)
THEOREM AnswersAreRight ==
  ASSUME StableProject
  PROVE  Spec => []AnswersMatchQuery
<1>1. Init => AnswersMatchQuery
  <2>1. Len(<< >>) = 0
    BY EmptySeq
  <2>2. QED
    BY <2>1 DEF Init, AnswersMatchQuery
<1>2. AnswersMatchQuery /\ TypeOK /\ Bounded /\ IndexExact /\ [Next]_vars => AnswersMatchQuery'
  <2> SUFFICES ASSUME AnswersMatchQuery, TypeOK, Bounded, IndexExact, [Next]_vars
               PROVE  AnswersMatchQuery'
    OBVIOUS
  <2>1. ASSUME NEW pid \in Project, NEW since \in Stamp, NEW limit \in Limit,
               GetRecent(pid, since, limit)
        PROVE  AnswersMatchQuery'
    <3>1. limit \in Nat \ {0}
      BY LimitAssumption
    <3>2. PICK hits, m : hits = Hits(cache, pid, since) /\ m = Min({limit, Cardinality(hits)})
      OBVIOUS
    <3>3. /\ Len(Recent(cache, pid, since, limit)) = m
          /\ Recent(cache, pid, since, limit) = [n \in 1..m |-> Hit(cache, pid, NthLast(hits, n))]
          /\ \A n \in 1..m : NthLast(hits, n) \in hits
      BY <3>1, <3>2, RecentProperties DEF TypeOK
    <3>4. ASSUME NEW i \in 1..m
          PROVE  LET x == Recent(cache, pid, since, limit)[i]
                 IN  x.project = pid /\ x.at >= since
      <4>1. PICK k \in Hits(cache, pid, since) : k = NthLast(hits, i)
        BY <3>2, <3>3
      <4>2. Recent(cache, pid, since, limit)[i] = Hit(cache, pid, k)
        BY <3>3, <4>1
      <4>3. QED
        BY <4>2, HitProperties DEF TypeOK, Bounded, IndexExact
    <3>5. /\ answer'.project = pid /\ answer'.since = since
          /\ answer'.events = Recent(cache, pid, since, limit)
      BY <2>1 DEF GetRecent
    <3>6. QED
      BY <3>3, <3>4, <3>5 DEF AnswersMatchQuery
  <2>2. CASE UNCHANGED answer
    BY <2>2 DEF AnswersMatchQuery
  <2>3. QED
    BY <2>1, <2>2 DEF Next, Put, Clear, vars
<1>3. QED
  BY <1>1, <1>2, TypeAndBound, IndexStaysExact, StableProject, PTL DEF Spec

-----------------------------------------------------------------------------
\* Some put of the id a came before some put of the id b.
PutBefore(h, a, b) == \E i \in Feed!PutsOf(h, a), j \in Feed!PutsOf(h, b) : i < j

\* The index lists ids in an order in which they were put.
ListsInOrder ==
  \A p, a, b : Precedes(ListOf(cache, p), a, b) => PutBefore(hist, a, b)

(* Only ids that were put are listed. *)
LEMMA ListedWerePut ==
  ASSUME TypeOK, Bounded, IndexExact, HistoryHolds,
         NEW p, NEW id, Occurs(ListOf(cache, p), id)
  PROVE  id \in Feed!IdsOf(hist)
<1>1. ListOf(cache, p) # << >>
  BY EmptySeq DEF Occurs
<1>2. p \in Project
  BY <1>1 DEF ListOf, TypeOK, IsCache
<1>3. id \in EventId
  BY ListOfType, ElementOfSeq DEF TypeOK, Occurs
<1>4. PICK i \in 1..Len(cache.store) : cache.store[i].id = id
  BY <1>2, <1>3 DEF IndexExact, IsIndexed
<1>5. QED
  BY <1>4 DEF HistoryHolds, HistInv, ShownIsLast

(* Touches leave the lists alone, insertions append the id put last, and   *)
(* evictions only take ids out.                                            *)
LEMMA ListsStayInOrder ==
  ASSUME StableProject
  PROVE  HSpec => []ListsInOrder
<1>1. HInit => ListsInOrder
  <2>1. SUFFICES ASSUME HInit, NEW p, NEW a, NEW b, Precedes(ListOf(cache, p), a, b)
                 PROVE  FALSE
    BY DEF ListsInOrder
  <2>2. ListOf(cache, p) = << >> /\ Len(<< >>) = 0
    BY <2>1, EmptySeq DEF HInit, Init, EmptyCache, ListOf
  <2>3. QED
    BY <2>1, <2>2 DEF Precedes
<1>2. /\ ListsInOrder /\ HistoryHolds /\ TypeOK /\ Bounded /\ IndexExact
      /\ [HNext]_<< vars, hist >>
      => ListsInOrder'
  <2> SUFFICES ASSUME ListsInOrder, HistoryHolds, TypeOK, Bounded, IndexExact,
                      [HNext]_<< vars, hist >>
               PROVE  ListsInOrder'
    OBVIOUS
  <2>1. ASSUME NEW e \in Event, HPut(e) PROVE ListsInOrder'
    <3>1. cache' = PutEvent(cache, e) /\ hist' = Append(hist, e)
      BY <2>1 DEF HPut, Put
    <3>2. hist \in Seq(Event) /\ Len(hist) \in Nat
      BY LenProperties DEF HistoryHolds, HistInv
    <3>3. SUFFICES ASSUME NEW p, NEW a, NEW b, Precedes(ListOf(PutEvent(cache, e), p), a, b)
                   PROVE  PutBefore(Append(hist, e), a, b)
      BY <3>1 DEF ListsInOrder
    <3>4. \A id : Feed!PutsOf(hist, id) \subseteq Feed!PutsOf(Append(hist, e), id)
      <4>1. Feed!PutsOf(hist, e.id) \subseteq Feed!PutsOf(Append(hist, e), e.id)
        BY <3>2, AppendHistory
      <4>2. \A id : id # e.id => Feed!PutsOf(Append(hist, e), id) = Feed!PutsOf(hist, id)
        BY <3>2, AppendHistory
      <4>3. QED
        BY <4>1, <4>2
    <3>5. CASE Precedes(ListOf(cache, p), a, b)
      <4>1. PutBefore(hist, a, b)
        BY <3>5 DEF ListsInOrder
      <4>2. QED
        BY <3>4, <4>1 DEF PutBefore
    <3>6. CASE b = e.id /\ Occurs(ListOf(cache, p), a)
      <4>1. a \in Feed!IdsOf(hist)
        BY <3>6, ListedWerePut
      <4>2. PICK i \in Feed!PutsOf(hist, a) : i \in 1..Len(hist)
        BY <3>2, <4>1, LastPutProperties
      <4>3. i \in Feed!PutsOf(Append(hist, e), a)
        BY <3>4, <4>2
      <4>4. Len(hist) + 1 \in Feed!PutsOf(Append(hist, e), b)
        BY <3>2, <3>6, AppendHistory
      <4>5. i < Len(hist) + 1
        BY <3>2, <4>2
      <4>6. QED
        BY <4>3, <4>4, <4>5 DEF PutBefore
    <3>7. QED
      BY <3>3, <3>5, <3>6, PutListOrder DEF TypeOK, Bounded
  <2>2. ASSUME NEW p, NEW since, NEW limit, GetRecent(p, since, limit), UNCHANGED hist
        PROVE  ListsInOrder'
    BY <2>2 DEF GetRecent, ListsInOrder
  <2>3. CASE Clear /\ hist' = << >>
    <3>1. SUFFICES ASSUME NEW p, NEW a, NEW b, Precedes(ListOf(EmptyCache, p), a, b)
                   PROVE  FALSE
      BY <2>3 DEF ListsInOrder, Clear
    <3>2. ListOf(EmptyCache, p) = << >> /\ Len(<< >>) = 0
      BY EmptySeq DEF EmptyCache, ListOf
    <3>3. QED
      BY <3>1, <3>2 DEF Precedes
  <2>4. CASE UNCHANGED << vars, hist >>
    BY <2>4 DEF vars, ListsInOrder
  <2>5. QED
    BY <2>1, <2>2, <2>3, <2>4 DEF HNext
<1>3. QED
  BY <1>1, <1>2, HistoryStaysTrue, HistoryIsExtra, TypeAndBound, IndexStaysExact,
     StableProject, PTL DEF HSpec

-----------------------------------------------------------------------------
(* What matches a query are the stored events of its project that are not  *)
(* older than its `since`.                                                 *)
LEMMA MatchingAreStored ==
  ASSUME NEW c, IsCache(c), IsBounded(c), NEW h, HistInv(c, h), NEW pid, NEW since, NEW x
  PROVE  x \in Feed!Matching(h, pid, since)
           <=> Occurs(c.store, x) /\ x.project = pid /\ x.at >= since
<1>1. StoredIds(c) = Feed!Held(h)
  BY StoredAreHeld
<1>2. Occurs(c.store, x) <=> \E id \in StoredIds(c) : x = h[Feed!LastPut(h, id)]
  BY DEF StoredIds, Occurs, HistInv, ShownIsLast
<1>3. QED
  BY <1>1, <1>2 DEF Feed!Matching

(* With an exact index there are as many hits as events that match. *)
LEMMA MatchingCount ==
  ASSUME NEW c, IsCache(c), IsBounded(c), IsIndexed(c), NEW h, HistInv(c, h),
         NEW pid \in Project, NEW since
  PROVE  Cardinality(Feed!Matching(h, pid, since)) = Cardinality(Hits(c, pid, since))
<1> DEFINE H == Hits(c, pid, since)
           M == Feed!Matching(h, pid, since)
           f == [k \in H |-> Hit(c, pid, k)]
<1>1. IsFiniteSet(H)
  <2>1. H \in SUBSET (1..Len(ListOf(c, pid))) /\ Len(ListOf(c, pid)) \in Nat
    BY ListOfType, LenProperties DEF Hits
  <2>2. IsFiniteSet(1..Len(ListOf(c, pid)))
    BY <2>1, FS_Interval
  <2>3. QED
    BY <2>1, <2>2, FS_Subset
<1>2. \A k \in H : Hit(c, pid, k) \in M
  BY HitProperties, MatchingAreStored
<1>3. \A k, l \in H : Hit(c, pid, l) = Hit(c, pid, k) => l = k
  BY HitProperties
<1>4. \A x \in M : \E k \in H : Hit(c, pid, k) = x
  BY EveryEventHit, MatchingAreStored
<1> HIDE DEF H, M
<1>5. f \in Surjection(H, M)
  BY <1>2, <1>4 DEF Surjection
<1>6. f \in Injection(H, M)
  BY <1>2, <1>3 DEF Injection, IsInjective
<1> HIDE DEF f
<1>7. QED
  BY <1>1, <1>5, <1>6, FS_Surjection DEF H, M

(* Of two hits, the one listed later is no older than the other. *)
LEMMA LaterHitNotOlder ==
  ASSUME TypeOK, Bounded, IndexExact, HistoryHolds, ListsInOrder,
         NEW pid \in Project, NEW since,
         NEW k \in Hits(cache, pid, since), NEW l \in Hits(cache, pid, since), k < l
  PROVE  ~Feed!Older(hist, Hit(cache, pid, l), Hit(cache, pid, k))
<1> DEFINE a == Hit(cache, pid, k)
           b == Hit(cache, pid, l)
<1>1. /\ k \in 1..Len(ListOf(cache, pid)) /\ a.id = ListOf(cache, pid)[k]
      /\ l \in 1..Len(ListOf(cache, pid)) /\ b.id = ListOf(cache, pid)[l]
  BY HitProperties DEF TypeOK, Bounded, IndexExact
<1>2. Precedes(ListOf(cache, pid), a.id, b.id)
  BY <1>1 DEF Precedes
<1> HIDE DEF a, b
<1>3. PICK i \in Feed!PutsOf(hist, a.id), j \in Feed!PutsOf(hist, b.id) : i < j
  BY <1>2 DEF ListsInOrder, PutBefore
<1>4. i \in Nat /\ j \in Nat
  BY DEF Feed!PutsOf
<1>5. ~(j < i)
  BY <1>3, <1>4
<1>6. ~Feed!Older(hist, b, a)
  BY <1>3, <1>5 DEF Feed!Older
<1>7. QED
  BY <1>6 DEF a, b

(* What get_recent returns is an answer the feed allows. *)
LEMMA RecentIsAnswer ==
  ASSUME TypeOK, Bounded, IndexExact, HistoryHolds, ListsInOrder,
         NEW pid \in Project, NEW since, NEW limit \in Nat \ {0},
         NEW events, events = Recent(cache, pid, since, limit),
         NEW matching, matching = Feed!Matching(hist, pid, since)
  PROVE  events \in Feed!SeqOf(matching, limit) /\ Feed!IsAnswer(hist, events, matching, limit)
<1>1. PICK hits, m : hits = Hits(cache, pid, since) /\ m = Min({limit, Cardinality(hits)})
  OBVIOUS
<1>2. /\ m \in Nat /\ m <= limit
      /\ Len(events) = m
      /\ events = [n \in 1..m |-> Hit(cache, pid, NthLast(hits, n))]
      /\ \A n \in 1..m : NthLast(hits, n) \in hits
      /\ \A i, j \in 1..m : i < j => NthLast(hits, j) < NthLast(hits, i)
      /\ \A k \in hits : \/ \E n \in 1..m : k = NthLast(hits, n)
                         \/ \A n \in 1..m : k < NthLast(hits, n)
  BY <1>1, RecentProperties DEF TypeOK
<1>3. \A k \in hits : Hit(cache, pid, k) \in matching
  BY <1>1, HitProperties, MatchingAreStored DEF TypeOK, Bounded, IndexExact, HistoryHolds
<1>4. \A i \in 1..m : events[i] = Hit(cache, pid, NthLast(hits, i))
  BY <1>2
<1>5. events \in Feed!SeqOf(matching, limit)
  <2>1. events \in [1..m -> matching] /\ m \in 0..limit
    BY <1>2, <1>3
  <2>2. QED
    BY <2>1 DEF Feed!SeqOf
<1>6. Feed!IsInjective(events)
  <2>1. SUFFICES ASSUME NEW i \in 1..m, NEW j \in 1..m, events[i] = events[j]
                 PROVE  i = j
    BY <1>2 DEF Feed!IsInjective
  <2>2. NthLast(hits, i) = NthLast(hits, j)
    <3>1. PICK k \in hits, l \in hits : k = NthLast(hits, i) /\ l = NthLast(hits, j)
      BY <1>2
    <3>2. Hit(cache, pid, k) = Hit(cache, pid, l)
      BY <1>4, <2>1, <3>1
    <3>3. k = l
      BY <1>1, <3>2, HitProperties DEF TypeOK, Bounded, IndexExact
    <3>4. QED
      BY <3>1, <3>3
  <2>3. NthLast(hits, i) \in Nat
    BY <1>1, <1>2 DEF Hits
  <2>4. ~(i < j) /\ ~(j < i)
    BY <1>2, <2>2, <2>3
  <2>5. QED
    BY <2>4
<1>7. Len(events) = Feed!Min({limit, Feed!Cardinality(matching)})
  <2>1. Cardinality(matching) = Cardinality(hits)
    BY <1>1, MatchingCount DEF TypeOK, Bounded, IndexExact, HistoryHolds
  <2>2. Len(events) = Min({limit, Cardinality(matching)})
    BY <1>1, <1>2, <2>1
  <2>3. QED
    BY <2>2, SameOperators
<1>8. ASSUME NEW i \in 1..m, NEW j \in 1..m, i < j
      PROVE  ~Feed!Older(hist, events[i], events[j])
  BY <1>1, <1>2, <1>4, <1>8, LaterHitNotOlder
<1>9. ASSUME NEW i \in 1..m, NEW e \in matching, e \notin Feed!ToSet(events)
      PROVE  ~Feed!Older(hist, events[i], e)
  <2>1. PICK k \in hits : Hit(cache, pid, k) = e
    BY <1>1, <1>9, EveryEventHit, MatchingAreStored DEF TypeOK, Bounded, IndexExact, HistoryHolds
  <2>2. \A n \in 1..m : k # NthLast(hits, n)
    <3>1. \A n \in 1..m : events[n] \in Feed!ToSet(events)
      BY <1>2 DEF Feed!ToSet
    <3>2. QED
      BY <1>4, <1>9, <2>1, <3>1
  <2>3. k < NthLast(hits, i)
    BY <1>2, <2>2
  <2>4. QED
    BY <1>1, <1>2, <1>4, <2>1, <2>3, LaterHitNotOlder
<1>10. QED
  BY <1>2, <1>5, <1>6, <1>7, <1>8, <1>9 DEF Feed!IsAnswer

(* The cache implements the feed of recent events, for every capacity and  *)
(* every history: each put, each answer and each clear is one the feed     *)
(* allows.  Bumps, evictions and the project index never lose one of the   *)
(* most recent events, never bring an old version back, and never let an   *)
(* older event displace a newer one in an answer.                          *)
THEOREM CacheIsFeed ==
  ASSUME StableProject
  PROVE  HSpec => ImplementsFeed
<1>1. HInit => Feed!Init
  BY DEF HInit, Init, Feed!Init
<1>2. /\ TypeOK /\ Bounded /\ IndexExact /\ HistoryHolds /\ ListsInOrder
      /\ [HNext]_<< vars, hist >>
      => [Feed!Next]_Feed!vars
  <2> SUFFICES ASSUME TypeOK, Bounded, IndexExact, HistoryHolds, ListsInOrder,
                      [HNext]_<< vars, hist >>
               PROVE  [Feed!Next]_Feed!vars
    OBVIOUS
  <2>1. ASSUME NEW e \in Event, HPut(e) PROVE Feed!Next
    BY <2>1 DEF HPut, Put, Feed!Put, Feed!Next
  <2>2. ASSUME NEW pid \in Project, NEW since \in Stamp, NEW limit \in Limit,
               GetRecent(pid, since, limit), UNCHANGED hist
        PROVE  Feed!Next
    <3>1. limit \in Nat \ {0}
      BY LimitAssumption
    <3>2. PICK events : events = Recent(cache, pid, since, limit)
      OBVIOUS
    <3>3. PICK matching : matching = Feed!Matching(hist, pid, since)
      OBVIOUS
    <3>4. events \in Feed!SeqOf(matching, limit) /\ Feed!IsAnswer(hist, events, matching, limit)
      BY <3>1, <3>2, <3>3, RecentIsAnswer
    <3>5. answer' = [project |-> pid, since |-> since, limit |-> limit, events |-> events]
      BY <2>2, <3>2 DEF GetRecent
    <3>6. Feed!Read(pid, since, limit)
      BY <2>2, <3>3, <3>4, <3>5 DEF Feed!Read
    <3>7. QED
      BY <3>6 DEF Feed!Next
  <2>3. CASE Clear /\ hist' = << >>
    BY <2>3 DEF Clear, Feed!Clear, Feed!Next
  <2>4. CASE UNCHANGED << vars, hist >>
    BY <2>4 DEF vars, Feed!vars
  <2>5. QED
    BY <2>1, <2>2, <2>3, <2>4 DEF HNext
<1>3. QED
  BY <1>1, <1>2, HistoryIsExtra, TypeAndBound, IndexStaysExact, HistoryStaysTrue,
     ListsStayInOrder, StableProject, PTL DEF HSpec, ImplementsFeed, Feed!Spec
=============================================================================
