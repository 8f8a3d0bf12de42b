---------------------------- MODULE CacheOpsProofs ----------------------------
(***************************************************************************)
(* Lemmas about the cache operations, for every set of events and every    *)
(* capacity.  EventsCacheProofs and ReplayConsumerProofs rest on           *)
(* PutProperties, PutShows, PutOrder and PutListOrder: what a put keeps,   *)
(* what it shows afterwards, and in which order.                           *)
(***************************************************************************)
EXTENDS CacheOps, SequenceTheorems, WellFoundedInduction, TLAPS

(* A non-empty set of natural numbers has a least element, so the first    *)
(* position of an id in a list (SelectInSeq, list.remove in the code)      *)
(* exists whenever the id occurs.                                          *)
LEMMA MinOfNats ==
  ASSUME NEW T, T \subseteq Nat, T # {}
  PROVE  Min(T) \in T /\ \A y \in T : Min(T) <= y
<1> DEFINE R == {ss \in Nat \X Nat : ss[1] < ss[2]}
<1>1. R = OpToRel(<, Nat)
  BY DEF OpToRel
<1>2. IsWellFoundedOn(R, Nat)
  BY <1>1, NatLessThanWellFounded, Zenon
<1> HIDE DEF R
<1>3. PICK x \in T : \A y \in T : ~(<<y, x>> \in R)
  BY <1>2, WFMin, Zenon
<1>4. \A y \in T : x <= y
  <2>1. SUFFICES ASSUME NEW y \in T, y < x PROVE FALSE
    OBVIOUS
  <2>2. <<y, x>> \in R
    BY <2>1 DEF R
  <2>3. QED
    BY <1>3, <2>2, Zenon
<1>5. QED
  BY <1>3, <1>4 DEF Min

(* RemoveAt closes the gap: what was behind position i moves up by one.    *)
LEMMA RemoveAtProperties ==
  ASSUME NEW S, NEW s \in Seq(S), NEW i \in 1..Len(s)
  PROVE  /\ RemoveAt(s, i) \in Seq(S)
         /\ Len(RemoveAt(s, i)) = Len(s) - 1
         /\ \A j \in 1..(Len(s) - 1) :
               RemoveAt(s, i)[j] = IF j < i THEN s[j] ELSE s[j + 1]
<1> DEFINE front == SubSeq(s, 1, i - 1)
           back  == SubSeq(s, i + 1, Len(s))
<1>1. /\ front \in Seq(S)
      /\ Len(front) = i - 1
      /\ \A j \in 1..(i - 1) : front[j] = s[j]
  BY SubSeqProperties, ElementOfSeq, LenProperties
<1>2. /\ back \in Seq(S)
      /\ Len(back) = Len(s) - i
      /\ \A j \in 1..(Len(s) - i) : back[j] = s[j + i]
  BY SubSeqProperties, ElementOfSeq, LenProperties
<1>3. RemoveAt(s, i) = front \o back
  BY DEF RemoveAt
<1> HIDE DEF front, back
<1>4. QED
  <2>1. Len(s) \in Nat
    BY LenProperties
  <2>2. /\ front \o back \in Seq(S)
        /\ Len(front \o back) = Len(s) - 1
    BY <1>1, <1>2, <2>1, ConcatProperties
  <2>3. ASSUME NEW j \in 1..(Len(s) - 1)
        PROVE  (front \o back)[j] = IF j < i THEN s[j] ELSE s[j + 1]
    <3>1. (front \o back)[j] = IF j <= Len(front) THEN front[j] ELSE back[j - Len(front)]
      BY <1>1, <1>2, <2>1, ConcatProperties
    <3>2. CASE j < i
      BY <1>1, <2>1, <3>1, <3>2
    <3>3. CASE ~(j < i)
      <4>1. j - (i - 1) \in 1..(Len(s) - i) /\ (j - (i - 1)) + i = j + 1
        BY <2>1, <3>3
      <4>2. back[j - (i - 1)] = s[j + 1]
        BY <1>2, <4>1
      <4>3. QED
        BY <1>1, <3>1, <3>3, <4>2, <2>1
    <3>4. QED
      BY <3>2, <3>3
  <2>4. QED
    BY <1>3, <2>2, <2>3

(* RemoveFirst keeps every other entry, and takes away the last trace of x *)
(* from a list without repetitions.                                        *)
LEMMA RemoveFirstProperties ==
  ASSUME NEW S, NEW s \in Seq(S), NEW x
  PROVE  /\ RemoveFirst(s, x) \in Seq(S)
         /\ \A y : y # x => (Occurs(RemoveFirst(s, x), y) <=> Occurs(s, y))
         /\ NoRepeats(s) => /\ NoRepeats(RemoveFirst(s, x))
                            /\ ~Occurs(RemoveFirst(s, x), x)
<1>0. Len(s) \in Nat
  BY LenProperties
<1>1. CASE ~Occurs(s, x)
  <2>1. RemoveFirst(s, x) = s
    BY <1>1 DEF RemoveFirst, Occurs
  <2>2. QED
    BY <1>1, <2>1
<1>2. CASE Occurs(s, x)
  <2> DEFINE I == {k \in 1..Len(s) : s[k] = x}
             i == Min(I)
             r == RemoveAt(s, i)
  <2>1. I # {} /\ I \subseteq Nat
    BY <1>0, <1>2 DEF Occurs
  <2>2. i \in I /\ \A k \in I : i <= k
    BY <2>1, MinOfNats
  <2>3. RemoveFirst(s, x) = r
    <3>1. SelectInSeq(s, LAMBDA v : v = x) = i
      BY <2>1 DEF SelectInSeq
    <3>2. QED
      BY <1>2, <3>1 DEF RemoveFirst, Occurs
  <2>4. i \in 1..Len(s) /\ s[i] = x
    BY <2>2
  <2> HIDE DEF I, i
  <2>5. /\ r \in Seq(S)
        /\ Len(r) = Len(s) - 1
        /\ \A j \in 1..(Len(s) - 1) : r[j] = IF j < i THEN s[j] ELSE s[j + 1]
    BY <2>4, RemoveAtProperties
  <2> HIDE DEF r
  <2>6. ASSUME NEW y, y # x
        PROVE  Occurs(r, y) <=> Occurs(s, y)
    <3>1. ASSUME Occurs(r, y) PROVE Occurs(s, y)
      BY <1>0, <2>4, <2>5, <3>1 DEF Occurs
    <3>2. ASSUME Occurs(s, y) PROVE Occurs(r, y)
      <4>1. PICK k \in 1..Len(s) : s[k] = y
        BY <3>2 DEF Occurs
      <4>2. k # i
        BY <2>4, <2>6, <4>1
      <4>3. CASE k < i
        <5>1. k \in 1..Len(r) /\ r[k] = y
          BY <1>0, <2>4, <2>5, <4>1, <4>3
        <5>2. QED
          BY <5>1 DEF Occurs
      <4>4. CASE k > i
        <5>1. k - 1 \in 1..Len(r) /\ ~(k - 1 < i) /\ (k - 1) + 1 = k
          BY <1>0, <2>4, <2>5, <4>4
        <5>2. r[k - 1] = y
          BY <2>5, <4>1, <5>1
        <5>3. QED
          BY <5>1, <5>2 DEF Occurs
      <4>5. QED
        BY <1>0, <2>4, <4>2, <4>3, <4>4
    <3>3. QED
      BY <3>1, <3>2
  <2>7. ASSUME NoRepeats(s)
        PROVE  NoRepeats(r) /\ ~Occurs(r, x)
    <3>1. NoRepeats(r)
      BY <1>0, <2>4, <2>5, <2>7 DEF NoRepeats
    <3>2. ASSUME NEW k \in 1..Len(r), r[k] = x
          PROVE  FALSE
      <4>1. CASE k < i
        BY <1>0, <2>4, <2>5, <2>7, <3>2, <4>1 DEF NoRepeats
      <4>2. CASE ~(k < i)
        <5>1. k + 1 \in 1..Len(s) /\ s[k + 1] = x /\ k + 1 # i
          BY <1>0, <2>4, <2>5, <3>2, <4>2
        <5>2. QED
          BY <2>4, <2>7, <5>1 DEF NoRepeats
      <4>3. QED
        BY <4>1, <4>2
    <3>3. QED
      BY <3>1, <3>2 DEF Occurs
  <2>8. QED
    BY <2>3, <2>5, <2>6, <2>7
<1>3. QED
  BY <1>1, <1>2

(* Appending an id adds exactly that id. *)
LEMMA AppendOccurs ==
  ASSUME NEW S, NEW s \in Seq(S), NEW x \in S
  PROVE  /\ \A y : Occurs(Append(s, x), y) <=> (Occurs(s, y) \/ y = x)
         /\ NoRepeats(s) /\ ~Occurs(s, x) => NoRepeats(Append(s, x))
<1> DEFINE t == Append(s, x)
<1>1. /\ Len(s) \in Nat
      /\ Len(t) = Len(s) + 1
      /\ \A i \in 1..Len(s) : t[i] = s[i]
      /\ t[Len(s) + 1] = x
  BY AppendProperties, LenProperties
<1> HIDE DEF t
<1>2. ASSUME NEW y
      PROVE  Occurs(t, y) <=> (Occurs(s, y) \/ y = x)
  <2>1. ASSUME Occurs(t, y) PROVE Occurs(s, y) \/ y = x
    BY <1>1, <2>1 DEF Occurs
  <2>2. ASSUME Occurs(s, y) PROVE Occurs(t, y)
    BY <1>1, <2>2 DEF Occurs
  <2>3. Occurs(t, x)
    <3>1. Len(s) + 1 \in 1..Len(t)
      BY <1>1
    <3>2. QED
      BY <1>1, <3>1 DEF Occurs
  <2>4. QED
    BY <2>1, <2>2, <2>3
<1>3. ASSUME NoRepeats(s), ~Occurs(s, x)
      PROVE  NoRepeats(t)
  BY <1>1, <1>3 DEF NoRepeats, Occurs
<1>4. QED
  BY <1>2, <1>3 DEF t

-----------------------------------------------------------------------------
(* Replacing one list of the index leaves the others alone, and makes a    *)
(* project with an empty list disappear.                                   *)
LEMMA SetListProperties ==
  ASSUME NEW c, IsCache(c), NEW p \in Project, NEW l \in Seq(EventId),
         NEW n, n.byProject = SetList(c.byProject, p, l)
  PROVE  /\ DOMAIN n.byProject \subseteq Project
         /\ \A q \in DOMAIN n.byProject : n.byProject[q] \in Seq(EventId)
         /\ ListOf(n, p) = l
         /\ \A q : q # p => ListOf(n, q) = ListOf(c, q)
         /\ (\A q \in DOMAIN c.byProject : c.byProject[q] # << >>)
               => \A q \in DOMAIN n.byProject : n.byProject[q] # << >>
BY DEF SetList, ListOf, IsCache

(* Every project has a list of ids, though it may be empty. *)
LEMMA ListOfType ==
  ASSUME NEW c, IsCache(c), NEW p
  PROVE  ListOf(c, p) \in Seq(EventId)
BY EmptySeq DEF ListOf, IsCache

(* A stored id has a position, and it is the only one. *)
LEMMA PositionProperties ==
  ASSUME NEW c, IsCache(c), NEW id \in StoredIds(c)
  PROVE  PositionOf(c, id) \in 1..Len(c.store) /\ c.store[PositionOf(c, id)].id = id
BY DEF PositionOf, StoredIds

(* An event names an id and a project. *)
LEMMA EventFields ==
  ASSUME NEW e \in Event
  PROVE  e.id \in EventId /\ e.project \in Project
BY EventAssumption

\* c stores an event with this id and this project.
Holds(c, id, p) == \E i \in 1..Len(c.store) : c.store[i].id = id /\ c.store[i].project = p

(* A bump moves one event to the recent end: the cache keeps its size and  *)
(* its ids, and the index is not touched.                                  *)
LEMMA TouchProperties ==
  ASSUME NEW c, IsCache(c), IsBounded(c), NEW e \in Event, e.id \in StoredIds(c)
  PROVE  /\ IsCache(Touch(c, e))
         /\ IsBounded(Touch(c, e))
         /\ Touch(c, e).byProject = c.byProject
         /\ StoredIds(Touch(c, e)) = StoredIds(c)
         /\ StableProject => \A id, p : Holds(Touch(c, e), id, p) <=> Holds(c, id, p)
<1> DEFINE s == c.store
           i == PositionOf(c, e.id)
           r == RemoveAt(s, i)
           t == Append(r, e)
<1>1. s \in Seq(Event) /\ i \in 1..Len(s) /\ s[i].id = e.id /\ Len(s) \in Nat
  BY PositionProperties, LenProperties DEF IsCache
<1>2. Touch(c, e) = [store |-> t, byProject |-> c.byProject]
  <2>1. c = [store |-> c.store, byProject |-> c.byProject]
    BY DEF IsCache
  <2>2. QED
    BY <2>1 DEF Touch
<1> HIDE DEF i
<1>3. /\ r \in Seq(Event)
      /\ Len(r) = Len(s) - 1
      /\ \A j \in 1..(Len(s) - 1) : r[j] = IF j < i THEN s[j] ELSE s[j + 1]
  BY <1>1, RemoveAtProperties
<1> HIDE DEF r
<1>4. /\ t \in Seq(Event)
      /\ Len(t) = Len(s)
      /\ \A j \in 1..(Len(s) - 1) : t[j] = IF j < i THEN s[j] ELSE s[j + 1]
      /\ t[Len(s)] = e
  <2>1. /\ t \in Seq(Event)
        /\ Len(t) = Len(r) + 1
        /\ \A j \in 1..Len(r) : t[j] = r[j]
        /\ t[Len(r) + 1] = e
    BY <1>3, AppendProperties
  <2>2. QED
    BY <1>1, <1>3, <2>1
<1> HIDE DEF t
<1>6. Len(s) <= MaxEntries /\ \A k, l \in 1..Len(s) : s[k].id = s[l].id => k = l
  BY DEF IsBounded
\* Where the entries of t come from: entry j of t carries the id of entry g[j] of s.
<1> DEFINE g == [j \in 1..Len(s) |-> IF j = Len(s) THEN i ELSE IF j < i THEN j ELSE j + 1]
<1>7. /\ \A j \in 1..Len(s) : g[j] \in 1..Len(s)
      /\ \A j, k \in 1..Len(s) : g[j] = g[k] => j = k
      /\ \A k \in 1..Len(s) : \E j \in 1..Len(s) : g[j] = k
  <2>1. \A j \in 1..Len(s) : g[j] \in 1..Len(s)
    BY <1>1
  <2>2. \A j, k \in 1..Len(s) : g[j] = g[k] => j = k
    BY <1>1
  <2>3. ASSUME NEW k \in 1..Len(s)
        PROVE  \E j \in 1..Len(s) : g[j] = k
    <3>1. CASE k < i
      <4>1. k \in 1..Len(s) /\ g[k] = k
        BY <1>1, <3>1
      <4>2. QED
        BY <4>1
    <3>2. CASE k = i
      <4>1. Len(s) \in 1..Len(s) /\ g[Len(s)] = k
        BY <1>1, <3>2
      <4>2. QED
        BY <4>1
    <3>3. CASE k > i
      <4>1. k - 1 \in 1..Len(s) /\ g[k - 1] = k
        BY <1>1, <3>3
      <4>2. QED
        BY <4>1
    <3>4. QED
      BY <1>1, <3>1, <3>2, <3>3
  <2>4. QED
    BY <2>1, <2>2, <2>3
<1>8. ASSUME NEW j \in 1..Len(s)
      PROVE  t[j] = IF j = Len(s) THEN e ELSE s[g[j]]
  <2>1. CASE j = Len(s)
    BY <1>4, <2>1
  <2>2. CASE j # Len(s)
    <3>1. j \in 1..(Len(s) - 1)
      BY <1>1, <2>2
    <3>2. t[j] = IF j < i THEN s[j] ELSE s[j + 1]
      BY <1>4, <3>1
    <3>3. g[j] = IF j < i THEN j ELSE j + 1
      BY <2>2
    <3>4. QED
      BY <2>2, <3>2, <3>3
  <2>3. QED
    BY <2>1, <2>2
<1>9. g[Len(s)] = i /\ Len(s) \in 1..Len(s)
  BY <1>1
<1> HIDE DEF g, s
<1>10. \A j \in 1..Len(s) : t[j].id = s[g[j]].id
  BY <1>1, <1>8, <1>9
<1>11. ASSUME NEW k \in 1..Len(t), NEW l \in 1..Len(t), t[k].id = t[l].id
       PROVE  k = l
  <2>1. k \in 1..Len(s) /\ l \in 1..Len(s)
    BY <1>4
  <2>2. s[g[k]].id = s[g[l]].id
    BY <1>10, <1>11, <2>1
  <2>3. g[k] = g[l]
    <3>1. g[k] \in 1..Len(s) /\ g[l] \in 1..Len(s)
      BY <1>7, <2>1
    <3>2. QED
      BY <1>6, <2>2, <3>1, Zenon
  <2>4. QED
    BY <1>7, <2>1, <2>3
<1>12. StoredIds(Touch(c, e)) = StoredIds(c)
  <2>1. StoredIds(Touch(c, e)) = {t[j].id : j \in 1..Len(s)}
    BY <1>2, <1>4 DEF StoredIds
  <2>2. StoredIds(c) = {s[k].id : k \in 1..Len(s)}
    BY DEF StoredIds, s
  <2>3. ASSUME NEW j \in 1..Len(s) PROVE t[j].id \in {s[k].id : k \in 1..Len(s)}
    BY <1>7, <1>10
  <2>4. ASSUME NEW k \in 1..Len(s) PROVE s[k].id \in {t[j].id : j \in 1..Len(s)}
    <3>1. PICK j \in 1..Len(s) : g[j] = k
      BY <1>7
    <3>2. QED
      BY <1>10, <3>1
  <2>5. QED
    BY <2>1, <2>2, <2>3, <2>4
<1>13. ASSUME StableProject, NEW id, NEW p
       PROVE  Holds(Touch(c, e), id, p) <=> Holds(c, id, p)
  <2>1. s[i].project = e.project
    BY <1>1, <1>13, ElementOfSeq DEF StableProject
  <2>2. \A j \in 1..Len(s) : t[j].project = s[g[j]].project
    BY <1>8, <1>9, <2>1
  <2>3. Holds(Touch(c, e), id, p)
          <=> \E j \in 1..Len(s) : t[j].id = id /\ t[j].project = p
    BY <1>2, <1>4 DEF Holds
  <2>4. Holds(c, id, p) <=> \E k \in 1..Len(s) : s[k].id = id /\ s[k].project = p
    BY DEF Holds, s
  <2>5. ASSUME NEW j \in 1..Len(s), t[j].id = id, t[j].project = p
        PROVE  \E k \in 1..Len(s) : s[k].id = id /\ s[k].project = p
    <3>1. g[j] \in 1..Len(s) /\ s[g[j]].id = id /\ s[g[j]].project = p
      BY <1>7, <1>10, <2>2, <2>5
    <3>2. QED
      BY <3>1
  <2>6. ASSUME NEW k \in 1..Len(s), s[k].id = id, s[k].project = p
        PROVE  \E j \in 1..Len(s) : t[j].id = id /\ t[j].project = p
    <3>1. PICK j \in 1..Len(s) : g[j] = k
      BY <1>7
    <3>2. t[j].id = id /\ t[j].project = p
      BY <1>10, <2>2, <2>6, <3>1
    <3>3. QED
      BY <3>2
  <2>7. QED
    BY <2>3, <2>4, <2>5, <2>6
<1>14. QED
  BY <1>2, <1>4, <1>6, <1>11, <1>12, <1>13 DEF IsCache, IsBounded, s

(* An insertion appends the event and lists its id under its project. *)
LEMMA InsertProperties ==
  ASSUME NEW c, IsCache(c), IsBounded(c), NEW e \in Event, e.id \notin StoredIds(c)
  PROVE  LET n == Insert(c, e)
         IN  /\ IsCache(n)
             /\ n.store = Append(c.store, e)
             /\ Len(n.store) = Len(c.store) + 1
             /\ \A i, j \in 1..Len(n.store) : n.store[i].id = n.store[j].id => i = j
             /\ IsIndexed(c) /\ StableProject => IsIndexed(n)
             /\ IsReachable(c) => IsReachable(n)
<1> DEFINE n == Insert(c, e)
           s == c.store
           t == n.store
           l == Append(ListOf(c, e.project), e.id)
<1>1. s \in Seq(Event) /\ Len(s) \in Nat
  BY LenProperties DEF IsCache
<1>2. t = Append(s, e) /\ n.byProject = SetList(c.byProject, e.project, l)
      /\ n = [store |-> t, byProject |-> n.byProject]
  BY DEF Insert
<1>3. /\ t \in Seq(Event)
      /\ Len(t) = Len(s) + 1
      /\ \A i \in 1..Len(s) : t[i] = s[i]
      /\ t[Len(s) + 1] = e
  BY <1>1, <1>2, AppendProperties
<1>4. e.id \in EventId /\ e.project \in Project
  BY EventFields
<1>5. ListOf(c, e.project) \in Seq(EventId) /\ l \in Seq(EventId) /\ l # << >>
  BY <1>4, ListOfType, AppendProperties
<1>6. /\ DOMAIN n.byProject \subseteq Project
      /\ \A q \in DOMAIN n.byProject : n.byProject[q] \in Seq(EventId)
      /\ ListOf(n, e.project) = l
      /\ \A q : q # e.project => ListOf(n, q) = ListOf(c, q)
      /\ (\A q \in DOMAIN c.byProject : c.byProject[q] # << >>)
            => \A q \in DOMAIN n.byProject : n.byProject[q] # << >>
  <2>1. n.byProject = SetList(c.byProject, e.project, l)
    BY DEF Insert
  <2> HIDE DEF n, t, l
  <2>2. QED
    BY <1>4, <1>5, <2>1, SetListProperties
<1>7. \A i \in 1..Len(s) : s[i].id # e.id
  BY DEF StoredIds
<1>8. \A y : Occurs(l, y) <=> (Occurs(ListOf(c, e.project), y) \/ y = e.id)
  BY <1>4, <1>5, AppendOccurs
<1> HIDE DEF n, t, l, s
<1>9. ASSUME NEW i \in 1..Len(t), NEW j \in 1..Len(t), t[i].id = t[j].id
      PROVE  i = j
  <2>1. \A k \in 1..Len(t) : k = Len(s) + 1 \/ k \in 1..Len(s)
    BY <1>1, <1>3
  <2>2. \A k, m \in 1..Len(s) : s[k].id = s[m].id => k = m
    BY DEF IsBounded, s
  <2>3. CASE i \in 1..Len(s) /\ j \in 1..Len(s)
    BY <1>3, <1>9, <2>2, <2>3, Zenon
  <2>4. CASE i = Len(s) + 1 /\ j \in 1..Len(s)
    BY <1>3, <1>7, <1>9, <2>4, Zenon
  <2>5. CASE j = Len(s) + 1 /\ i \in 1..Len(s)
    BY <1>3, <1>7, <1>9, <2>5, Zenon
  <2>6. QED
    BY <2>1, <2>3, <2>4, <2>5
<1>10. ASSUME NEW id, NEW p
       PROVE  Holds(n, id, p) <=> (Holds(c, id, p) \/ (id = e.id /\ p = e.project))
  <2>1. \A k \in 1..Len(t) : k = Len(s) + 1 \/ k \in 1..Len(s)
    BY <1>1, <1>3
  <2>2. Len(s) + 1 \in 1..Len(t) /\ \A k \in 1..Len(s) : k \in 1..Len(t)
    BY <1>1, <1>3
  <2>3. ASSUME Holds(n, id, p) PROVE Holds(c, id, p) \/ (id = e.id /\ p = e.project)
    BY <1>3, <2>1, <2>3, Zenon DEF Holds, s, t
  <2>4. ASSUME Holds(c, id, p) PROVE Holds(n, id, p)
    BY <1>3, <2>2, <2>4, Zenon DEF Holds, s, t
  <2>5. Holds(n, e.id, e.project)
    BY <1>3, <2>2, Zenon DEF Holds, t
  <2>6. QED
    BY <2>3, <2>4, <2>5
<1>11. ASSUME IsIndexed(c), StableProject
       PROVE  IsIndexed(n)
  <2>1. \A q \in DOMAIN n.byProject : n.byProject[q] # << >>
    BY <1>6, <1>11 DEF IsIndexed
  <2>2. \A q : NoRepeats(ListOf(c, q))
    BY <1>11 DEF IsIndexed, ListOf, NoRepeats
  <2>3. \A p \in Project, id \in EventId : Occurs(ListOf(c, p), id) <=> Holds(c, id, p)
    BY <1>11, Zenon DEF IsIndexed, Holds
  <2>4. ~Occurs(ListOf(c, e.project), e.id)
    <3>1. ~Holds(c, e.id, e.project)
      BY <1>7, Zenon DEF Holds, s
    <3>2. QED
      BY <1>4, <2>3, <3>1
  <2>5. NoRepeats(l)
    BY <1>4, <1>5, <2>2, <2>4, AppendOccurs DEF l
  <2>6. \A q \in DOMAIN n.byProject : NoRepeats(n.byProject[q])
    <3>1. \A q : NoRepeats(ListOf(n, q))
      BY <1>6, <2>2, <2>5
    <3>2. \A q \in DOMAIN n.byProject : ListOf(n, q) = n.byProject[q]
      BY DEF ListOf
    <3>3. QED
      BY <3>1, <3>2
  <2>7. ASSUME NEW p \in Project, NEW id \in EventId
        PROVE  Occurs(ListOf(n, p), id) <=> Holds(n, id, p)
    <3>1. CASE p = e.project
      BY <1>6, <1>8, <1>10, <2>3, <3>1
    <3>2. CASE p # e.project
      BY <1>6, <1>10, <2>3, <3>2
    <3>3. QED
      BY <3>1, <3>2
  <2>8. QED
    BY <2>1, <2>6, <2>7, Zenon DEF IsIndexed, Holds
<1>12. ASSUME IsReachable(c)
       PROVE  IsReachable(n)
  <2>1. ASSUME NEW p, NEW y, Occurs(ListOf(c, p), y)
        PROVE  p \in DOMAIN n.byProject /\ Occurs(n.byProject[p], y)
    <3>1. Occurs(ListOf(n, p), y)
      BY <1>6, <1>8, <2>1
    <3>2. ListOf(n, p) # << >>
      BY <3>1 DEF Occurs
    <3>3. QED
      BY <3>1, <3>2 DEF ListOf
  <2>2. e.project \in DOMAIN n.byProject /\ Occurs(n.byProject[e.project], e.id)
    <3>1. ListOf(n, e.project) # << >> /\ Occurs(ListOf(n, e.project), e.id)
      BY <1>5, <1>6, <1>8
    <3>2. QED
      BY <3>1 DEF ListOf
  <2>3. ASSUME NEW i \in 1..Len(t)
        PROVE  \E p \in DOMAIN n.byProject : Occurs(n.byProject[p], t[i].id)
    <3>1. CASE i \in 1..Len(s)
      <4>1. PICK p \in DOMAIN c.byProject : Occurs(c.byProject[p], s[i].id)
        BY <1>12, <3>1, Zenon DEF IsReachable, s
      <4>2. Occurs(ListOf(c, p), s[i].id)
        BY <4>1 DEF ListOf
      <4>3. t[i] = s[i]
        BY <1>3, <3>1
      <4>4. QED
        BY <2>1, <4>2, <4>3
    <3>2. CASE i = Len(s) + 1
      BY <1>3, <2>2, <3>2
    <3>3. QED
      BY <1>1, <1>3, <3>1, <3>2
  <2>4. QED
    BY <2>3 DEF IsReachable, t
<1>13. IsCache(n)
  BY <1>2, <1>3, <1>6 DEF IsCache, t
<1>14. QED
  BY <1>2, <1>3, <1>9, <1>11, <1>12, <1>13 DEF n, t, s

(* An eviction drops the least recently touched event and, when the index  *)
(* was exact, exactly its entry of the index.                              *)
LEMMA EvictProperties ==
  ASSUME NEW c, IsCache(c), c.store # << >>,
         \A i, j \in 1..Len(c.store) : c.store[i].id = c.store[j].id => i = j
  PROVE  LET n == EvictOldest(c)
         IN  /\ IsCache(n)
             /\ n.store = Tail(c.store)
             /\ Len(n.store) = Len(c.store) - 1
             /\ \A i, j \in 1..Len(n.store) : n.store[i].id = n.store[j].id => i = j
             /\ IsIndexed(c) => IsIndexed(n)
             /\ IsReachable(c) => IsReachable(n)
<1> DEFINE n == EvictOldest(c)
           s == c.store
           t == Tail(s)
           old == Head(s)
           l == RemoveFirst(ListOf(c, old.project), old.id)
<1>1. s \in Seq(Event) /\ Len(s) \in Nat \ {0} /\ old \in Event /\ old = s[1]
  BY LenProperties, HeadTailProperties, EmptySeq DEF IsCache
<1>2. n = [store |-> t, byProject |-> SetList(c.byProject, old.project, l)]
  BY DEF EvictOldest
<1>3. /\ t \in Seq(Event)
      /\ Len(t) = Len(s) - 1
      /\ \A i \in 1..Len(t) : t[i] = s[i + 1]
  BY <1>1, HeadTailProperties
<1>4. old.id \in EventId /\ old.project \in Project
  BY <1>1, EventFields
<1>5. /\ ListOf(c, old.project) \in Seq(EventId)
      /\ l \in Seq(EventId)
      /\ \A y : y # old.id => (Occurs(l, y) <=> Occurs(ListOf(c, old.project), y))
      /\ NoRepeats(ListOf(c, old.project)) => NoRepeats(l) /\ ~Occurs(l, old.id)
  BY ListOfType, RemoveFirstProperties
<1> HIDE DEF n, t, l, s, old
<1>6. /\ DOMAIN n.byProject \subseteq Project
      /\ \A q \in DOMAIN n.byProject : n.byProject[q] \in Seq(EventId)
      /\ ListOf(n, old.project) = l
      /\ \A q : q # old.project => ListOf(n, q) = ListOf(c, q)
      /\ (\A q \in DOMAIN c.byProject : c.byProject[q] # << >>)
            => \A q \in DOMAIN n.byProject : n.byProject[q] # << >>
  <2>1. n.byProject = SetList(c.byProject, old.project, l)
    BY <1>2
  <2>2. QED
    BY <1>4, <1>5, <2>1, SetListProperties
<1>7. \A i, j \in 1..Len(s) : s[i].id = s[j].id => i = j
  BY DEF s
<1>8. \A i \in 1..Len(t) : i + 1 \in 1..Len(s) /\ i + 1 # 1
  BY <1>1, <1>3
<1>9. 1 \in 1..Len(s)
  BY <1>1
<1>10. \A i \in 1..Len(t) : t[i].id # old.id
  BY <1>1, <1>3, <1>7, <1>8, <1>9, Zenon
<1>11. ASSUME NEW i \in 1..Len(t), NEW j \in 1..Len(t), t[i].id = t[j].id
       PROVE  i = j
  <2>1. i + 1 = j + 1
    <3>1. s[i + 1].id = s[j + 1].id /\ i + 1 \in 1..Len(s) /\ j + 1 \in 1..Len(s)
      BY <1>3, <1>8, <1>11
    <3>2. QED
      BY <1>7, <3>1, Zenon
  <2>2. QED
    BY <1>3, <2>1
<1>12. \A k \in 1..Len(s) : k = 1 \/ \E i \in 1..Len(t) : t[i] = s[k]
  <2>1. SUFFICES ASSUME NEW k \in 1..Len(s), k # 1
                 PROVE  \E i \in 1..Len(t) : t[i] = s[k]
    OBVIOUS
  <2>2. k - 1 \in 1..Len(t) /\ (k - 1) + 1 = k
    BY <1>1, <1>3, <2>1
  <2>3. t[k - 1] = s[k]
    BY <1>3, <2>2
  <2>4. QED
    BY <2>2, <2>3
<1>13. ASSUME NEW id, NEW p
       PROVE  Holds(n, id, p) <=> (Holds(c, id, p) /\ id # old.id)
  <2>1. n.store = t
    BY <1>2
  <2>2. ASSUME Holds(n, id, p) PROVE Holds(c, id, p) /\ id # old.id
    BY <1>3, <1>8, <1>10, <2>1, <2>2, Zenon DEF Holds, s
  <2>3. ASSUME Holds(c, id, p), id # old.id PROVE Holds(n, id, p)
    BY <1>1, <1>12, <2>1, <2>3, Zenon DEF Holds, s
  <2>4. QED
    BY <2>2, <2>3
<1>14. ASSUME IsIndexed(c)
       PROVE  IsIndexed(n)
  <2>1. \A q \in DOMAIN n.byProject : n.byProject[q] # << >>
    BY <1>6, <1>14 DEF IsIndexed
  <2>2. \A q : NoRepeats(ListOf(c, q))
    BY <1>14 DEF IsIndexed, ListOf, NoRepeats
  <2>3. \A p \in Project, id \in EventId : Occurs(ListOf(c, p), id) <=> Holds(c, id, p)
    BY <1>14, Zenon DEF IsIndexed, Holds
  <2>4. \A q \in DOMAIN n.byProject : NoRepeats(n.byProject[q])
    <3>1. \A q : NoRepeats(ListOf(n, q))
      BY <1>5, <1>6, <2>2
    <3>2. \A q \in DOMAIN n.byProject : ListOf(n, q) = n.byProject[q]
      BY DEF ListOf
    <3>3. QED
      BY <3>1, <3>2
  <2>5. ASSUME NEW p \in Project, NEW id \in EventId
        PROVE  Occurs(ListOf(n, p), id) <=> Holds(n, id, p)
    <3>1. CASE p = old.project
      BY <1>5, <1>6, <1>13, <2>2, <2>3, <3>1
    <3>2. CASE p # old.project
      <4>1. ~Holds(c, old.id, p)
        BY <1>1, <1>7, <1>9, <3>2, Zenon DEF Holds, s
      <4>2. QED
        BY <1>6, <1>13, <2>3, <3>2, <4>1
    <3>3. QED
      BY <3>1, <3>2
  <2>6. QED
    BY <2>1, <2>4, <2>5, Zenon DEF IsIndexed, Holds
<1>15. ASSUME IsReachable(c)
       PROVE  IsReachable(n)
  <2>1. ASSUME NEW p, NEW y, y # old.id, Occurs(ListOf(c, p), y)
        PROVE  p \in DOMAIN n.byProject /\ Occurs(n.byProject[p], y)
    <3>1. Occurs(ListOf(n, p), y)
      BY <1>5, <1>6, <2>1
    <3>2. ListOf(n, p) # << >>
      BY <3>1 DEF Occurs
    <3>3. QED
      BY <3>1, <3>2 DEF ListOf
  <2>2. ASSUME NEW i \in 1..Len(t)
        PROVE  \E p \in DOMAIN n.byProject : Occurs(n.byProject[p], t[i].id)
    <3>1. PICK p \in DOMAIN c.byProject : Occurs(c.byProject[p], s[i + 1].id)
      BY <1>8, <1>15, Zenon DEF IsReachable, s
    <3>2. Occurs(ListOf(c, p), s[i + 1].id)
      BY <3>1 DEF ListOf
    <3>3. t[i] = s[i + 1] /\ t[i].id # old.id
      BY <1>3, <1>10
    <3>4. QED
      BY <2>1, <3>2, <3>3
  <2>3. QED
    BY <1>2, <2>2 DEF IsReachable
<1>16. IsCache(n)
  BY <1>2, <1>3, <1>6 DEF IsCache
<1>17. n.store = Tail(c.store) /\ Len(n.store) = Len(c.store) - 1
      /\ \A i, j \in 1..Len(n.store) : n.store[i].id = n.store[j].id => i = j
  BY <1>2, <1>3, <1>11 DEF t, s
<1>18. QED
  BY <1>14, <1>15, <1>16, <1>17 DEF n

-----------------------------------------------------------------------------
(* A put keeps the cache well formed and within its capacity; it keeps     *)
(* every stored event reachable; and it keeps the index exact when an id   *)
(* never changes project.                                                  *)
LEMMA PutProperties ==
  ASSUME NEW c, IsCache(c), IsBounded(c), NEW e \in Event
  PROVE  LET n == PutEvent(c, e)
         IN  /\ IsCache(n)
             /\ IsBounded(n)
             /\ IsReachable(c) => IsReachable(n)
             /\ IsIndexed(c) /\ StableProject => IsIndexed(n)
<1> DEFINE n == PutEvent(c, e)
<1>1. CASE e.id \in StoredIds(c)
  <2>1. n = Touch(c, e)
    BY <1>1 DEF PutEvent
  <2>2. IsReachable(c) => IsReachable(n)
    <3>1. HAVE IsReachable(c)
    <3>2. \A id \in StoredIds(c) : \E p \in DOMAIN c.byProject : Occurs(c.byProject[p], id)
      BY <3>1 DEF IsReachable, StoredIds
    <3>3. StoredIds(n) = StoredIds(c) /\ n.byProject = c.byProject
      BY <1>1, <2>1, TouchProperties
    <3>4. \A i \in 1..Len(n.store) : n.store[i].id \in StoredIds(n)
      BY DEF StoredIds
    <3>5. QED
      BY <3>2, <3>3, <3>4, Zenon DEF IsReachable
  <2>3. IsIndexed(c) /\ StableProject => IsIndexed(n)
    <3>1. HAVE IsIndexed(c) /\ StableProject
    <3>2. n.byProject = c.byProject /\ \A id, p : Holds(n, id, p) <=> Holds(c, id, p)
      BY <1>1, <2>1, <3>1, TouchProperties
    <3>3. \A p : ListOf(n, p) = ListOf(c, p)
      BY <3>2 DEF ListOf
    <3>4. \A p \in Project, id \in EventId : Occurs(ListOf(c, p), id) <=> Holds(c, id, p)
      BY <3>1, Zenon DEF IsIndexed, Holds
    <3> HIDE DEF n
    <3>5. \A p \in Project, id \in EventId : Occurs(ListOf(n, p), id) <=> Holds(n, id, p)
      BY <3>2, <3>3, <3>4
    <3>6. QED
      BY <3>1, <3>2, <3>5, Zenon DEF IsIndexed, Holds
  <2>4. QED
    BY <1>1, <2>1, <2>2, <2>3, TouchProperties
<1>2. CASE e.id \notin StoredIds(c)
  <2> DEFINE m == Insert(c, e)
  <2>1. /\ IsCache(m)
        /\ m.store = Append(c.store, e)
        /\ Len(m.store) = Len(c.store) + 1
        /\ \A i, j \in 1..Len(m.store) : m.store[i].id = m.store[j].id => i = j
        /\ IsIndexed(c) /\ StableProject => IsIndexed(m)
        /\ IsReachable(c) => IsReachable(m)
    BY <1>2, InsertProperties
  <2>2. n = IF Len(m.store) > MaxEntries THEN EvictOldest(m) ELSE m
    BY <1>2 DEF PutEvent, EvictOverCap
  <2>3. Len(c.store) \in Nat /\ Len(c.store) <= MaxEntries /\ MaxEntries \in Nat
    BY MaxAssumption, LenProperties DEF IsCache, IsBounded
  <2> HIDE DEF m, n
  <2>4. CASE Len(m.store) > MaxEntries
    <3>1. m.store # << >>
      <4>1. Len(m.store) # 0
        BY <2>1, <2>3
      <4>2. Len(<< >>) = 0
        BY EmptySeq
      <4>3. QED
        BY <4>1, <4>2
    <3>2. n = EvictOldest(m)
      BY <2>2, <2>4
    <3>3. /\ IsCache(n)
          /\ Len(n.store) = Len(m.store) - 1
          /\ \A i, j \in 1..Len(n.store) : n.store[i].id = n.store[j].id => i = j
          /\ IsIndexed(m) => IsIndexed(n)
          /\ IsReachable(m) => IsReachable(n)
      BY <2>1, <3>1, <3>2, EvictProperties
    <3>4. Len(n.store) <= MaxEntries
      BY <2>1, <2>3, <3>3
    <3>5. QED
      BY <2>1, <3>3, <3>4 DEF IsBounded, n
  <2>5. CASE ~(Len(m.store) > MaxEntries)
    <3>1. n = m /\ Len(m.store) <= MaxEntries
      BY <2>1, <2>2, <2>3, <2>5
    <3>2. QED
      BY <2>1, <3>1 DEF IsBounded, n
  <2>6. QED
    BY <2>4, <2>5
<1>3. QED
  BY <1>1, <1>2

(* A put shows nothing but the event put and what was stored before. *)
LEMMA PutElements ==
  ASSUME NEW c, IsCache(c), IsBounded(c), NEW e \in Event, NEW x
  PROVE  Occurs(PutEvent(c, e).store, x) => x = e \/ Occurs(c.store, x)
<1> DEFINE s == c.store
<1>1. s \in Seq(Event) /\ Len(s) \in Nat
  BY LenProperties DEF IsCache
<1>2. \A t \in Seq(Event) : Occurs(Append(t, e), x) => x = e \/ Occurs(t, x)
  BY AppendOccurs
<1>3. CASE e.id \in StoredIds(c)
  <2>1. PICK k \in 1..Len(s) : PositionOf(c, e.id) = k
    BY <1>3, PositionProperties
  <2>2. RemoveAt(s, k) \in Seq(Event) /\ (Occurs(RemoveAt(s, k), x) => Occurs(s, x))
    <3> DEFINE r == RemoveAt(s, k)
    <3>1. /\ r \in Seq(Event) /\ Len(r) = Len(s) - 1
          /\ \A j \in 1..(Len(s) - 1) : r[j] = IF j < k THEN s[j] ELSE s[j + 1]
      BY <1>1, RemoveAtProperties
    <3> HIDE DEF r
    <3>2. ASSUME NEW j \in 1..Len(r)
          PROVE  \E i \in 1..Len(s) : r[j] = s[i]
      <4>1. j \in 1..(Len(s) - 1) /\ j \in 1..Len(s) /\ j + 1 \in 1..Len(s)
        BY <1>1, <3>1
      <4>2. r[j] = s[j] \/ r[j] = s[j + 1]
        BY <3>1, <4>1
      <4>3. QED
        BY <4>1, <4>2
    <3>3. QED
      BY <3>1, <3>2 DEF Occurs, r
  <2>3. PutEvent(c, e).store = Append(RemoveAt(s, k), e)
    BY <1>3, <2>1 DEF PutEvent, Touch, IsCache
  <2>4. QED
    BY <1>2, <2>2, <2>3
<1>4. CASE e.id \notin StoredIds(c)
  <2> DEFINE t == Append(s, e)
  <2>1. t \in Seq(Event) /\ t # << >>
    BY <1>1, AppendProperties
  <2>2. PutEvent(c, e).store \in {t, Tail(t)}
    BY <1>4 DEF PutEvent, Insert, EvictOverCap, EvictOldest
  <2>3. Occurs(Tail(t), x) => Occurs(t, x)
    <3>1. /\ Len(Tail(t)) = Len(t) - 1 /\ Len(t) \in Nat
          /\ \A i \in 1..Len(Tail(t)) : Tail(t)[i] = t[i + 1]
      BY <2>1, HeadTailProperties, LenProperties
    <3> HIDE DEF t
    <3>2. QED
      BY <3>1 DEF Occurs
  <2>4. QED
    BY <1>1, <1>2, <2>2, <2>3
<1>5. QED
  BY <1>3, <1>4

(* A new or cleared cache. *)
LEMMA EmptyCacheProperties ==
  IsCache(EmptyCache) /\ IsBounded(EmptyCache) /\ IsReachable(EmptyCache) /\ IsIndexed(EmptyCache)
<1>1. Len(EmptyCache.store) = 0 /\ EmptyCache.store \in Seq(Event)
  BY EmptySeq DEF EmptyCache
<1>2. \A p : Len(ListOf(EmptyCache, p)) = 0
  BY EmptySeq DEF EmptyCache, ListOf
<1>3. QED
  BY <1>1, <1>2, MaxAssumption
     DEF EmptyCache, IsCache, IsBounded, IsReachable, IsIndexed, Occurs

(* A stored event is found by its id. *)
LEMMA EventOfStored ==
  ASSUME NEW c, IsCache(c), IsBounded(c), NEW x, Occurs(c.store, x)
  PROVE  x.id \in StoredIds(c) /\ EventOf(c, x.id) = x
<1>1. PICK k \in 1..Len(c.store) : c.store[k] = x
  BY DEF Occurs
<1>2. x.id \in StoredIds(c)
  BY <1>1 DEF StoredIds
<1>3. PositionOf(c, x.id) \in 1..Len(c.store) /\ c.store[PositionOf(c, x.id)].id = x.id
  BY <1>2, PositionProperties
<1>4. PositionOf(c, x.id) = k
  BY <1>1, <1>3 DEF IsBounded
<1>5. QED
  BY <1>1, <1>2, <1>4 DEF EventOf

(* What a stored id finds is an event of that id in the store. *)
LEMMA EventOfType ==
  ASSUME NEW c, IsCache(c), NEW id \in StoredIds(c)
  PROVE  /\ EventOf(c, id) \in Event /\ EventOf(c, id).id = id /\ id \in EventId
         /\ Occurs(c.store, EventOf(c, id))
<1>1. PositionOf(c, id) \in 1..Len(c.store) /\ c.store[PositionOf(c, id)].id = id
  BY PositionProperties
<1>2. c.store[PositionOf(c, id)] \in Event
  BY <1>1, ElementOfSeq DEF IsCache
<1>3. QED
  BY <1>1, <1>2, EventFields DEF EventOf, Occurs

(* After a put the cache shows the event put under its id, and under every *)
(* other id it still stores what it showed before.                         *)
LEMMA PutShows ==
  ASSUME NEW c, IsCache(c), IsBounded(c), NEW e \in Event,
         NEW id \in StoredIds(PutEvent(c, e))
  PROVE  \/ id = e.id /\ EventOf(PutEvent(c, e), id) = e
         \/ /\ id # e.id /\ id \in StoredIds(c)
            /\ EventOf(PutEvent(c, e), id) = EventOf(c, id)
<1> DEFINE n == PutEvent(c, e)
           x == EventOf(n, id)
<1>1. IsCache(n) /\ IsBounded(n)
  BY PutProperties
<1>2. Occurs(n.store, x) /\ x.id = id
  BY <1>1, EventOfType
<1>3. x = e \/ Occurs(c.store, x)
  BY <1>2, PutElements
<1>4. ASSUME Occurs(c.store, x)
      PROVE  id \in StoredIds(c) /\ EventOf(c, id) = x
  BY <1>2, <1>4, EventOfStored
<1>5. ASSUME e.id \in StoredIds(c), id = e.id
      PROVE  x = e
  <2>1. PICK k \in 1..Len(c.store) : PositionOf(c, e.id) = k
    BY <1>5, PositionProperties
  <2>2. RemoveAt(c.store, k) \in Seq(Event)
    BY RemoveAtProperties DEF IsCache
  <2>3. n.store = Append(RemoveAt(c.store, k), e)
    BY <1>5, <2>1 DEF PutEvent, Touch, IsCache
  <2>4. Occurs(n.store, e)
    BY <2>2, <2>3, AppendOccurs
  <2>5. QED
    BY <1>1, <1>5, <2>4, EventOfStored
<1> HIDE DEF n, x
<1>6. QED
  BY <1>2, <1>3, <1>4, <1>5 DEF n, x

-----------------------------------------------------------------------------
\* Every event of t is e or one of another id that s holds already.
OnlyAdds(s, t, e) ==
  \A i \in 1..Len(t) : t[i] = e \/ (t[i].id # e.id /\ Occurs(s, t[i]))

\* x comes before y in s.
Precedes(s, x, y) == \E a, b \in 1..Len(s) : a < b /\ s[a] = x /\ s[b] = y

\* e comes last in t, and the other events keep the order they have in s.
KeepsOrder(s, t, e) ==
  \A i, j \in 1..Len(t) : i < j =>
     t[i].id # e.id /\ (t[j] = e \/ Precedes(s, t[i], t[j]))

\* An event of s goes only when t is full of events that come after it.
DropsEarliest(s, t, e) ==
  \A k \in 1..Len(s) :
     \/ \E i \in 1..Len(t) : t[i].id = s[k].id
     \/ /\ Len(t) = MaxEntries
        /\ \A i \in 1..Len(t) : t[i] = e \/ \E b \in 1..Len(s) : k < b /\ s[b] = t[i]

(* What a put does to the order of the store. *)
LEMMA PutOrder ==
  ASSUME NEW c, IsCache(c), IsBounded(c), NEW e \in Event,
         NEW s, s = c.store, NEW t, t = PutEvent(c, e).store
  PROVE  /\ OnlyAdds(s, t, e)
         /\ KeepsOrder(s, t, e)
         /\ DropsEarliest(s, t, e)
         /\ Len(s) <= Len(t)
         /\ Occurs(t, e) \/ (Len(t) = MaxEntries /\ MaxEntries = 0)
<1>0. PICK n \in Nat : n = Len(s)
  BY LenProperties DEF IsCache
<1>1. /\ s \in Seq(Event) /\ n <= MaxEntries /\ MaxEntries \in Nat
      /\ \A i, j \in 1..n : s[i].id = s[j].id => i = j
  BY <1>0, MaxAssumption DEF IsCache, IsBounded
<1>2. CASE e.id \in StoredIds(c)
  <2>1. PICK k \in 1..n : PositionOf(c, e.id) = k /\ s[k].id = e.id
    BY <1>0, <1>2, PositionProperties
  <2> DEFINE r == RemoveAt(s, k)
  <2>2. t = Append(r, e)
    BY <1>2, <2>1 DEF PutEvent, Touch, IsCache
  <2>3. /\ r \in Seq(Event) /\ Len(r) = n - 1
        /\ \A j \in 1..(n - 1) : r[j] = IF j < k THEN s[j] ELSE s[j + 1]
    <3>1. k \in 1..Len(s)
      BY <1>0
    <3>2. /\ r \in Seq(Event) /\ Len(r) = Len(s) - 1
          /\ \A j \in 1..(Len(s) - 1) : r[j] = IF j < k THEN s[j] ELSE s[j + 1]
      BY <1>1, <3>1, RemoveAtProperties
    <3>3. QED
      BY <1>0, <3>2
  <2> HIDE DEF r
  <2>4. /\ Len(t) = n /\ t[n] = e
        /\ \A j \in 1..(n - 1) : t[j] = IF j < k THEN s[j] ELSE s[j + 1]
    <3>1. Len(r) + 1 = n /\ 1..Len(r) = 1..(n - 1)
      BY <2>3
    <3>2. Len(t) = Len(r) + 1 /\ t[Len(r) + 1] = e /\ \A j \in 1..Len(r) : t[j] = r[j]
      BY <2>2, <2>3, AppendProperties
    <3>3. QED
      BY <2>3, <3>1, <3>2
  <2> DEFINE at == [j \in 1..(n - 1) |-> IF j < k THEN j ELSE j + 1]
  <2>5. /\ \A j \in 1..(n - 1) : at[j] \in 1..n /\ at[j] # k /\ t[j] = s[at[j]]
        /\ \A i, j \in 1..(n - 1) : i < j => at[i] < at[j]
    BY <2>1, <2>4
  <2>6. ASSUME NEW l \in 1..n, l # k PROVE \E j \in 1..(n - 1) : at[j] = l
    <3>1. CASE l < k
      <4>1. l \in 1..(n - 1) /\ at[l] = l
        BY <2>1, <3>1
      <4>2. QED
        BY <4>1
    <3>2. CASE ~(l < k)
      <4>1. l - 1 \in 1..(n - 1) /\ at[l - 1] = l
        BY <2>1, <2>6, <3>2
      <4>2. QED
        BY <4>1
    <3>3. QED
      BY <3>1, <3>2
  <2> HIDE DEF at
  <2>7. \A j \in 1..(n - 1) : t[j].id # e.id /\ Occurs(s, t[j])
    <3>1. SUFFICES ASSUME NEW j \in 1..(n - 1) PROVE t[j].id # e.id /\ Occurs(s, t[j])
      OBVIOUS
    <3>2. PICK l \in 1..n : l # k /\ t[j] = s[l]
      BY <2>5, <3>1
    <3>3. s[l].id # s[k].id
      BY <1>1, <3>2
    <3>4. QED
      BY <1>0, <2>1, <3>2, <3>3 DEF Occurs
  <2>8. \A j \in 1..n : j = n \/ j \in 1..(n - 1)
    OBVIOUS
  <2>9. n \in 1..n /\ \A j \in 1..(n - 1) : j \in 1..n
    BY <2>1
  <2>10. \A i, j \in 1..n : i < j => i \in 1..(n - 1)
    OBVIOUS
  <2>11. OnlyAdds(s, t, e)
    BY <2>4, <2>7, <2>8 DEF OnlyAdds
  <2>12. KeepsOrder(s, t, e)
    <3>1. ASSUME NEW i \in 1..(n - 1), NEW j \in 1..(n - 1), i < j
          PROVE  Precedes(s, t[i], t[j])
      <4>1. at[i] \in 1..n /\ at[j] \in 1..n /\ at[i] < at[j] /\ s[at[i]] = t[i] /\ s[at[j]] = t[j]
        BY <2>5, <3>1
      <4>2. QED
        BY <1>0, <4>1 DEF Precedes
    <3>2. QED
      BY <2>4, <2>7, <2>8, <2>10, <3>1 DEF KeepsOrder
  <2>13. ASSUME NEW l \in 1..n
         PROVE  \E i \in 1..n : t[i].id = s[l].id
    <3>1. CASE l = k
      BY <2>1, <2>4, <2>9, <3>1
    <3>2. CASE l # k
      <4>1. PICK j \in 1..(n - 1) : at[j] = l
        BY <2>6, <3>2
      <4>2. j \in 1..n /\ t[j] = s[l]
        BY <2>5, <2>9, <4>1
      <4>3. QED
        BY <4>2
    <3>3. QED
      BY <3>1, <3>2
  <2>14. DropsEarliest(s, t, e)
    BY <1>0, <2>4, <2>13 DEF DropsEarliest
  <2>15. Occurs(t, e)
    BY <2>4, <2>9 DEF Occurs
  <2>16. QED
    BY <1>0, <2>4, <2>11, <2>12, <2>14, <2>15
<1>3. CASE e.id \notin StoredIds(c)
  <2> DEFINE u == Append(s, e)
  <2>1. /\ u \in Seq(Event) /\ Len(u) = n + 1
        /\ \A i \in 1..n : u[i] = s[i]
        /\ u[n + 1] = e
    BY <1>0, <1>1, AppendProperties
  <2>2. t = IF n + 1 > MaxEntries THEN Tail(u) ELSE u
    <3>1. t = EvictOverCap(Insert(c, e)).store /\ Insert(c, e).store = u
      BY <1>3 DEF PutEvent, Insert
    <3>2. QED
      BY <2>1, <3>1 DEF EvictOverCap, EvictOldest
  <2>3. \A i \in 1..n : s[i].id # e.id /\ Occurs(s, s[i])
    BY <1>0, <1>3, Zenon DEF StoredIds, Occurs
  <2> HIDE DEF u
  <2>4. CASE n + 1 > MaxEntries
    <3>1. n = MaxEntries /\ t = Tail(u)
      BY <1>1, <2>2, <2>4
    <3>2. u # << >>
      <4>1. Len(u) # 0
        BY <2>1
      <4>2. QED
        BY <4>1, EmptySeq
    <3>3. Len(t) = n /\ \A i \in 1..n : t[i] = u[i + 1]
      <4>1. Len(Tail(u)) = Len(u) - 1 /\ \A i \in 1..Len(Tail(u)) : Tail(u)[i] = u[i + 1]
        BY <2>1, <3>2, HeadTailProperties
      <4>2. QED
        BY <2>1, <3>1, <4>1
    <3>4. \A i \in 1..n : IF i = n THEN t[i] = e ELSE i + 1 \in 1..n /\ t[i] = s[i + 1]
      BY <2>1, <3>3
    <3>5. OnlyAdds(s, t, e)
      <4>1. SUFFICES ASSUME NEW i \in 1..n
                     PROVE  t[i] = e \/ (t[i].id # e.id /\ Occurs(s, t[i]))
        BY <3>3 DEF OnlyAdds
      <4>2. CASE i = n
        BY <3>4, <4>2
      <4>3. CASE i # n
        <5>1. i + 1 \in 1..n /\ t[i] = s[i + 1]
          BY <3>4, <4>1, <4>3
        <5>2. QED
          BY <2>3, <5>1
      <4>4. QED
        BY <4>2, <4>3
    <3>6. ASSUME NEW i \in 1..n, NEW j \in 1..n, i < j
          PROVE  t[i].id # e.id /\ (t[j] = e \/ Precedes(s, t[i], t[j]))
      <4>1. i # n
        BY <3>6
      <4>2. j # n => (i + 1 < j + 1 /\ i + 1 \in 1..n /\ j + 1 \in 1..n)
        BY <3>6
      <4>3. QED
        BY <1>0, <2>3, <3>4, <4>1, <4>2 DEF Precedes
    <3>7. ASSUME NEW k \in 1..n, k # 1
          PROVE  \E i \in 1..n : t[i].id = s[k].id
      <4>1. k - 1 \in 1..n /\ k - 1 # n /\ (k - 1) + 1 = k
        BY <3>7
      <4>2. t[k - 1] = s[k]
        BY <3>4, <4>1
      <4>3. QED
        BY <4>1, <4>2
    <3>8. ASSUME NEW i \in 1..n
          PROVE  t[i] = e \/ \E b \in 1..n : 1 < b /\ s[b] = t[i]
      <4>1. i # n => 1 < i + 1 /\ i + 1 \in 1..n
        OBVIOUS
      <4>2. QED
        BY <3>4, <4>1
    <3>9. DropsEarliest(s, t, e)
      BY <1>0, <3>1, <3>3, <3>7, <3>8, Zenon DEF DropsEarliest
    <3>10. n # 0 => n \in 1..n
      OBVIOUS
    <3>11. Occurs(t, e) \/ n = 0
      BY <3>3, <3>4, <3>10 DEF Occurs
    <3>12. QED
      BY <1>0, <3>1, <3>3, <3>5, <3>6, <3>9, <3>11 DEF KeepsOrder
  <2>5. CASE ~(n + 1 > MaxEntries)
    <3>1. t = u
      BY <2>2, <2>5
    <3>2. \A i \in 1..(n + 1) : i = n + 1 \/ i \in 1..n
      OBVIOUS
    <3>3. n + 1 \in 1..(n + 1) /\ (\A i \in 1..n : i \in 1..(n + 1)) /\ n <= n + 1
      OBVIOUS
    <3>4. \A i, j \in 1..(n + 1) : i < j => i \in 1..n
      OBVIOUS
    <3>5. OnlyAdds(s, t, e)
      BY <2>1, <2>3, <3>1, <3>2, Zenon DEF OnlyAdds
    <3>6. KeepsOrder(s, t, e)
      <4>1. ASSUME NEW i \in 1..n, NEW j \in 1..n, i < j
            PROVE  Precedes(s, s[i], s[j])
        BY <1>0, <4>1 DEF Precedes
      <4>2. QED
        BY <2>1, <2>3, <3>1, <3>2, <3>4, <4>1, Zenon DEF KeepsOrder
    <3>7. DropsEarliest(s, t, e)
      BY <1>0, <2>1, <3>1, <3>3, Zenon DEF DropsEarliest
    <3>8. Occurs(t, e)
      BY <2>1, <3>1, <3>3 DEF Occurs
    <3>9. QED
      BY <1>0, <2>1, <3>1, <3>3, <3>5, <3>6, <3>7, <3>8
  <2>6. QED
    BY <2>4, <2>5
<1>4. QED
  BY <1>2, <1>3

(* Appending puts x behind everything and leaves the rest in order. *)
LEMMA AppendPrecedes ==
  ASSUME NEW S, NEW s \in Seq(S), NEW x \in S, NEW a, NEW b,
         Precedes(Append(s, x), a, b)
  PROVE  Precedes(s, a, b) \/ (b = x /\ Occurs(s, a))
<1> DEFINE t == Append(s, x)
<1>1. /\ Len(s) \in Nat
      /\ Len(t) = Len(s) + 1
      /\ \A i \in 1..Len(s) : t[i] = s[i]
      /\ t[Len(s) + 1] = x
  BY AppendProperties, LenProperties
<1>2. PICK i \in 1..Len(t), j \in 1..Len(t) : i < j /\ t[i] = a /\ t[j] = b
  BY DEF Precedes
<1> HIDE DEF t
<1>3. i \in 1..Len(s) /\ s[i] = a
  BY <1>1, <1>2
<1>4. CASE j = Len(s) + 1
  BY <1>1, <1>2, <1>3, <1>4 DEF Occurs
<1>5. CASE j # Len(s) + 1
  <2>1. j \in 1..Len(s) /\ s[j] = b
    BY <1>1, <1>2, <1>5
  <2>2. QED
    BY <1>2, <1>3, <2>1 DEF Precedes
<1>6. QED
  BY <1>4, <1>5

(* Taking an entry out of a list leaves the others in order. *)
LEMMA RemoveFirstPrecedes ==
  ASSUME NEW S, NEW s \in Seq(S), NEW x, NEW a, NEW b,
         Precedes(RemoveFirst(s, x), a, b)
  PROVE  Precedes(s, a, b)
<1>0. Len(s) \in Nat
  BY LenProperties
<1>1. CASE ~Occurs(s, x)
  BY <1>1 DEF RemoveFirst, Occurs
<1>2. CASE Occurs(s, x)
  <2> DEFINE I == {k \in 1..Len(s) : s[k] = x}
             i == Min(I)
             r == RemoveAt(s, i)
  <2>1. I # {} /\ I \subseteq Nat
    BY <1>0, <1>2 DEF Occurs
  <2>2. i \in I
    BY <2>1, MinOfNats
  <2>3. RemoveFirst(s, x) = r
    <3>1. SelectInSeq(s, LAMBDA v : v = x) = i
      BY <2>1 DEF SelectInSeq
    <3>2. QED
      BY <1>2, <3>1 DEF RemoveFirst, Occurs
  <2>4. i \in 1..Len(s)
    BY <2>2
  <2> HIDE DEF I, i
  <2>5. /\ Len(r) = Len(s) - 1
        /\ \A j \in 1..(Len(s) - 1) : r[j] = IF j < i THEN s[j] ELSE s[j + 1]
    BY <2>4, RemoveAtProperties
  <2> HIDE DEF r
  <2>6. PICK k \in 1..Len(r), l \in 1..Len(r) : k < l /\ r[k] = a /\ r[l] = b
    BY <2>3 DEF Precedes
  <2>7. PICK u \in 1..Len(s), v \in 1..Len(s) : u < v /\ s[u] = a /\ s[v] = b
    <3>1. k \in 1..(Len(s) - 1) /\ l \in 1..(Len(s) - 1)
      BY <2>5
    <3> DEFINE at == [j \in 1..(Len(s) - 1) |-> IF j < i THEN j ELSE j + 1]
    <3>2. at[k] \in 1..Len(s) /\ at[l] \in 1..Len(s) /\ at[k] < at[l]
      BY <1>0, <2>4, <2>6, <3>1
    <3>3. s[at[k]] = a /\ s[at[l]] = b
      BY <2>5, <2>6, <3>1
    <3> HIDE DEF at
    <3>4. QED
      BY <3>2, <3>3
  <2>8. QED
    BY <2>7 DEF Precedes
<1>3. QED
  BY <1>1, <1>2

(* An eviction leaves the lists of the index in order. *)
LEMMA EvictPrecedes ==
  ASSUME NEW c, IsCache(c), c.store # << >>, NEW p, NEW a, NEW b,
         Precedes(ListOf(EvictOldest(c), p), a, b)
  PROVE  Precedes(ListOf(c, p), a, b)
<1> DEFINE old == Head(c.store)
           l == RemoveFirst(ListOf(c, old.project), old.id)
           n == EvictOldest(c)
<1>1. old \in Event
  BY HeadTailProperties DEF IsCache
<1>2. old.project \in Project
  BY <1>1, EventFields
<1>3. ListOf(c, old.project) \in Seq(EventId)
  BY ListOfType
<1>4. l \in Seq(EventId)
  BY <1>3, RemoveFirstProperties
<1>5. n.byProject = SetList(c.byProject, old.project, l)
  BY DEF EvictOldest
<1> HIDE DEF old, l, n
<1>6. ListOf(n, old.project) = l /\ \A q : q # old.project => ListOf(n, q) = ListOf(c, q)
  BY <1>2, <1>4, <1>5, SetListProperties
<1>7. CASE p = old.project
  <2>1. Precedes(l, a, b)
    BY <1>6, <1>7 DEF n
  <2>2. QED
    BY <1>3, <1>7, <2>1, RemoveFirstPrecedes DEF l
<1>8. CASE p # old.project
  BY <1>6, <1>8 DEF n
<1>9. QED
  BY <1>7, <1>8

(* A put lists its event behind what the project has listed already, and   *)
(* leaves every list in the order of arrival.                              *)
LEMMA PutListOrder ==
  ASSUME NEW c, IsCache(c), IsBounded(c), NEW e \in Event, NEW p, NEW a, NEW b,
         Precedes(ListOf(PutEvent(c, e), p), a, b)
  PROVE  Precedes(ListOf(c, p), a, b) \/ (b = e.id /\ Occurs(ListOf(c, p), a))
<1>1. CASE e.id \in StoredIds(c)
  <2>1. PutEvent(c, e).byProject = c.byProject
    BY <1>1, TouchProperties DEF PutEvent
  <2>2. QED
    BY <2>1 DEF ListOf
<1>2. CASE e.id \notin StoredIds(c)
  <2> DEFINE m == Insert(c, e)
             l == Append(ListOf(c, e.project), e.id)
  <2>1. IsCache(m) /\ Len(m.store) = Len(c.store) + 1 /\ Len(c.store) \in Nat
    BY <1>2, InsertProperties, LenProperties DEF IsCache
  <2>2. Precedes(ListOf(m, p), a, b)
    <3>1. PutEvent(c, e) = m \/ PutEvent(c, e) = EvictOldest(m)
      BY <1>2 DEF PutEvent, EvictOverCap
    <3>2. m.store # << >>
      <4> HIDE DEF m
      <4>1. Len(m.store) # 0
        BY <2>1
      <4>2. QED
        BY <4>1, EmptySeq
    <3> HIDE DEF m
    <3>3. QED
      BY <2>1, <3>1, <3>2, EvictPrecedes
  <2>3. e.id \in EventId /\ e.project \in Project /\ ListOf(c, e.project) \in Seq(EventId)
    BY EventFields, ListOfType
  <2>4. l \in Seq(EventId) /\ m.byProject = SetList(c.byProject, e.project, l)
    BY <2>3, AppendProperties DEF Insert
  <2> HIDE DEF l, m
  <2>5. ListOf(m, e.project) = l /\ \A q : q # e.project => ListOf(m, q) = ListOf(c, q)
    BY <2>3, <2>4, SetListProperties
  <2>6. CASE p = e.project
    <3>1. Precedes(l, a, b)
      BY <2>2, <2>5, <2>6
    <3>2. QED
      BY <2>3, <2>6, <3>1, AppendPrecedes DEF l
  <2>7. CASE p # e.project
    BY <2>2, <2>5, <2>7
  <2>8. QED
    BY <2>6, <2>7
<1>3. QED
  BY <1>1, <1>2
=============================================================================
