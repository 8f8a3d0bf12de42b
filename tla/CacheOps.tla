------------------------------ MODULE CacheOps ------------------------------
(***************************************************************************)
(* The operations of webhooks/events_cache.py as operators on the value of *)
(* one cache.  EventsCache makes a state machine of them for one process;  *)
(* the modules of the replay consumer keep one cache value per replica.    *)
(*                                                                         *)
(* Every method of the class takes an asyncio lock and never awaits while  *)
(* it holds it, so each operation is one atomic step.                      *)
(*                                                                         *)
(* A cache is a record:                                                    *)
(*   store      the OrderedDict, as the sequence of its values; the least  *)
(*              recently touched event comes first                         *)
(*   byProject  the secondary index: project -> event ids, arrival order   *)
(* An event is a record [id, project, at]; `at` is occurred_at, a string   *)
(* compared lexicographically, here a number (0 is the empty string, and   *)
(* also stands for `since=None`: both admit every event).                  *)
(***************************************************************************)
EXTENDS SequencesExt

CONSTANTS
  EventId,      \* event ids
  Project,      \* project ids
  Event,        \* the events that may be put: [id, project, at] records
  MaxEntries    \* the capacity of a cache

ASSUME EventAssumption == Event \subseteq [id : EventId, project : Project, at : Nat]
ASSUME MaxAssumption == MaxEntries \in Nat

EmptyCache == [store |-> << >>, byProject |-> [p \in {} |-> << >>]]

StoredIds(c) == {c.store[i].id : i \in 1..Len(c.store)}

\* self._by_project.get(pid, [])
ListOf(c, pid) == IF pid \in DOMAIN c.byProject THEN c.byProject[pid] ELSE << >>

\* The index with pid's list replaced; a project with an empty list has no key.
SetList(byProject, pid, list) ==
  LET keys == IF list = << >> THEN DOMAIN byProject \ {pid}
                              ELSE DOMAIN byProject \union {pid}
  IN  [q \in keys |-> IF q = pid THEN list ELSE byProject[q]]

PositionOf(c, id) == CHOOSE i \in 1..Len(c.store) : c.store[i].id = id

EventOf(c, id) == c.store[PositionOf(c, id)]

\* Mutant of Touch: the event is bumped and not overwritten.
TouchKeepsOld(c, e) ==
  [c EXCEPT !.store = Append(RemoveAt(@, PositionOf(c, e.id)), EventOf(c, e.id))]

\* Mutant of Touch: an id put under another project is taken off the old list only.
TouchUnlists(c, e) ==
  LET old == EventOf(c, e.id).project
  IN  [store     |-> Append(RemoveAt(c.store, PositionOf(c, e.id)), e),
       byProject |-> IF old = e.project THEN c.byProject
                     ELSE SetList(c.byProject, old, RemoveFirst(ListOf(c, old), e.id))]

(* A second put of a stored id: the event is overwritten and moved to the  *)
(* recent end.  The index is left alone, even when the project changed.    *)
Touch(c, e) ==
  [c EXCEPT !.store = Append(RemoveAt(@, PositionOf(c, e.id)), e)]

\* Mutant of Insert: the index is keyed by a field that events do not have.
InsertUnkeyed(c, e) ==
  [store     |-> Append(c.store, e),
   byProject |-> SetList(c.byProject, "", Append(ListOf(c, ""), e.id))]

Insert(c, e) ==
  [store     |-> Append(c.store, e),
   byProject |-> SetList(c.byProject, e.project, Append(ListOf(c, e.project), e.id))]

\* Mutant of EvictOldest: the id stays on its project's list.
EvictUnindexed(c) == [c EXCEPT !.store = Tail(@)]

(* One round of the eviction loop: the least recently touched event goes,  *)
(* and its id is removed once from the list of the project IT names.       *)
EvictOldest(c) ==
  LET old == Head(c.store)
  IN  [store     |-> Tail(c.store),
       byProject |-> SetList(c.byProject, old.project,
                             RemoveFirst(ListOf(c, old.project), old.id))]

\* Mutant of EvictOverCap: one event too many is let in.
EvictLate(c) == IF Len(c.store) > MaxEntries + 1 THEN EvictOldest(c) ELSE c

(* `while len(store) > max`: an insertion adds one event to a cache that   *)
(* was within its bound, so the loop runs at most once.                    *)
EvictOverCap(c) == IF Len(c.store) > MaxEntries THEN EvictOldest(c) ELSE c

PutEvent(c, e) ==
  IF e.id \in StoredIds(c) THEN Touch(c, e) ELSE EvictOverCap(Insert(c, e))

\* Mutant of Hits: `since` is not looked at.
HitsAnyTime(c, pid, since) ==
  {k \in 1..Len(ListOf(c, pid)) : ListOf(c, pid)[k] \in StoredIds(c)}

(* The places in a project's list that get_recent does not skip: the id is *)
(* still stored and its event is not older than `since`.                   *)
Hits(c, pid, since) ==
  {k \in 1..Len(ListOf(c, pid)) :
     LET id == ListOf(c, pid)[k] IN id \in StoredIds(c) /\ EventOf(c, id).at >= since}

\* The n-th of a set of places, from the last.
NthLast(places, n) ==
  CHOOSE k \in places : Cardinality({j \in places : j > k}) = n - 1

(* get_recent: walk the project's ids from the latest arrival and stop     *)
(* once `limit` events are collected.  The limit is tested after an        *)
(* append, so a limit below 1 still yields one event.                      *)
Recent(c, pid, since, limit) ==
  LET hits == Hits(c, pid, since)
  IN  [n \in 1..Min({Cardinality(hits), Max({limit, 1})}) |->
         EventOf(c, ListOf(c, pid)[NthLast(hits, n)])]

-----------------------------------------------------------------------------
(* The parts of the invariants of one cache value. *)

\* Stored events are events that were put; the index holds ids.
IsCache(c) ==
  /\ c = [store |-> c.store, byProject |-> c.byProject]
  /\ c.store \in Seq(Event)
  /\ DOMAIN c.byProject \subseteq Project
  /\ \A p \in DOMAIN c.byProject : c.byProject[p] \in Seq(EventId)

\* At most MaxEntries events, and no id twice.
IsBounded(c) ==
  /\ Len(c.store) <= MaxEntries
  /\ \A i, j \in 1..Len(c.store) : c.store[i].id = c.store[j].id => i = j

\* x occurs in the sequence s.
Occurs(s, x) == \E k \in 1..Len(s) : s[k] = x

NoRepeats(s) == \A i, j \in 1..Len(s) : s[i] = s[j] => i = j

\* The lists of the index name each stored event once, and nothing else.
IsIndexed(c) ==
  /\ \A p \in DOMAIN c.byProject : c.byProject[p] # << >> /\ NoRepeats(c.byProject[p])
  /\ \A p \in Project, id \in EventId :
        Occurs(ListOf(c, p), id)
          <=> \E i \in 1..Len(c.store) : c.store[i].id = id /\ c.store[i].project = p

\* Every stored event is on the list of some project.
IsReachable(c) ==
  \A i \in 1..Len(c.store) :
     \E p \in DOMAIN c.byProject : Occurs(c.byProject[p], c.store[i].id)

(* An event id always names the same project.  Nothing in the code         *)
(* enforces it; it is the producer's promise the index rests on.           *)
StableProject == \A e, f \in Event : e.id = f.id => e.project = f.project
=============================================================================
