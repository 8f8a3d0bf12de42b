-------------------------- MODULE EventsCacheHistory --------------------------
(***************************************************************************)
(* EventsCache with the history of its puts, which the code does not keep, *)
(* and the refinement of RecentEvents that the history makes stateable.    *)
(***************************************************************************)
EXTENDS EventsCache

CONSTANT MaxHistory   \* bound on the puts between two clears

VARIABLE hist         \* the puts since the last clear

HInit == Init /\ hist = << >>

HPut(e) ==
  /\ Len(hist) < MaxHistory
  /\ Put(e)
  /\ hist' = Append(hist, e)

HNext ==
  \/ \E e \in Event : HPut(e)
  \/ /\ \E pid \in Project, since \in Stamp, limit \in Limit : GetRecent(pid, since, limit)
     /\ UNCHANGED hist
  \/ Clear /\ hist' = << >>

HSpec == HInit /\ [][HNext]_<< vars, hist >>

Feed == INSTANCE RecentEvents
          WITH Capacity <- MaxEntries, Stamps <- Stamp, Nobody <- NoProject

(* The cache implements the abstract feed: bumps, evictions, the project   *)
(* index and the limit of get_recent together never lose one of the most   *)
(* recent events, never resurrect an old version or an evicted event, and  *)
(* never let an older event displace a newer one in an answer.             *)
ImplementsFeed == Feed!Spec

(* The store is exactly what the history says: the MaxEntries ids put last,*)
(* each with its last version, least recent first.                         *)
StoreIsRecentHistory ==
  /\ StoredIds(cache) = Feed!Held(hist)
  /\ \A i \in 1..Len(cache.store) :
        cache.store[i] = hist[Feed!LastPut(hist, cache.store[i].id)]
  /\ \A i, j \in 1..Len(cache.store) : i < j =>
        Feed!LastPut(hist, cache.store[i].id) < Feed!LastPut(hist, cache.store[j].id)
=============================================================================
