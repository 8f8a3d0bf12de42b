----------------------------- MODULE EventsCache -----------------------------
(***************************************************************************)
(* One EventsCache (webhooks/events_cache.py): the replay consumer puts    *)
(* events into it, the tool get_recent_events reads it, tests clear it.    *)
(***************************************************************************)
EXTENDS CacheOps

CONSTANT Limit   \* the limits callers pass to get_recent

ASSUME LimitAssumption == Limit \subseteq Nat \ {0}

\* Nothing read yet; no project has this name.
NoProject == "none"

VARIABLES
  cache,    \* the cache, a CacheOps record
  answer    \* the last get_recent call and the list it returned

vars == << cache, answer >>

Stamp == {e.at : e \in Event} \union {0}

Init ==
  /\ cache = EmptyCache
  /\ answer = [project |-> NoProject, since |-> 0, limit |-> 1, events |-> << >>]

Put(e) ==
  /\ cache' = PutEvent(cache, e)
  /\ UNCHANGED answer

GetRecent(pid, since, limit) ==
  /\ answer' = [project |-> pid, since |-> since, limit |-> limit,
                events |-> Recent(cache, pid, since, limit)]
  /\ UNCHANGED cache

Clear ==
  /\ cache' = EmptyCache
  /\ UNCHANGED answer

Next ==
  \/ \E e \in Event : Put(e)
  \/ \E pid \in Project, since \in Stamp, limit \in Limit : GetRecent(pid, since, limit)
  \/ Clear

Spec == Init /\ [][Next]_vars

-----------------------------------------------------------------------------
(* Type invariant. *)
TypeOK == IsCache(cache)

(* The eviction loop keeps the cache within its capacity although it only  *)
(* runs on the insertion path, and no id is ever stored twice: a duplicate *)
(* would count against the capacity and make PositionOf ambiguous.         *)
Bounded == IsBounded(cache)

(* The index lists exactly the stored events: no id of an evicted event    *)
(* lingers (which would leak memory for ever), none is listed twice (which *)
(* would return it twice), no stored event is unreachable by its project,  *)
(* and no project keeps an empty list.                                     *)
IndexExact == IsIndexed(cache)

(* Also when an event id is put under one project and then under another,  *)
(* as when a work package is moved, after which the index and the store    *)
(* disagree about its project and an eviction may take the id off the      *)
(* wrong list or off none: every stored event stays on some project's      *)
(* list, so some query can still find it.                                  *)
Reachable == IsReachable(cache)

(* get_recent's docstring: "Return events for `project_id` whose           *)
(* occurred_at >= `since`".                                                *)
AnswersMatchQuery ==
  \A i \in 1..Len(answer.events) :
     answer.events[i].project = answer.project /\ answer.events[i].at >= answer.since
=============================================================================
