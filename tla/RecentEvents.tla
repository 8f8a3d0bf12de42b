---------------------------- MODULE RecentEvents ----------------------------
(***************************************************************************)
(* What the events cache promises its readers, with no cache in it: only   *)
(* the history of the puts since it was last cleared.                      *)
(*                                                                         *)
(* It holds the latest version of each of the Capacity ids put most        *)
(* recently, and a query is answered with as many of the matching events   *)
(* as the limit allows, newest first.  Two events put more than once each  *)
(* may have interleaved; the order is only promised for events of which    *)
(* one is older in every respect.                                          *)
(***************************************************************************)
EXTENDS Naturals, Sequences, SequencesExt

CONSTANTS Project, Event, Capacity, Limit, Stamps, Nobody

VARIABLES hist, answer

vars == << hist, answer >>

IdsOf(h) == {h[i].id : i \in 1..Len(h)}

PutsOf(h, id) == {i \in 1..Len(h) : h[i].id = id}

LastPut(h, id) == Max(PutsOf(h, id))

Held(h) ==
  {id \in IdsOf(h) :
     Cardinality({j \in IdsOf(h) : LastPut(h, j) > LastPut(h, id)}) < Capacity}

Matching(h, pid, since) ==
  {e \in {h[LastPut(h, id)] : id \in Held(h)} : e.project = pid /\ e.at >= since}

\* Every put of e came before every put of f.
Older(h, e, f) == \A i \in PutsOf(h, e.id), j \in PutsOf(h, f.id) : i < j

IsAnswer(h, events, matching, limit) ==
  /\ IsInjective(events)
  /\ Len(events) = Min({limit, Cardinality(matching)})
  /\ \A i, j \in 1..Len(events) : i < j => ~Older(h, events[i], events[j])
  /\ \A i \in 1..Len(events), e \in matching \ ToSet(events) : ~Older(h, events[i], e)

Init ==
  /\ hist = << >>
  /\ answer = [project |-> Nobody, since |-> 0, limit |-> 1, events |-> << >>]

Put(e) == hist' = Append(hist, e) /\ UNCHANGED answer

Read(pid, since, limit) ==
  LET matching == Matching(hist, pid, since)
  IN  /\ \E events \in SeqOf(matching, limit) :
           /\ IsAnswer(hist, events, matching, limit)
           /\ answer' = [project |-> pid, since |-> since, limit |-> limit, events |-> events]
      /\ UNCHANGED hist

Clear == hist' = << >> /\ UNCHANGED answer

Next ==
  \/ \E e \in Event : Put(e)
  \/ \E pid \in Project, since \in Stamps, limit \in Limit : Read(pid, since, limit)
  \/ Clear

Spec == Init /\ [][Next]_vars
=============================================================================
