----------------------------- MODULE SeederProofs -----------------------------
(***************************************************************************)
(* Proofs about Seeder, for every number of seeders, projects, work        *)
(* packages and elements of a page, and whatever the bounds.               *)
(***************************************************************************)
EXTENDS Seeder, SequenceTheorems, FiniteSetTheorems, TLAPS

(* A run that makes projects has none but its own, and one that attaches   *)
(* work packages may have others, too, if their identifiers are alike.     *)
OwnIds ==
  \A s \in Seeder :
     /\ project_ids[s] \subseteq Bench \union Lookalike
     /\ stage[s] \in {"listing", "creating"} => project_ids[s] \subseteq Bench

\* What a run has learnt holds, although OpenProject changes meanwhile.
ExistingExist == \A s \in Seeder : existing[s] \subseteq Present

\* What the run has dealt with, but for the projects it has made.
Settled(s) == existing[s] \union skipped[s] \union denied[s]

(* Every project is still to be asked for, or was made, listed, passed     *)
(* over or refused; what was made or listed is there.                      *)
Accounted ==
  \A s \in Seeder :
     /\ stage[s] = "creating" => Bench \subseteq todo[s] \union project_ids[s] \union Settled(s)
     /\ stage[s] = "creating" =>
          Bench \subseteq todo[s] \union Present \union denied[s] \union skipped[s]
     /\ stage[s] \in {"attaching", "returned 0"} =>
          Bench \subseteq Present \union denied[s] \union skipped[s]

SeedInv == TypeOK /\ OthersSpared /\ OwnIds /\ ExistingExist /\ Accounted

-----------------------------------------------------------------------------
LEMMA PagesExist ==
  ASSUME projects \in Seq(Project), NEW from
  PROVE  Page(from) \subseteq Present /\ Present \subseteq Project
<1>1. DOMAIN projects = 1..Len(projects) /\ projects \in [1..Len(projects) -> Project]
  BY LenProperties
<1>2. QED
  BY <1>1 DEF Page, Present, ToSet

LEMMA CreateGrows ==
  ASSUME projects \in Seq(Project), NEW p \in Project, Create(p)
  PROVE  projects' \in Seq(Project) /\ Present' = Present \union {p} /\ packages' = packages
<1>1. /\ projects' = Append(projects, p) /\ packages' = packages
      /\ projects' \in Seq(Project) /\ Len(projects') = Len(projects) + 1
      /\ \A i \in 1..Len(projects) : projects'[i] = projects[i]
      /\ projects'[Len(projects) + 1] = p
  BY AppendProperties DEF Create
<1>2. /\ DOMAIN projects = 1..Len(projects) /\ Len(projects) \in Nat
      /\ DOMAIN projects' = 1..(Len(projects) + 1)
  BY <1>1, LenProperties
<1>3. QED
  BY <1>1, <1>2 DEF Present, ToSet

(* OpenProject only ever gains projects, and work packages only by a run   *)
(* that attaches them.                                                     *)
LEMMA WorldStep ==
  ASSUME TypeOK, OwnIds, [Next]_vars
  PROVE  /\ projects' \in Seq(Project) /\ Present \subseteq Present'
         /\ packages' \in [Project -> Nat]
         /\ \A f \in Foreign \ Lookalike : packages'[f] = packages[f]
<1> DEFINE Grown == /\ projects' \in Seq(Project) /\ Present \subseteq Present'
                    /\ packages' \in [Project -> Nat]
                    /\ \A f \in Foreign \ Lookalike : packages'[f] = packages[f]
<1>1. projects \in Seq(Project) /\ packages \in [Project -> Nat]
  BY DEF TypeOK
<1>2. CASE UNCHANGED openproject
  BY <1>1, <1>2 DEF openproject, Present
<1>3. ASSUME NEW p \in Project, Create(p) PROVE Grown
  BY <1>1, <1>3, CreateGrows
<1>4. ASSUME NEW s \in Seeder, NEW p \in project_ids[s],
             UNCHANGED projects, packages' \in {packages, [packages EXCEPT ![p] = @ + 1]}
      PROVE  Grown
  <2>1. p \in Bench \union Lookalike /\ p \notin Foreign \ Lookalike /\ p \in Project
    BY ForeignAssumption DEF OwnIds, Project
  <2>2. Present' = Present
    BY <1>4 DEF Present
  <2>3. [packages EXCEPT ![p] = @ + 1] \in [Project -> Nat]
    BY <1>1, <2>1
  <2>4. \A f \in Foreign \ Lookalike : packages'[f] = packages[f]
    BY <1>1, <1>4, <2>1 DEF Project
  <2>5. QED
    BY <1>1, <1>4, <2>2, <2>3, <2>4
<1>5. ASSUME NEW s \in Seeder, Abort(s) PROVE Grown
  <2>1. CASE \E p \in Bench \ Present : Asks(s, p) /\ Create(p)
    BY <2>1, <1>3 DEF Project
  <2>2. CASE /\ \E p \in project_ids[s] : packages' = [packages EXCEPT ![p] = @ + 1]
             /\ UNCHANGED projects
    BY <2>2, <1>4
  <2>3. QED
    BY <1>2, <1>5, <2>1, <2>2 DEF Abort
<1>6. ASSUME NEW s \in Seeder, Request(s) PROVE Grown
  <2>1. ASSUME NEW p \in Bench, CreateProject(s, p) \/ ProjectDenied(s, p) PROVE Grown
    BY <1>2, <1>3, <2>1 DEF CreateProject, ProjectDenied, Project, openproject
  <2>2. ASSUME NEW p \in Project, AttachPackage(s, p) \/ PackageDenied(s, p) PROVE Grown
    BY <1>4, <2>2 DEF AttachPackage, PackageDenied
  <2>3. QED
    BY <1>2, <1>6, <2>1, <2>2 DEF Request, ListPage, TakeOwn, FetchProjects, AttachTo, Finish
<1>7. ASSUME NEW f \in Foreign, ForeignProject(f) PROVE Grown
  BY <1>3, <1>7 DEF ForeignProject, Project
<1>8. QED
  BY <1>2, <1>5, <1>6, <1>7 DEF Next, vars, Begin

-----------------------------------------------------------------------------
(* The state of the runs. *)

RunTypes ==
  /\ stage \in [Seeder -> Stages]
  /\ offset \in [Seeder -> Nat]
  /\ existing \in [Seeder -> SUBSET Project]
  /\ todo \in [Seeder -> SUBSET Bench]
  /\ project_ids \in [Seeder -> SUBSET Project]
  /\ left \in [Seeder -> Nat]
  /\ runs \in [Seeder -> Nat]
  /\ denied \in [Seeder -> SUBSET Bench]
  /\ skipped \in [Seeder -> SUBSET Bench]

LEMMA Updated ==
  ASSUME NEW S, NEW T, NEW f \in [S -> T], NEW s \in S, NEW v \in T
  PROVE  [f EXCEPT ![s] = v] \in [S -> T]
OBVIOUS

LEMMA RunTypesStep == SeedInv /\ [Next]_vars => RunTypes'
<1> SUFFICES ASSUME SeedInv, [Next]_vars PROVE RunTypes'
  OBVIOUS
<1>1. RunTypes /\ projects \in Seq(Project)
  BY DEF SeedInv, TypeOK, RunTypes
<1>2. ASSUME NEW s \in Seeder, Begin(s) PROVE RunTypes'
  <2>1. /\ "listing" \in Stages /\ 0 \in Nat /\ {} \in SUBSET Project /\ {} \in SUBSET Bench
        /\ runs[s] + 1 \in Nat
    BY <1>1 DEF RunTypes, Stages
  <2>2. /\ stage' \in [Seeder -> Stages] /\ offset' \in [Seeder -> Nat]
        /\ existing' \in [Seeder -> SUBSET Project]
    BY <1>1, <1>2, <2>1, Updated DEF Begin, RunTypes
  <2>3. /\ project_ids' \in [Seeder -> SUBSET Project] /\ denied' \in [Seeder -> SUBSET Bench]
        /\ runs' \in [Seeder -> Nat]
    BY <1>1, <1>2, <2>1, Updated DEF Begin, RunTypes
  <2>4. skipped' \in [Seeder -> SUBSET Bench]
    BY <1>1, <1>2, <2>1, Updated DEF Begin, RunTypes
  <2>5. QED
    BY <1>1, <1>2, <2>2, <2>3, <2>4 DEF Begin, RunTypes
<1>3. ASSUME NEW s \in Seeder, ListPage(s) PROVE RunTypes'
  <2>1. existing[s] \union Page(offset[s]) \subseteq Project
    BY <1>1, PagesExist DEF RunTypes
  <2>2. NextPage(offset[s]) \in Nat
    BY <1>1, CountAssumption DEF NextPage, RunTypes
  <2>3. /\ "creating" \in Stages
        /\ Bench \ (existing[s] \union Page(offset[s])) \in SUBSET Bench
    BY DEF Stages
  <2>4. existing' \in [Seeder -> SUBSET Project]
    BY <1>1, <1>3, <2>1, Updated DEF ListPage, RunTypes
  <2>5. stage' \in [Seeder -> Stages] /\ offset' \in [Seeder -> Nat]
    <3>1. stage' \in {stage, [stage EXCEPT ![s] = "creating"]}
      BY <1>3 DEF ListPage
    <3>2. offset' \in {offset, [offset EXCEPT ![s] = NextPage(@)]}
      BY <1>3 DEF ListPage
    <3>3. stage \in [Seeder -> Stages] /\ offset \in [Seeder -> Nat]
      BY <1>1 DEF RunTypes
    <3>4. stage' \in [Seeder -> Stages]
      BY <2>3, <3>1, <3>3
    <3>5. offset' \in [Seeder -> Nat]
      BY <2>2, <3>2, <3>3
    <3>6. QED
      BY <3>4, <3>5
  <2>6. todo' \in [Seeder -> SUBSET Bench]
    <3>1. todo' \in {todo, [todo EXCEPT ![s] = Bench \ (existing[s] \union Page(offset[s]))]}
      BY <1>3 DEF ListPage
    <3>2. QED
      BY <1>1, <2>3, <3>1, Updated DEF RunTypes
  <2>7. QED
    BY <1>1, <1>3, <2>4, <2>5, <2>6 DEF ListPage, RunTypes
<1>4. ASSUME NEW s \in Seeder, NEW p \in Bench, CreateProject(s, p) \/ ProjectDenied(s, p)
      PROVE  RunTypes'
  <2>1. /\ todo[s] \ {p} \in SUBSET Bench /\ denied[s] \union {p} \in SUBSET Bench
        /\ skipped[s] \union {p} \in SUBSET Bench
        /\ project_ids[s] \union {p} \in SUBSET Project
    BY <1>1 DEF RunTypes, Project
  <2>2. todo' \in [Seeder -> SUBSET Bench]
    BY <1>1, <1>4, <2>1, Updated DEF CreateProject, ProjectDenied, RunTypes
  <2>3. project_ids' \in [Seeder -> SUBSET Project]
    BY <1>1, <1>4, <2>1, Updated DEF CreateProject, ProjectDenied, RunTypes
  <2>4. denied' \in [Seeder -> SUBSET Bench]
    BY <1>1, <1>4, <2>1, Updated DEF CreateProject, ProjectDenied, RunTypes
  <2>5. skipped' \in [Seeder -> SUBSET Bench]
    BY <1>1, <1>4, <2>1, Updated DEF CreateProject, ProjectDenied, RunTypes
  <2>6. QED
    BY <1>1, <1>4, <2>2, <2>3, <2>4, <2>5 DEF CreateProject, ProjectDenied, RunTypes
<1>5. ASSUME NEW s \in Seeder, NEW ids \in SUBSET Project, AttachTo(s, ids)
      PROVE  RunTypes'
  BY <1>1, <1>5, CountAssumption DEF AttachTo, RunTypes, Stages, Ended
<1>6. ASSUME NEW s \in Seeder, TakeOwn(s) \/ FetchProjects(s) PROVE RunTypes'
  <2>1. project_ids[s] \in SUBSET Project /\ FirstPage \in SUBSET Project
    BY <1>1, PagesExist DEF RunTypes, FirstPage
  <2>2. QED
    BY <1>5, <1>6, <2>1 DEF TakeOwn, FetchProjects
<1>7. ASSUME NEW s \in Seeder, NEW p \in Project, AttachPackage(s, p) \/ PackageDenied(s, p)
      PROVE  RunTypes'
  <2>1. left[s] - 1 \in Nat
    BY <1>1, <1>7 DEF AttachPackage, PackageDenied, RunTypes
  <2>2. QED
    BY <1>1, <1>7, <2>1 DEF AttachPackage, PackageDenied, RunTypes
<1>8. ASSUME NEW s \in Seeder, Finish(s) \/ Abort(s) PROVE RunTypes'
  BY <1>1, <1>8 DEF Finish, Abort, RunTypes, Stages, Ended
<1>9. CASE UNCHANGED << run, runs, denied, skipped >>
  BY <1>1, <1>9 DEF run, RunTypes
<1>10. QED
  BY <1>2, <1>3, <1>4, <1>6, <1>7, <1>8, <1>9 DEF Next, Request, vars, ForeignProject

\* The second part of OthersSpared.
SparedIds ==
  \A s \in Seeder : project_ids[s] \intersect Lookalike # {} => Bench \subseteq Settled(s)

\* All of the invariant that is about one run.
RunKnows(s) ==
  /\ project_ids[s] \subseteq Bench \union Lookalike
  /\ stage[s] \in {"listing", "creating"} => project_ids[s] \subseteq Bench
  /\ existing[s] \subseteq Present
  /\ stage[s] = "creating" => Bench \subseteq todo[s] \union project_ids[s] \union Settled(s)
  /\ stage[s] = "creating" =>
       Bench \subseteq todo[s] \union Present \union denied[s] \union skipped[s]
  /\ stage[s] \in {"attaching", "returned 0"} =>
       Bench \subseteq Present \union denied[s] \union skipped[s]
  /\ project_ids[s] \intersect Lookalike # {} => Bench \subseteq Settled(s)

(* A run keeps what it has learnt, and what it learns is so. *)
LEMMA KnowledgeStep ==
  SeedInv /\ [Next]_vars => OwnIds' /\ ExistingExist' /\ Accounted' /\ SparedIds'
<1> SUFFICES ASSUME SeedInv, [Next]_vars, NEW r \in Seeder PROVE RunKnows(r)'
  BY DEF OwnIds, ExistingExist, Accounted, SparedIds, RunKnows
<1>1. RunTypes /\ projects \in Seq(Project)
  BY DEF SeedInv, TypeOK, RunTypes
<1>2. RunKnows(r)
  BY DEF SeedInv, OwnIds, ExistingExist, Accounted, OthersSpared, Settled, RunKnows
<1>3. Present \subseteq Present'
  BY WorldStep DEF SeedInv
<1>4. ASSUME stage'[r] = stage[r], existing'[r] = existing[r], todo'[r] = todo[r],
             project_ids'[r] = project_ids[r], denied'[r] = denied[r], skipped'[r] = skipped[r]
      PROVE  RunKnows(r)'
  BY <1>2, <1>3, <1>4 DEF RunKnows, Settled
<1>5. ASSUME NEW s \in Seeder, s # r, Begin(s) \/ Request(s) \/ Abort(s) PROVE RunKnows(r)'
  <2>1. /\ stage'[r] = stage[r] /\ existing'[r] = existing[r] /\ todo'[r] = todo[r]
        /\ project_ids'[r] = project_ids[r] /\ denied'[r] = denied[r]
        /\ skipped'[r] = skipped[r]
    BY <1>1, <1>5 DEF Begin, Request, Abort, ListPage, CreateProject, ProjectDenied, TakeOwn,
       FetchProjects, AttachTo, AttachPackage, PackageDenied, Finish, RunTypes
  <2>2. QED
    BY <1>4, <2>1
<1>6. CASE Begin(r)
  <2>1. /\ stage'[r] = "listing" /\ existing'[r] = {} /\ project_ids'[r] = {}
    BY <1>1, <1>6 DEF Begin, RunTypes
  <2>2. QED
    BY <2>1 DEF RunKnows
<1>7. CASE ListPage(r)
  <2>1. /\ existing'[r] = existing[r] \union Page(offset[r]) /\ Page(offset[r]) \subseteq Present
        /\ project_ids' = project_ids /\ stage[r] = "listing"
        /\ \/ stage'[r] = "creating" /\ todo'[r] = Bench \ existing'[r]
           \/ stage'[r] = "listing"
    BY <1>1, <1>7, PagesExist DEF ListPage, RunTypes
  <2>2. project_ids'[r] \subseteq Bench /\ existing'[r] \subseteq Present'
    BY <1>2, <1>3, <2>1 DEF RunKnows
  <2>3. project_ids'[r] \intersect Lookalike = {}
    BY <2>2, ForeignAssumption
  <2>4. QED
    BY <2>1, <2>2, <2>3 DEF RunKnows, Settled
<1>8. ASSUME NEW p \in Bench, CreateProject(r, p) \/ ProjectDenied(r, p) PROVE RunKnows(r)'
  <2>1. p \in Present' \union denied'[r] \union skipped'[r]
    <3>1. CASE Create(p)
      BY <1>1, <3>1, CreateGrows DEF Project
    <3>2. CASE skipped' = [skipped EXCEPT ![r] = @ \union {p}]
      BY <1>1, <3>2 DEF RunTypes
    <3>3. CASE ProjectDenied(r, p)
      BY <1>1, <3>3 DEF ProjectDenied, RunTypes
    <3>4. QED
      BY <1>8, <3>1, <3>2, <3>3 DEF CreateProject
  <2>2. p \in project_ids'[r] \union denied'[r] \union skipped'[r]
    BY <1>1, <1>8 DEF CreateProject, ProjectDenied, RunTypes
  <2>3. /\ stage[r] = "creating" /\ stage'[r] = stage[r] /\ existing'[r] = existing[r]
        /\ todo'[r] = todo[r] \ {p} /\ denied[r] \subseteq denied'[r]
        /\ skipped[r] \subseteq skipped'[r] /\ project_ids[r] \subseteq project_ids'[r]
        /\ project_ids'[r] \subseteq project_ids[r] \union {p}
    BY <1>1, <1>8 DEF CreateProject, ProjectDenied, Asks, RunTypes
  <2>4. project_ids'[r] \subseteq Bench /\ existing'[r] \subseteq Present'
    BY <1>2, <1>3, <2>3 DEF RunKnows
  <2>5. project_ids'[r] \intersect Lookalike = {}
    BY <2>4, ForeignAssumption
  <2>6. Bench \subseteq todo'[r] \union Present' \union denied'[r] \union skipped'[r]
    BY <1>2, <1>3, <2>1, <2>3 DEF RunKnows
  <2>7. Bench \subseteq todo'[r] \union project_ids'[r] \union Settled(r)'
    BY <1>2, <2>2, <2>3 DEF RunKnows, Settled
  <2>8. QED
    BY <2>3, <2>4, <2>5, <2>6, <2>7 DEF RunKnows
<1>9. CASE TakeOwn(r) \/ FetchProjects(r)
  <2>1. /\ stage[r] = "creating" /\ todo[r] = {} /\ stage'[r] \in {"returned 1", "attaching"}
        /\ existing' = existing /\ denied' = denied /\ skipped' = skipped
        /\ \/ project_ids'[r] = project_ids[r]
           \/ project_ids[r] = {} /\ project_ids'[r] \in {FirstPage, {}}
    BY <1>1, <1>9 DEF TakeOwn, FetchProjects, AttachTo, RunTypes
  <2>2. FirstPage \subseteq Bench \union Lookalike
    BY DEF FirstPage
  <2>3. project_ids'[r] \intersect Lookalike # {} => Bench \subseteq Settled(r)
    BY <1>2, <2>1, ForeignAssumption DEF RunKnows
  <2>4. Settled(r)' = Settled(r) /\ existing'[r] \subseteq Present'
    BY <1>2, <1>3, <2>1 DEF RunKnows, Settled
  <2>5. project_ids'[r] \subseteq Bench \union Lookalike
    BY <1>2, <2>1, <2>2 DEF RunKnows
  <2>6. Bench \subseteq Present' \union denied'[r] \union skipped'[r]
    BY <1>2, <1>3, <2>1 DEF RunKnows
  <2>7. QED
    BY <2>1, <2>3, <2>4, <2>5, <2>6 DEF RunKnows
<1>10. ASSUME Finish(r) \/ Abort(r) PROVE RunKnows(r)'
  <2>1. /\ existing'[r] = existing[r] /\ project_ids'[r] = project_ids[r]
        /\ denied'[r] = denied[r] /\ skipped'[r] = skipped[r]
        /\ \/ stage'[r] = "returned 0" /\ stage[r] = "attaching"
           \/ stage'[r] = "raised"
    BY <1>1, <1>10 DEF Finish, Abort, RunTypes
  <2>2. QED
    BY <1>2, <1>3, <2>1 DEF RunKnows, Settled
<1>11. ASSUME NEW p \in Project, AttachPackage(r, p) \/ PackageDenied(r, p) PROVE RunKnows(r)'
  BY <1>4, <1>11 DEF AttachPackage, PackageDenied
<1>12. CASE UNCHANGED << run, denied, skipped >>
  BY <1>4, <1>12 DEF run
<1>13. QED
  BY <1>5, <1>6, <1>7, <1>8, <1>9, <1>10, <1>11, <1>12 DEF Next, Request, vars, ForeignProject

LEMMA SeederInvariant == Spec => []SeedInv
<1>1. Init => SeedInv
  <2> SUFFICES ASSUME Init PROVE SeedInv
    OBVIOUS
  <2>1. projects \in Seq(Project)
    <3>1. PICK F \in SUBSET Foreign : projects \in SetToSeqs(F)
      BY DEF Init, SetToAllKPermutations
    <3>2. Cardinality(F) \in Nat /\ projects \in [1..Cardinality(F) -> F]
      BY <3>1, FiniteAssumption, FS_Subset, FS_CardinalityType DEF SetToSeqs
    <3>3. QED
      BY <3>2 DEF Project
  <2>2. TypeOK
    BY <2>1 DEF Init, TypeOK, Stages, Ended
  <2>3. QED
    BY <2>2 DEF Init, SeedInv, OthersSpared, OwnIds, ExistingExist, Accounted, Project
<1>2. SeedInv /\ [Next]_vars => SeedInv'
  <2> SUFFICES ASSUME SeedInv, [Next]_vars PROVE SeedInv'
    OBVIOUS
  <2>1. RunTypes' /\ OwnIds' /\ ExistingExist' /\ Accounted' /\ SparedIds'
    BY RunTypesStep, KnowledgeStep
  <2>2. projects' \in Seq(Project) /\ packages' \in [Project -> Nat] /\ OthersSpared'
    BY <2>1, WorldStep DEF SeedInv, OthersSpared, SparedIds, Settled
  <2>3. QED
    BY <2>1, <2>2 DEF SeedInv, TypeOK, RunTypes
<1>3. QED
  BY <1>1, <1>2, PTL DEF Spec

-----------------------------------------------------------------------------
(* The theorems. *)

(* Every variable keeps its type. *)
THEOREM TypeCorrect == Spec => []TypeOK
<1>1. SeedInv => TypeOK
  BY DEF SeedInv
<1>2. QED
  BY <1>1, SeederInvariant, PTL

(* No run of the seeder, be it refused, aborted or raced by another, puts  *)
(* a work package into a project of others whose identifier does not begin *)
(* with "bench-"; and a run turns to those that do only when each of its   *)
(* own projects was listed, passed over for a 422 or refused.              *)
THEOREM OthersAreSpared == Spec => []OthersSpared
<1>1. SeedInv => OthersSpared
  BY DEF SeedInv
<1>2. QED
  BY <1>1, SeederInvariant, PTL

(* A run that returns 0 has seen to every project: each exists, whoever    *)
(* else made projects meanwhile, or was refused to this very run with an   *)
(* error that it printed, or passed over for a 422.                        *)
THEOREM SuccessIsSeeding == Spec => []SuccessMeansSeeded
<1>1. SeedInv => SuccessMeansSeeded
  BY DEF SeedInv, Accounted, SuccessMeansSeeded
<1>2. QED
  BY <1>1, SeederInvariant, PTL
=============================================================================
