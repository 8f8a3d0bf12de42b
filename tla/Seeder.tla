-------------------------------- MODULE Seeder --------------------------------
(***************************************************************************)
(* seed_rest() of scripts/seed-openproject.py: the making of synthetic     *)
(* projects and work packages in an OpenProject that others use, too.      *)
(*                                                                         *)
(* Several people or jobs may seed at once, and each may run the script    *)
(* again.  A step is one request with its answer: what a run knows of      *)
(* OpenProject it learnt at an earlier step, and it may be out of date.    *)
(* OpenProject is not part of the repository; it lists projects in the     *)
(* order of their making and has each identifier once.                     *)
(***************************************************************************)
EXTENDS SequencesExt, Integers

CONSTANTS
  Seeder,        \* who runs the script, maybe several times
  N_PROJECTS,    \* the numbers of projects and work packages to make
  N_WPS,
  PageSize,      \* elements of a page of projects
  Foreign,       \* projects of others
  Lookalike,     \* those of them whose identifier begins with "bench-", too
  MaxRuns,       \* bound: runs of each seeder
  MaxRefusals,   \* bound: requests answered with an error
  MaxAborts      \* bound: runs ended by an exception or a signal

ASSUME CountAssumption ==
  N_PROJECTS \in Nat /\ N_WPS \in Nat /\ PageSize \in Nat \ {0}
ASSUME FiniteAssumption == IsFiniteSet(Foreign)
ASSUME BoundAssumption == MaxRuns \in Nat /\ MaxRefusals \in Nat /\ MaxAborts \in Nat

VARIABLES
  projects,    \* OpenProject: its projects, in the order they are listed in
  packages,    \* OpenProject: the number of work packages of each project
  stage,       \* seeder: where its run is, or how it ended
  offset,      \* seeder: where the next page begins
  existing,    \* seeder: the projects it has seen in the listing
  todo,        \* seeder: the projects it has yet to ask for
  project_ids, \* seeder: the projects it may attach work packages to
  left,        \* seeder: the work packages it has yet to ask for
  runs,        \* seeder: its runs so far
  denied,      \* history: the projects the seeder's run was refused with an error
  skipped,     \* history: the projects it passed over without a word, after a 422
  refusals, aborts   \* how much of the bounds is used

openproject == << projects, packages >>
run  == << stage, offset, existing, todo, project_ids, left >>
vars == << openproject, run, runs, denied, skipped, refusals, aborts >>

\* The projects the script makes: slug("bench", i), by their index.
Bench == 0..(N_PROJECTS - 1)
Project == Bench \union Foreign
ASSUME ForeignAssumption == Foreign \intersect Bench = {} /\ Lookalike \subseteq Foreign

\* A run ends with exit code 0 or 1, or by an exception or a signal.
Ended == {"idle", "returned 0", "returned 1", "raised"}
Stages == Ended \union {"listing", "creating", "attaching"}

Present == ToSet(projects)

\* The projects of the page that begins after `from` projects.
Page(from) == {projects[i] : i \in {j \in 1..Len(projects) : from < j /\ j <= from + PageSize}}

Init ==
  /\ projects \in SetToAllKPermutations(Foreign)
  /\ packages = [p \in Project |-> 0]
  /\ stage = [s \in Seeder |-> "idle"]
  /\ offset = [s \in Seeder |-> 0]
  /\ existing = [s \in Seeder |-> {}]
  /\ todo = [s \in Seeder |-> {}]
  /\ project_ids = [s \in Seeder |-> {}]
  /\ left = [s \in Seeder |-> 0]
  /\ runs = [s \in Seeder |-> 0]
  /\ denied = [s \in Seeder |-> {}]
  /\ skipped = [s \in Seeder |-> {}]
  /\ refusals = 0 /\ aborts = 0

-----------------------------------------------------------------------------
\* The script starts, and its key is accepted.
Begin(s) ==
  /\ stage[s] \in Ended /\ runs[s] < MaxRuns
  /\ stage' = [stage EXCEPT ![s] = "listing"]
  /\ offset' = [offset EXCEPT ![s] = 0]
  /\ existing' = [existing EXCEPT ![s] = {}]
  /\ project_ids' = [project_ids EXCEPT ![s] = {}]
  /\ denied' = [denied EXCEPT ![s] = {}]
  /\ skipped' = [skipped EXCEPT ![s] = {}]
  /\ runs' = [runs EXCEPT ![s] = @ + 1]
  /\ UNCHANGED << openproject, todo, left, refusals, aborts >>

\* Mutant of NextPage: the same page is asked for again.
NextPageAgain(from) == from

NextPage(from) == from + PageSize

(* existing_project_identifiers(): one page, by an offset into a list that *)
(* may have grown since the page before.                                   *)
ListPage(s) ==
  /\ stage[s] = "listing"
  /\ LET seen == existing[s] \union Page(offset[s])
     IN  /\ existing' = [existing EXCEPT ![s] = seen]
         /\ IF offset[s] + PageSize >= Len(projects)
            THEN /\ stage' = [stage EXCEPT ![s] = "creating"]
                 /\ todo' = [todo EXCEPT ![s] = Bench \ seen]
                 /\ UNCHANGED offset
            ELSE /\ offset' = [offset EXCEPT ![s] = NextPage(@)]
                 /\ UNCHANGED << stage, todo >>
  /\ UNCHANGED << openproject, project_ids, left, runs, denied, skipped, refusals, aborts >>

-----------------------------------------------------------------------------
(* The projects. *)

\* The next project the run asks for.
Asks(s, p) == stage[s] = "creating" /\ todo[s] # {} /\ p = Min(todo[s])

Create(p) == projects' = Append(projects, p) /\ UNCHANGED packages

\* Mutant of CreateProject: the id of a 422, which is None, is kept, too.
CreateProjectUnchecked(s, p) ==
  /\ Asks(s, p)
  /\ \/ /\ p \notin Present /\ Create(p)
        /\ project_ids' = [project_ids EXCEPT ![s] = @ \union {p}]
        /\ UNCHANGED << skipped, refusals >>
     \/ /\ p \in Present
        /\ project_ids' = [project_ids EXCEPT ![s] = @ \union {-1}]
        /\ skipped' = [skipped EXCEPT ![s] = @ \union {p}]
        /\ UNCHANGED << openproject, refusals >>
  /\ todo' = [todo EXCEPT ![s] = @ \ {p}]
  /\ UNCHANGED << stage, offset, existing, left, runs, denied, aborts >>

(* create_project(): made, or answered 422.  The run takes any 422 for a   *)
(* duplicate and passes over it: another run was faster, or OpenProject    *)
(* finds the request invalid for a reason of its own.                      *)
CreateProject(s, p) ==
  /\ Asks(s, p)
  /\ \/ /\ p \notin Present /\ Create(p)
        /\ project_ids' = [project_ids EXCEPT ![s] = @ \union {p}]
        /\ UNCHANGED << skipped, refusals >>
     \/ /\ \/ p \in Present /\ UNCHANGED refusals
           \/ p \notin Present /\ refusals < MaxRefusals /\ refusals' = refusals + 1
        /\ skipped' = [skipped EXCEPT ![s] = @ \union {p}]
        /\ UNCHANGED << openproject, project_ids >>
  /\ todo' = [todo EXCEPT ![s] = @ \ {p}]
  /\ UNCHANGED << stage, offset, existing, left, runs, denied, aborts >>

(* create_project(): another error is printed and passed over; a gateway's *)
(* may hide that the project was made.                                     *)
ProjectDenied(s, p) ==
  /\ Asks(s, p) /\ refusals < MaxRefusals
  /\ refusals' = refusals + 1
  /\ todo' = [todo EXCEPT ![s] = @ \ {p}]
  /\ denied' = [denied EXCEPT ![s] = @ \union {p}]
  /\ UNCHANGED openproject \/ (p \notin Present /\ Create(p))
  /\ UNCHANGED << stage, offset, existing, project_ids, left, runs, skipped, aborts >>

\* Mutant of FirstPage: whatever project is on the page.
FirstPageUnfiltered == Page(0)

\* The projects of the first page whose identifier begins with "bench-".
FirstPage == Page(0) \intersect (Bench \union Lookalike)

\* The run goes on to the work packages, if there is a project to attach them to.
AttachTo(s, ids) ==
  /\ project_ids' = [project_ids EXCEPT ![s] = ids]
  /\ stage' = [stage EXCEPT ![s] = IF ids = {} THEN "returned 1" ELSE "attaching"]
  /\ left' = [left EXCEPT ![s] = N_WPS]
  /\ UNCHANGED << openproject, offset, existing, todo, runs, denied, skipped, aborts >>

\* The projects are done, and the run has made some, or it has never seen one.
TakeOwn(s) ==
  /\ stage[s] = "creating" /\ todo[s] = {}
  /\ project_ids[s] # {} \/ existing[s] = {}
  /\ AttachTo(s, project_ids[s]) /\ UNCHANGED refusals

(* The run has made none, but seen some: it looks for them on the first    *)
(* page.  The answer is not checked, and an error's body has no elements.  *)
FetchProjects(s) ==
  /\ stage[s] = "creating" /\ todo[s] = {}
  /\ project_ids[s] = {} /\ existing[s] # {}
  /\ \/ AttachTo(s, FirstPage) /\ UNCHANGED refusals
     \/ refusals < MaxRefusals /\ AttachTo(s, {}) /\ refusals' = refusals + 1

-----------------------------------------------------------------------------
(* The work packages. *)

\* create_work_package(), for one of the projects at random.
AttachPackage(s, p) ==
  /\ stage[s] = "attaching" /\ left[s] > 0 /\ p \in project_ids[s]
  /\ packages' = [packages EXCEPT ![p] = @ + 1]
  /\ left' = [left EXCEPT ![s] = @ - 1]
  /\ UNCHANGED << projects, stage, offset, existing, todo, project_ids, runs, denied, skipped,
                  refusals, aborts >>

\* create_work_package() returns False, which is only not counted.
PackageDenied(s, p) ==
  /\ stage[s] = "attaching" /\ left[s] > 0 /\ p \in project_ids[s]
  /\ refusals < MaxRefusals /\ refusals' = refusals + 1
  /\ packages' \in {packages, [packages EXCEPT ![p] = @ + 1]}
  /\ left' = [left EXCEPT ![s] = @ - 1]
  /\ UNCHANGED << projects, stage, offset, existing, todo, project_ids, runs, denied,
                  skipped, aborts >>

Finish(s) ==
  /\ stage[s] = "attaching" /\ left[s] = 0
  /\ stage' = [stage EXCEPT ![s] = "returned 0"]
  /\ UNCHANGED << openproject, offset, existing, todo, project_ids, left, runs, denied, skipped,
                  refusals, aborts >>

-----------------------------------------------------------------------------
\* Mutant of Abort: what is raised while projects are made is passed over, as a 422 is.
AbortPassedOver(s) ==
  /\ stage[s] \notin Ended /\ aborts < MaxAborts
  /\ aborts' = aborts + 1
  /\ IF stage[s] = "creating" /\ todo[s] # {}
     THEN todo' = [todo EXCEPT ![s] = @ \ {Min(todo[s])}] /\ UNCHANGED stage
     ELSE stage' = [stage EXCEPT ![s] = "raised"] /\ UNCHANGED todo
  /\ UNCHANGED << openproject, offset, existing, project_ids, left, runs, denied, skipped, refusals >>

(* A request times out, raise_for_status() raises, or the script is ended: *)
(* nothing catches it.  OpenProject may have done what was asked for.      *)
Abort(s) ==
  /\ stage[s] \notin Ended /\ aborts < MaxAborts
  /\ aborts' = aborts + 1
  /\ stage' = [stage EXCEPT ![s] = "raised"]
  /\ \/ UNCHANGED openproject
     \/ \E p \in Bench \ Present : Asks(s, p) /\ Create(p)
     \/ /\ stage[s] = "attaching" /\ left[s] > 0
        /\ \E p \in project_ids[s] : packages' = [packages EXCEPT ![p] = @ + 1]
        /\ UNCHANGED projects
  /\ UNCHANGED << offset, existing, todo, project_ids, left, runs, denied, skipped, refusals >>

\* Somebody else makes a project.
ForeignProject(f) ==
  /\ f \notin Present /\ Create(f)
  /\ UNCHANGED << run, runs, denied, skipped, refusals, aborts >>

-----------------------------------------------------------------------------
Request(s) ==
  \/ ListPage(s)
  \/ \E p \in Bench : CreateProject(s, p) \/ ProjectDenied(s, p)
  \/ TakeOwn(s) \/ FetchProjects(s)
  \/ \E p \in Project : AttachPackage(s, p) \/ PackageDenied(s, p)
  \/ Finish(s)

Next ==
  \/ \E s \in Seeder : Begin(s) \/ Request(s) \/ Abort(s)
  \/ \E f \in Foreign : ForeignProject(f)

Spec == Init /\ [][Next]_vars

\* Every request is answered, or the run's time is over.
Fairness == \A s \in Seeder : WF_vars(Request(s))

FairSpec == Spec /\ Fairness

-----------------------------------------------------------------------------
TypeOK ==
  /\ projects \in Seq(Project)
  /\ packages \in [Project -> Nat]
  /\ stage \in [Seeder -> Stages]
  /\ offset \in [Seeder -> Nat]
  /\ existing \in [Seeder -> SUBSET Project]
  /\ todo \in [Seeder -> SUBSET Bench]
  /\ project_ids \in [Seeder -> SUBSET Project]
  /\ left \in [Seeder -> Nat]
  /\ runs \in [Seeder -> Nat]
  /\ denied \in [Seeder -> SUBSET Bench]
  /\ skipped \in [Seeder -> SUBSET Bench]

(* A run that finds everything made takes its projects from a page of all. *)
(* Its work packages land in no project of others whose identifier differs *)
(* from the script's in the prefix; and it turns to those that look like   *)
(* its own only if it has made none itself, since each of its own was      *)
(* listed, answered 422 or refused.                                        *)
OthersSpared ==
  /\ \A f \in Foreign \ Lookalike : packages[f] = 0
  /\ \A s \in Seeder : project_ids[s] \intersect Lookalike # {} =>
        Bench \subseteq existing[s] \union skipped[s] \union denied[s]

(* A run that returned 0 leaves no project out but those it was refused    *)
(* with an error it has printed, and those it passed over for a 422: what  *)
(* it took for existing from a listing that others were adding to, exists. *)
SuccessMeansSeeded ==
  \A s \in Seeder : stage[s] = "returned 0" =>
     Bench \subseteq Present \union denied[s] \union skipped[s]

\* Every run ends, however many projects others make while it lists them.
EveryRunEnds == \A s \in Seeder : stage[s] \notin Ended ~> stage[s] \in Ended

-----------------------------------------------------------------------------
(* The docstring: "Idempotent: skips projects/WPs whose identifier already *)
(* exists."  However often the script is run, it makes the work packages   *)
(* once.                                                                   *)
Idempotent == SumFunction(packages) <= N_WPS
=============================================================================
