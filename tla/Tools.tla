-------------------------------- MODULE Tools --------------------------------
(***************************************************************************)
(* The MCP tools as tables: what each tool of tools/*.py checks of its     *)
(* arguments (with tools/_validate.py) before it calls a method of         *)
(* OpenProjectClient, which method that is, and which of the arguments the *)
(* two of them write into a URL, a filter or a link.                       *)
(*                                                                         *)
(* The handlers of list tools take their filters from a nested object,     *)
(* whose fields are arguments here.                                        *)
(***************************************************************************)
EXTENDS Integers

(* The entries of two tables, as @@ of the TLC module joins them, which    *)
(* the provers cannot expand.                                              *)
f ++ g == [x \in DOMAIN f \union DOMAIN g |-> IF x \in DOMAIN f THEN f[x] ELSE g[x]]

(* An argument, told by its kind: "empty" is the empty string, "number"    *)
(* also a string of its digits, "cut" what only int() takes for a number:  *)
(* a float with a fraction, or a digit string with a plus sign; "infinite" *)
(* is a float, "id" has letters, digits, - and _, "marks" is nothing but   *)
(* what validate_input removes, and "text" is any other.                   *)
ArgumentShape ==
  [kind  : {"absent", "null", "empty", "blank", "zero", "number", "cut", "infinite",
            "id", "marks", "text"},
   size  : Nat,    \* the length of str(value).strip()
   value : Int]    \* of a number, as int() returns it

Null(v)  == v.kind \in {"absent", "null"}
Falsy(v) == Null(v) \/ v.kind \in {"empty", "zero"}

-----------------------------------------------------------------------------
(* tools/_validate.py, and the checks that tools make themselves. *)

\* validate_id(v) returns.
ValidId(v) == v.kind \in {"zero", "number", "infinite", "id"} /\ v.size <= 100

(* validate_input(v, max) returns.  It removes characters last, so that a  *)
(* text of nothing but "marks" comes back empty.                           *)
ValidText(v, max) == ~Null(v) /\ v.kind \notin {"empty", "blank"} /\ v.size <= max

\* int(v) returns.
IsInt(v) == v.kind \in {"zero", "number", "cut"}

\* A limit of get_recent_events: nothing, or a number from 1 to max.
IsLimit(v, max) == v.kind = "absent" \/ (IsInt(v) /\ v.value \in 1..max)

-----------------------------------------------------------------------------
(* A check of one argument: how it is read, and when it is looked at.      *)

Check(field, as, max, when) == [field |-> field, as |-> as, max |-> max, when |-> when]

Id(field)        == Check(field, "id", 100, "always")
Text(field, max) == Check(field, "text", max, "always")
IfGiven(check)   == [check EXCEPT !.when = "given"]     \* if arguments.get(field):
IfNotNull(check) == [check EXCEPT !.when = "not null"]  \* if ... is not None:

\* Mutant of Passes: optional arguments are not checked.
PassesOptional(check, v) ==
  \/ check.when # "always"
  \/ check.as = "id" /\ ValidId(v)
  \/ check.as = "text" /\ ValidText(v, check.max)
  \/ check.as = "int" /\ IsInt(v)
  \/ check.as = "limit" /\ IsLimit(v, check.max)

Passes(check, v) ==
  \/ check.when = "given" /\ Falsy(v)
  \/ check.when = "not null" /\ Null(v)
  \/ check.as = "id" /\ ValidId(v)
  \/ check.as = "text" /\ ValidText(v, check.max)
  \/ check.as = "int" /\ IsInt(v)
  \/ check.as = "limit" /\ IsLimit(v, check.max)

-----------------------------------------------------------------------------
(* tools/*.py: the method called, the checks before it, and the arguments  *)
(* that the tool itself writes into links of the payload.                  *)

Tool(method, checks)            == [method |-> method, checks |-> checks, links |-> {}]
Linking(method, checks, fields) == [method |-> method, checks |-> checks, links |-> fields]

ProjectTools ==
  [list_projects       |-> Tool("get_projects", {IfGiven(Text("status", 100)), IfGiven(Text("name", 100))}),
   get_project_details |-> Tool("get_project_details", {Id("project_id")}),
   create_project      |-> Tool("create_project",
                             {Text("name", 255), Id("identifier"), IfGiven(Text("description", 5000))}),
   update_project      |-> Tool("update_project",
                             {Id("project_id"), IfGiven(Text("name", 255)), IfGiven(Text("description", 5000))}),
   delete_project      |-> Tool("delete_project", {Id("project_id")})]

WorkPackageTools ==
  [list_work_packages  |-> Tool("get_work_packages",
                             {IfGiven(Id("project_id"))} \union
                             {IfGiven(Text(f, 100)) : f \in {"assignee", "status", "type"}}),
   get_work_package    |-> Tool("get_work_package", {Id("work_package_id")}),
   create_work_package |-> Linking("create_work_package",
                             {Text("subject", 255), Id("project_id"), Id("type_id"),
                              IfGiven(Text("description", 5000)), IfGiven(Id("assignee_id"))},
                             {"project_id", "type_id", "assignee_id"}),
   update_work_package |-> Tool("update_work_package",
                             {Id("work_package_id"), Check("lock_version", "int", 0, "always"),
                              IfGiven(Text("subject", 255)), IfGiven(Text("description", 5000))}),
   delete_work_package |-> Tool("delete_work_package", {Id("work_package_id")})]

UserTools ==
  [list_users |-> Tool("get_users", {}),
   get_user   |-> Tool("get_user", {Id("user_id")})]

TimeEntryTools ==
  [list_time_entries |-> Tool("list_time_entries", {IfGiven(Id("work_package_id"))}),
   create_time_entry |-> Linking("create_time_entry",
                           {Id("work_package_id"), Text("hours", 32),
                            IfGiven(Text("spent_on", 10)), IfGiven(Text("comment", 1000))},
                           {"work_package_id"})]

LookupTools ==
  [tool \in {"list_statuses", "list_types", "list_priorities"} |-> Tool(tool, {})]

RelationTools ==
  [list_relations  |-> Tool("list_relations", {Id("work_package_id")}),
   create_relation |-> Linking("create_relation",
                         {Id("work_package_id"), Id("to_work_package_id"), Text("type", 32)},
                         {"to_work_package_id"}),
   list_watchers   |-> Tool("list_watchers", {Id("work_package_id")}),
   add_watcher     |-> Tool("add_watcher", {Id("work_package_id"), Id("user_id")})]

MembershipTools ==
  [list_memberships  |-> Tool("list_memberships", {IfGiven(Id("project_id"))}),
   create_membership |-> LET ids == {"project_id", "user_id", "role_id"}
                         IN  Linking("create_membership", {Id(f) : f \in ids}, ids)]

MiscTools ==
  [tool \in {"list_attachments", "list_activities"} |-> Tool(tool, {Id("work_package_id")})]
  ++ [tool \in {"list_categories", "list_versions"} |-> Tool(tool, {Id("project_id")})]
  ++ [tool \in {"list_queries", "get_project_hierarchy"} |-> Tool(tool, {})]
  ++ [create_version       |-> Tool("create_version", {Id("project_id"), Text("name", 255)}),
      search_work_packages |-> Tool("search_work_packages", {Text("query", 200)})]

\* The tool that reads the events cache and calls no method.
EventTools ==
  [get_recent_events |-> Tool("none", {Id("project_id"), IfNotNull(Text("since", 64)),
                                       Check("limit", "limit", 500, "always")})]

Handlers ==
  ProjectTools ++ WorkPackageTools ++ UserTools ++ TimeEntryTools ++ LookupTools
    ++ RelationTools ++ MembershipTools ++ MiscTools ++ EventTools

-----------------------------------------------------------------------------
(* api_client.py: the HTTP method, the arguments written into the URL (or  *)
(* into a link by the method itself), and those written into a filter.     *)

Api(verb, path, filter) == [verb |-> verb, path |-> path, filter |-> filter]

ProjectAndPackageMethods ==
  [get_projects        |-> Api("GET", {}, {"status", "name"}),
   get_project_details |-> Api("GET", {"project_id"}, {}),
   get_work_packages   |-> Api("GET", {}, {"project_id", "assignee", "status", "type"}),
   get_work_package    |-> Api("GET", {"work_package_id"}, {}),
   create_work_package |-> Api("POST", {}, {})]

OtherMethods ==
  [m \in {"list_attachments", "list_activities", "list_relations", "list_watchers"}
     |-> Api("GET", {"work_package_id"}, {})]
  ++ [m \in {"list_categories", "list_versions"} |-> Api("GET", {"project_id"}, {})]
  ++ [m \in {"list_queries", "get_project_hierarchy", "list_statuses", "list_types",
             "list_priorities"} |-> Api("GET", {}, {})]
  ++ [list_memberships     |-> Api("GET", {}, {"project_id"}),
      list_time_entries    |-> Api("GET", {}, {"work_package_id"}),
      search_work_packages |-> Api("GET", {}, {"query"}),
      get_user             |-> Api("GET", {"user_id"}, {}),
      create_membership    |-> Api("POST", {}, {}),
      create_time_entry    |-> Api("POST", {}, {}),
      create_version       |-> Api("POST", {"project_id"}, {}),
      create_relation      |-> Api("POST", {"work_package_id"}, {}),
      add_watcher          |-> Api("POST", {"work_package_id", "user_id"}, {})]

ChangeMethods ==
  [update_work_package |-> Api("PATCH", {"work_package_id"}, {}),
   delete_work_package |-> Api("DELETE", {"work_package_id"}, {}),
   get_users           |-> Api("GET", {}, {}),
   create_project      |-> Api("POST", {}, {}),
   update_project      |-> Api("PATCH", {"project_id"}, {}),
   delete_project      |-> Api("DELETE", {"project_id"}, {})]

Methods == ProjectAndPackageMethods ++ OtherMethods ++ ChangeMethods

-----------------------------------------------------------------------------
(* A tool request is a record of the tool's name and its arguments, a      *)
(* function of the fields that are there.                                  *)

Absent == [kind |-> "absent", size |-> 0, value |-> 0]

Argument(q, field) == IF field \in DOMAIN q.args THEN q.args[field] ELSE Absent

Checks(q) == Handlers[q.tool].checks

(* The handler gets past its checks.  Without anything to change           *)
(* update_project does not go on.                                          *)
Accepts(q) ==
  /\ \A check \in Checks(q) : Passes(check, Argument(q, check.field))
  /\ q.tool = "update_project" =>
       \E field \in {"name", "description"} : ~Falsy(Argument(q, field))

(* int() raises OverflowError for an infinite limit, which get_recent_     *)
(* events does not catch; all other handlers catch every exception.        *)
Raises(q) ==
  /\ q.tool = "get_recent_events"
  /\ \A check \in Checks(q) : check.field # "limit" => Passes(check, Argument(q, check.field))
  /\ Argument(q, "limit").kind = "infinite"

MethodOf(q) == Methods[Handlers[q.tool].method]
=============================================================================
