----------------------------- MODULE MCToolServer -----------------------------
(* ToolServer for TLC: one client goes through the tools and their arguments, *)
(* the others ask for something of every kind, sound and unsound.             *)
EXTENDS ToolServer

CONSTANT Surveyor   \* the call of the client that tries every tool

Given(kind, size, value) == [kind |-> kind, size |-> size, value |-> value]
Seven == Given("number", 1, 7)
Name  == Given("id", 8, 0)
Prose == Given("text", 30, 0)

Asks(tool, args) == [tool |-> tool, args |-> args]

CreateFor(assignee) ==
  Asks("create_work_package",
       [subject |-> Prose, project_id |-> Name, type_id |-> Seven, assignee_id |-> assignee])

RecentFor(limit) == Asks("get_recent_events", [project_id |-> Name, limit |-> limit])

Samples ==
  {Asks("no_such_tool", << >>),
   CreateFor(Seven), CreateFor(Given("zero", 1, 0)), CreateFor(Prose),
   Asks("update_work_package", [work_package_id |-> Seven, lock_version |-> Prose]),
   Asks("update_project", [project_id |-> Name, name |-> Given("empty", 0, 0)]),
   Asks("delete_project", [project_id |-> Name]),
   Asks("list_projects", [name |-> Prose]), Asks("list_projects", << >>),
   Asks("search_work_packages", [query |-> Given("text", 201, 0)]),
   RecentFor(Absent), RecentFor(Given("number", 3, 501)),
   RecentFor(Given("cut", 3, 7)), RecentFor(Given("infinite", 3, 0))}

FieldsOf(tool) == {check.field : check \in Handlers[tool].checks}
Shapes == {Absent, Given("empty", 0, 0), Given("zero", 1, 0), Given("id", 201, 0), Prose, Seven}

\* Every tool with good arguments of which at most one has another shape.
Survey ==
  UNION {{Asks(tool, [[f \in FieldsOf(tool) |-> Seven] EXCEPT ![field] = shape]) :
            field \in FieldsOf(tool), shape \in Shapes} : tool \in DOMAIN Handlers}
  \union {Asks(tool, << >>) : tool \in {t \in DOMAIN Handlers : FieldsOf(t) = {}}}

Requests == [c \in Call |-> IF c = Surveyor THEN Survey ELSE Samples]
=============================================================================
