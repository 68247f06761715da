------------------------------- MODULE Planning -------------------------------
(***************************************************************************)
(* ProjectsService, the creation of tickets with auto-assignment, and the  *)
(* CSV import, composed with UsersService: what these handlers check first *)
(* (a project, an assignee, the workload) others may change before the row *)
(* is inserted.  Requests come here past the guards, which Sessions has.   *)
(***************************************************************************)
EXTENDS Accounts, Sequences

CONSTANTS InitialProjects,  \* id -> row
          InitialTickets,   \* id -> row
          Nobody,           \* assignee_id NULL
          Registered,       \* users.created_at, by user
          MaxChanges        \* how many updates of tickets come in between

ProjectIds == DOMAIN InitialProjects \cup Requests
ProjectFields == {"name", "description"}

ProjectRow(row) ==
  /\ DOMAIN row = {"name", "description", "owner", "deleted"}
  /\ row.owner \in UserIds /\ row.deleted \in BOOLEAN

Ops == {"update", "remove", "add", "rename", "drop", "restore", "create", "import"}

Tickets == [project : ProjectIds, assignee : UserIds \cup {Nobody}, open : BOOLEAN]

ASSUME PlanningAssumption ==
  /\ Nobody \notin UserIds /\ DOMAIN InitialProjects \cap Requests = {}
  /\ \A p \in DOMAIN InitialProjects : /\ ProjectRow(InitialProjects[p])
                                       /\ InitialProjects[p].owner \in DOMAIN InitialUsers
  /\ InitialTickets \in [DOMAIN InitialTickets -> Tickets] /\ IsFiniteSet(DOMAIN InitialTickets)
  /\ \A t \in DOMAIN InitialTickets :
       /\ InitialTickets[t].assignee \in DOMAIN InitialUsers \cup {Nobody}
       /\ InitialTickets[t].project \in DOMAIN InitialProjects
       /\ t[1] \notin Requests
  /\ Registered \in [DOMAIN InitialUsers -> Nat]
  /\ \A c \in Calls : /\ c.op \in Ops
                      /\ c.op = "rename" => DOMAIN c.sent \subseteq ProjectFields
                      /\ c.op = "create" => c.open \in BOOLEAN
  /\ MaxChanges \in Nat

VARIABLES projects,   \* projects, id -> row
          tickets,    \* tickets, <<request, row>> -> row
          seen,       \* the project row a request read
          pick,       \* autoAssignedId
          summary,    \* an import's [row, created, failed]
          candidates, \* ghost: the developers in the workload that was read
          writes,     \* ghost: writes since then that change the workload
          gone,       \* ghost: the projects that were deleted when the request came
          changes     \* updates of tickets so far

planVars == <<projects, tickets, seen, pick, summary, candidates, writes, gone>>
vars == <<accountVars, planVars, changes>>

-----------------------------------------------------------------------------
\* Mutant: deleted_at is not looked at.
Exists(p) == p \in DOMAIN projects

Active(p) == p \in DOMAIN projects /\ ~projects[p].deleted

Receive(r) ==
  /\ pc[r] = "new"
  /\ \E c \in Calls :
       /\ call' = [call EXCEPT ![r] = c]
       /\ goto(r, CASE c.op = "remove"  -> "find"
                    [] c.op = "update"  -> IF DOMAIN c.sent = {} THEN "400" ELSE "find"
                    [] c.op = "add"     -> "owner"
                    [] c.op = "rename"  -> IF DOMAIN c.sent = {} THEN "400" ELSE "project"
                    [] c.op = "restore" -> "anyState"
                    [] OTHER            -> "project")
  /\ gone' = [gone EXCEPT ![r] = {p \in DOMAIN projects : projects[p].deleted}]
  /\ UNCHANGED <<users, log, before, entry, overlap, faults,
                 projects, tickets, seen, pick, summary, candidates, writes>>

\* getOrThrow and assertExists; an import then parses its file.
FindProject(r) ==
  /\ pc[r] = "project"
  /\ LET c == call[r]
     IN  IF Active(c.project)
         THEN /\ seen' = [seen EXCEPT ![r] = projects[c.project]]
              /\ goto(r, CASE c.op = "rename" -> "rename"
                           [] c.op = "drop"   -> "drop"
                           [] c.op = "create" -> IF c.assignee = Nobody THEN "workload"
                                                 ELSE "assignee"
                           [] c.op = "import" -> IF c.parses THEN "rows" ELSE "400")
         ELSE goto(r, "404") /\ UNCHANGED seen
  /\ UNCHANGED <<users, log, call, before, entry, overlap, faults,
                 projects, tickets, pick, summary, candidates, writes, gone>>

\* create: the owner exists ...
FindOwner(r) ==
  /\ pc[r] = "owner"
  /\ goto(r, IF call[r].owner \in DOMAIN users THEN "addProject" ELSE "404")
  /\ UNCHANGED <<users, log, call, before, entry, overlap, faults, planVars>>

\* ... and the foreign key decides.
InsertProject(r) ==
  /\ pc[r] = "addProject"
  /\ \/ call[r].owner \notin DOMAIN users /\ goto(r, "400") /\ Succeeds
        /\ UNCHANGED <<projects, entry>>
     \/ /\ call[r].owner \in DOMAIN users
        /\ projects' = Put(projects, r, [name |-> "new", description |-> "null",
                                          owner |-> call[r].owner, deleted |-> FALSE])
        /\ entry' = [entry EXCEPT ![r] = [action |-> "CREATE", project |-> r, by |-> r]]
        /\ Done(r, "log")
  /\ UNCHANGED <<users, log, call, before, overlap,
                 tickets, seen, pick, summary, candidates, writes, gone>>

\* A statement on the row of a project, WHERE ...; without a row, 404.  The entry has
\* the name that was read or, of an update, what the row now has that it had not.
OnProject(r, where, row, action) ==
  LET p == call[r].project
  IN  /\ \/ ~where /\ goto(r, "404") /\ Succeeds /\ UNCHANGED <<projects, entry>>
         \/ /\ where /\ projects' = [projects EXCEPT ![p] = row]
            /\ entry' = [entry EXCEPT ![r] =
                 [action |-> action, project |-> p, by |-> r,
                  metadata |-> IF action = "UPDATE" THEN Diff(seen[r], row, ProjectFields)
                               ELSE [name |-> seen[r].name]]]
            /\ Done(r, "log")
      /\ UNCHANGED <<users, log, call, before, overlap,
                     tickets, seen, pick, summary, candidates, writes, gone>>

RenameProject(r) ==
  /\ pc[r] = "rename"
  /\ OnProject(r, Active(call[r].project), Set(projects[call[r].project], call[r].sent), "UPDATE")

\* Mutant: the row count of the UPDATE is not looked at.
SoftDeleteAgain(r) ==
  /\ pc[r] = "drop"
  /\ OnProject(r, TRUE, [projects[call[r].project] EXCEPT !.deleted = TRUE], "DELETE")

SoftDelete(r) ==
  /\ pc[r] = "drop"
  /\ OnProject(r, Active(call[r].project),
               [projects[call[r].project] EXCEPT !.deleted = TRUE], "DELETE")

\* restore: findByIdAnyState ...
FindAnyState(r) ==
  /\ pc[r] = "anyState"
  /\ LET p == call[r].project
     IN  IF p \notin DOMAIN projects THEN goto(r, "404") /\ UNCHANGED seen
         ELSE /\ seen' = [seen EXCEPT ![r] = projects[p]]
              /\ goto(r, IF projects[p].deleted THEN "restore" ELSE "409")
  /\ UNCHANGED <<users, log, call, before, entry, overlap, faults,
                 projects, tickets, pick, summary, candidates, writes, gone>>

\* ... and an UPDATE whose row count is not looked at.
RestoreProject(r) ==
  /\ pc[r] = "restore"
  /\ OnProject(r, TRUE, [projects[call[r].project] EXCEPT !.deleted = FALSE], "RESTORE")

-----------------------------------------------------------------------------
\* COUNT of a user's tickets in a project that are neither DONE nor deleted.
Load(u, p) ==
  Cardinality({t \in DOMAIN tickets : /\ tickets[t].assignee = u /\ tickets[t].project = p
                                      /\ tickets[t].open})

Developers == {u \in DOMAIN users : users[u].role = "DEVELOPER"}

\* Mutant: the longest-registered developer comes first.
BeforeByAge(u, v, p) == Registered[u] < Registered[v]

\* ORDER BY count, created_at.
Before(u, v, p) ==
  \/ Load(u, p) < Load(v, p)
  \/ Load(u, p) = Load(v, p) /\ Registered[u] < Registered[v]

\* The assignee that was sent exists.
FindAssignee(r) ==
  /\ pc[r] = "assignee"
  /\ goto(r, IF call[r].assignee \in DOMAIN users THEN "addTicket" ELSE "404")
  /\ UNCHANGED <<users, log, call, before, entry, overlap, faults, planVars>>

\* None was sent: the first row of workloadByProject, or nobody.
Workload(r) ==
  /\ pc[r] = "workload" /\ goto(r, "addTicket")
  /\ LET p == call[r].project
     IN  \/ \E u \in Developers : /\ \A v \in Developers : ~Before(v, u, p)
                                  /\ pick' = [pick EXCEPT ![r] = u]
         \/ Developers = {} /\ UNCHANGED pick
  /\ candidates' = [candidates EXCEPT ![r] = Developers]
  /\ UNCHANGED <<users, log, call, before, entry, overlap, faults,
                 projects, tickets, seen, summary, writes, gone>>

\* Ghost: the workload of a project may be another now, by at most n.
NoteWrite(p, n) ==
  writes' = [q \in Requests |-> IF pc[q] = "addTicket" /\ call[q].project = p
                                THEN writes[q] + n ELSE writes[q]]

Assignee(r) == IF call[r].assignee # Nobody THEN call[r].assignee ELSE pick[r]

\* tickets.create.  The foreign key on the assignee is all that is checked now.
InsertTicket(r) ==
  /\ pc[r] = "addTicket"
  /\ \/ Assignee(r) \notin DOMAIN users \cup {Nobody} /\ goto(r, "400") /\ Succeeds
        /\ UNCHANGED <<tickets, writes, entry>>
     \/ /\ Assignee(r) \in DOMAIN users \cup {Nobody}
        /\ tickets' = Put(tickets, <<r, 1>>, [project |-> call[r].project,
                                               assignee |-> Assignee(r), open |-> call[r].open])
        /\ entry' = [entry EXCEPT ![r] = [action |-> "CREATE", ticket |-> <<r, 1>>, by |-> r]]
        /\ NoteWrite(call[r].project, 1) /\ Done(r, "logTicket")
  /\ UNCHANGED <<users, log, call, before, overlap, projects, seen, pick, summary,
                 candidates, gone>>

\* Mutant: the pick is not audited.
LogTicketOnly(r) ==
  /\ pc[r] = "logTicket" /\ goto(r, "200")
  /\ \/ log' = log \cup {entry[r]} /\ Succeeds
     \/ Fails /\ UNCHANGED log
  /\ UNCHANGED <<users, call, before, entry, overlap, planVars>>

\* The CREATE entry; then, if the assignee was picked, an entry that says so.
LogTicket(r) ==
  /\ pc[r] = "logTicket" /\ goto(r, IF pick[r] = Nobody THEN "200" ELSE "logPick")
  /\ \/ log' = log \cup {entry[r]} /\ Succeeds
     \/ Fails /\ UNCHANGED log
  /\ UNCHANGED <<users, call, before, entry, overlap, planVars>>

PickEntry(r) == [action |-> "AUTO_ASSIGN", ticket |-> <<r, 1>>, assignee |-> pick[r]]

LogPick(r) ==
  /\ pc[r] = "logPick" /\ goto(r, "200")
  /\ \/ log' = log \cup {PickEntry(r)} /\ Succeeds
     \/ Fails /\ UNCHANGED log
  /\ UNCHANGED <<users, call, before, entry, overlap, planVars>>

-----------------------------------------------------------------------------
\* validateRow: what is there must be valid; status, priority and assignee may be blank.
ValidRow(row) ==
  /\ row.title = "valid" /\ row.type = "valid"
  /\ row.status # "invalid" /\ row.priority # "invalid" /\ row.assignee # "invalid"

RowTicket(r, row) ==
  [project |-> call[r].project,
   assignee |-> IF row.assignee = "blank" THEN Nobody ELSE row.assignee,
   open |-> row.status # "DONE"]

\* Mutant: a row is counted as created when it is valid.
CountCreated(r, which) == summary' = [summary EXCEPT ![r].row = @ + 1, ![r].created = @ + 1]

Count(r, which) == summary' = [summary EXCEPT ![r].row = @ + 1, ![r][which] = @ + 1]

\* One row: whatever is wrong with it is caught and counted, and the next is taken.  A
\* row may have been inserted though its INSERT seems to have failed.
ImportRow(r) ==
  /\ pc[r] = "rows" /\ summary[r].row < Len(call[r].rows)
  /\ LET i == summary[r].row + 1
         row == call[r].rows[i]
         good == ValidRow(row) /\ RowTicket(r, row).assignee \in DOMAIN users \cup {Nobody}
     IN  \/ ~good /\ Count(r, "failed") /\ Succeeds /\ UNCHANGED <<tickets, writes>>
         \/ good /\ Count(r, "failed") /\ Fails /\ UNCHANGED <<tickets, writes>>
         \/ /\ good /\ tickets' = Put(tickets, <<r, i>>, RowTicket(r, row))
            /\ NoteWrite(call[r].project, 1)
            /\ \/ Count(r, "created") /\ Succeeds
               \/ Count(r, "failed") /\ Fails
  /\ UNCHANGED <<users, log, pc, call, before, entry, overlap,
                 projects, seen, pick, candidates, gone>>

\* One entry for the whole import, with the counts.
EndRows(r) ==
  /\ pc[r] = "rows" /\ summary[r].row = Len(call[r].rows) /\ goto(r, "log")
  /\ entry' = [entry EXCEPT ![r] = [action |-> "CREATE", project |-> call[r].project, by |-> r,
                                    created |-> summary[r].created, failed |-> summary[r].failed]]
  /\ UNCHANGED <<users, log, call, before, overlap, faults, planVars>>

-----------------------------------------------------------------------------
\* Mutant: what refers to the user is left alone.
ForgetUserOnly(r) ==
  /\ DeleteUser(r, FALSE)
  /\ UNCHANGED <<projects, tickets, seen, pick, summary, candidates, writes, gone>>

\* projects.owner_id is ON DELETE RESTRICT, tickets.assignee_id ON DELETE SET NULL.
ForgetUser(r) ==
  /\ DeleteUser(r, \E p \in DOMAIN projects : projects[p].owner = call[r].user)
  /\ tickets' = [t \in DOMAIN tickets |->
                   IF tickets[t].assignee \in DOMAIN users' \cup {Nobody} THEN tickets[t]
                   ELSE [tickets[t] EXCEPT !.assignee = Nobody]]
  /\ UNCHANGED <<projects, seen, pick, summary, candidates, writes, gone>>

\* What TicketService does to a ticket meanwhile: it is moved to another assignee, made
\* DONE, deleted or restored.
ChangeTicket ==
  /\ changes < MaxChanges /\ changes' = changes + 1
  /\ \E t \in DOMAIN tickets, a \in DOMAIN users \cup {Nobody}, o \in BOOLEAN :
       /\ tickets[t].assignee # a \/ tickets[t].open # o
       /\ tickets' = [tickets EXCEPT ![t].assignee = a, ![t].open = o]
       /\ NoteWrite(tickets[t].project, 2)
  /\ UNCHANGED <<accountVars, projects, seen, pick, summary, candidates, gone>>

Init ==
  /\ AccountInit
  /\ projects = InitialProjects /\ tickets = InitialTickets
  /\ seen = [r \in Requests |-> Null] /\ pick = [r \in Requests |-> Nobody]
  /\ summary = [r \in Requests |-> [row |-> 0, created |-> 0, failed |-> 0]]
  /\ candidates = [r \in Requests |-> {}] /\ writes = [r \in Requests |-> 0]
  /\ gone = [r \in Requests |-> {}] /\ changes = 0

PlanStep(r) ==
  \/ Receive(r) \/ FindProject(r) \/ FindOwner(r) \/ InsertProject(r) \/ RenameProject(r)
  \/ SoftDelete(r) \/ FindAnyState(r) \/ RestoreProject(r)
  \/ FindAssignee(r) \/ Workload(r) \/ InsertTicket(r) \/ LogTicket(r) \/ LogPick(r)
  \/ ImportRow(r) \/ EndRows(r) \/ ForgetUser(r)

\* The steps of UsersService that concern no other table.
UserStep(r) ==
  /\ FindUser(r) \/ UpdateUser(r) \/ LogEntry(r) \/ Abort(r)
  /\ UNCHANGED planVars

Next ==
  \/ ChangeTicket
  \/ (\E r \in Requests : PlanStep(r) \/ UserStep(r)) /\ UNCHANGED changes

Spec == Init /\ [][Next]_vars

-----------------------------------------------------------------------------
\* The types of the tables and of what requests keep.
TypeOK ==
  /\ AccountTypeOK
  /\ pc \in [Requests -> Answers \cup
       {"new", "find", "update", "delete", "log", "project", "owner", "addProject", "rename",
        "drop", "anyState", "restore", "assignee", "workload", "addTicket", "logTicket",
        "logPick", "rows"}]
  /\ DOMAIN projects \subseteq ProjectIds /\ \A p \in DOMAIN projects : ProjectRow(projects[p])
  /\ tickets \in [DOMAIN tickets -> Tickets]
  /\ \A r \in Requests : ProjectRow(seen[r]) \/ seen[r] = Null
  /\ pick \in [Requests -> UserIds \cup {Nobody}]
  /\ summary \in [Requests -> [row : Nat, created : Nat, failed : Nat]]
  /\ candidates \in [Requests -> SUBSET UserIds] /\ writes \in [Requests -> Nat]
  /\ gone \in [Requests -> SUBSET ProjectIds] /\ changes \in 0..MaxChanges

\* No ticket is assigned to a user who is gone and no project has such an owner,
\* whatever was checked before the INSERT and is deleted meanwhile.
References ==
  /\ \A p \in DOMAIN projects : projects[p].owner \in DOMAIN users
  /\ \A t \in DOMAIN tickets : /\ tickets[t].assignee \in DOMAIN users \cup {Nobody}
                               /\ tickets[t].project \in DOMAIN projects

\* Until its ticket is inserted, the developer who was picked has the least work of
\* those there were, give or take one ticket for every ticket that was inserted since
\* the workload was read and two for every one that was updated.
PickIsLeastLoaded ==
  \A r \in Requests :
    pc[r] = "addTicket" /\ pick[r] \in DOMAIN users =>
      \A d \in candidates[r] \cap DOMAIN users :
        Load(pick[r], call[r].project) <= Load(d, call[r].project) + writes[r]

Imports == {r \in Requests : call[r].op = "import"}

Imported(r) == {i \in 1..summary[r].row : <<r, i>> \in DOMAIN tickets}

\* An import takes every row in turn, counts each once, and counts as created none
\* that is not there; tickets it does not know of are those whose answer was lost.  A
\* row that is good whoever is deleted is created, whatever the rows before it were.
ImportAddsUp ==
  \A r \in Imports :
    LET s == summary[r]
    IN  /\ s.created + s.failed = s.row
        /\ Cardinality(Imported(r)) \in s.created..(s.created + faults)
        /\ pc[r] = "200" => s.row = Len(call[r].rows)
        /\ faults = 0 => \A i \in 1..s.row :
             ValidRow(call[r].rows[i]) /\ call[r].rows[i].assignee \in {"blank"} \cup DOMAIN users
               => i \in Imported(r)

Reached(op, p, answers) ==
  {r \in Requests : call[r].op = op /\ call[r].project = p /\ pc[r] \in answers}

\* Of the deletions of a project that are answered 200, all but one have a restore that
\* got as far as its UPDATE: the same deletion is never confirmed twice.
DeletesNeedRestores ==
  \A p \in DOMAIN projects :
    Cardinality(Reached("drop", p, {"log", "200"}))
      <= 1 + Cardinality(Reached("restore", p, {"log", "200", "500"}))

\* A request that comes after a project was deleted puts no ticket into it, unless the
\* project is restored meanwhile; the check may be overtaken only by a later deletion.
NoTicketIntoDeletedProject ==
  \A t \in DOMAIN tickets \ DOMAIN InitialTickets :
    tickets[t].project \in gone[t[1]]
      => Reached("restore", tickets[t].project, {"log", "200", "500"}) # {}

\* An assignee nobody asked for has an AUTO_ASSIGN entry by the time the creation is
\* answered, if nothing failed; and an entry says AUTO_ASSIGN of no other ticket.
AutoAssignAudited ==
  /\ \A r \in Requests :
       pc[r] = "200" /\ call[r].op = "create" /\ call[r].assignee = Nobody /\ faults = 0
         => pick[r] = Nobody \/ PickEntry(r) \in log
  /\ \A e \in log : e.action = "AUTO_ASSIGN"
       => call[e.ticket[1]].assignee = Nobody /\ e = PickEntry(e.ticket[1])
=============================================================================
