---------------------------- MODULE PlanningProofs ----------------------------
(***************************************************************************)
(* What TLAPS proves of projects, creations and imports, for any users,    *)
(* projects, tickets, requests and failures: types, that nothing refers to *)
(* what is gone, and that no request puts a ticket into a project that was *)
(* deleted before the request came; that the assignee who is picked is the *)
(* least loaded but for the writes since, and that the pick is in the log; *)
(* that the counts of an import add up; and that every confirmed deletion  *)
(* but one has a restore between it and the one before.                    *)
(***************************************************************************)
EXTENDS Planning, FiniteSetTheorems, TLAPS

Act(r) == (PlanStep(r) \/ UserStep(r)) /\ UNCHANGED changes

\* A function of the requests, of which TypeOK says no more.
Shape == seen = [r \in Requests |-> seen[r]]

\* Where a request stands fits what it was asked, and its project exists once found.
Routed(r) ==
  /\ pc[r] # "new" => call[r] \in Calls
  /\ pc[r] = "new" => call[r] = Null
  /\ pc[r] \in {"find", "update", "delete"} => call[r].op \in {"update", "remove"}
  /\ pc[r] = "update" => call[r].op = "update"
  /\ pc[r] \in {"owner", "addProject"} => call[r].op = "add"
  /\ pc[r] = "project" => call[r].op \in {"rename", "drop", "create", "import"}
  /\ pc[r] = "rename" => call[r].op = "rename"
  /\ pc[r] = "drop" => call[r].op = "drop"
  /\ pc[r] \in {"anyState", "restore"} => call[r].op = "restore"
  /\ pc[r] \in {"assignee", "workload", "addTicket"} => call[r].op = "create"
  /\ pc[r] = "rows" => call[r].op = "import"
  /\ pc[r] \in {"rename", "drop", "restore", "assignee", "workload", "addTicket", "rows"}
       => call[r].project \in DOMAIN projects

Types == TypeOK /\ Shape /\ \A r \in Requests : Routed(r)

-----------------------------------------------------------------------------
LEMMA InitTypes == Init => Types
  <1> SUFFICES ASSUME Init PROVE Types
    OBVIOUS
  <1>1. AccountTypeOK
    BY AccountAssumption DEF Init, AccountInit, AccountTypeOK, UserIds
  <1>2. TypeOK
    BY <1>1, AccountAssumption, PlanningAssumption
      DEF Init, AccountInit, TypeOK, Answers, ProjectIds
  <1>3. Shape
    BY DEF Init, Shape
  <1>4. ASSUME NEW r \in Requests PROVE Routed(r)
    BY <1>4 DEF Init, AccountInit, Routed
  <1> QED
    BY <1>2, <1>3, <1>4 DEF Types

\* A step of a request leaves what the others keep as it is.
LEMMA Frame ==
  ASSUME Types, NEW r \in Requests, Act(r)
  PROVE  /\ \A q \in Requests \ {r} :
              pc'[q] = pc[q] /\ call'[q] = call[q] /\ gone'[q] = gone[q]
         /\ pc[r] # "new" => call' = call /\ gone' = gone
         /\ DOMAIN projects \subseteq DOMAIN projects'
  <1> USE DEF Types, TypeOK, AccountTypeOK, goto, Done, planVars
  <1>1. CASE Receive(r)
    BY <1>1 DEF Receive
  <1>2. CASE FindProject(r)
    BY <1>2 DEF FindProject
  <1>3. CASE FindOwner(r) \/ FindAnyState(r) \/ FindAssignee(r) \/ Workload(r)
    BY <1>3 DEF FindOwner, FindAnyState, FindAssignee, Workload
  <1>4. CASE InsertProject(r)
    BY <1>4 DEF InsertProject, Put
  <1>5. CASE RenameProject(r) \/ SoftDelete(r) \/ RestoreProject(r)
    BY <1>5 DEF RenameProject, SoftDelete, RestoreProject, OnProject
  <1>6. CASE InsertTicket(r) \/ ImportRow(r)
    BY <1>6 DEF InsertTicket, ImportRow
  <1>7. CASE LogTicket(r) \/ LogPick(r) \/ EndRows(r)
    BY <1>7 DEF LogTicket, LogPick, EndRows
  <1>8. CASE ForgetUser(r)
    BY <1>8 DEF ForgetUser, DeleteUser
  <1>9. CASE UserStep(r)
    BY <1>9 DEF UserStep, FindUser, UpdateUser, LogEntry, Abort
  <1> QED
    BY <1>1, <1>2, <1>3, <1>4, <1>5, <1>6, <1>7, <1>8, <1>9 DEF Act, PlanStep

\* What has to be shown of a step of r, once the others are known to be left alone.
LEMMA StepTypes ==
  ASSUME Types, NEW r \in Requests, Act(r), TypeOK', Shape', Routed(r)'
  PROVE  Types'
  <1>1. ASSUME NEW q \in Requests \ {r} PROVE Routed(q)'
    <2>1. Routed(q)
      BY DEF Types
    <2>2. pc'[q] = pc[q] /\ call'[q] = call[q] /\ DOMAIN projects \subseteq DOMAIN projects'
      BY Frame
    <2> QED
      BY <2>1, <2>2 DEF Routed
  <1> QED
    BY <1>1 DEF Types

LEMMA FailTypes ==
  ASSUME TypeOK, faults' = faults \/ Fails
  PROVE  faults' \in 0..MaxFaults
  BY AccountAssumption DEF TypeOK, AccountTypeOK, Fails

-----------------------------------------------------------------------------
\* Steps that look at the tables and change none but the log.
LEMMA LookTypes ==
  ASSUME Types, NEW r \in Requests, UNCHANGED changes,
         \/ Receive(r) \/ FindProject(r) \/ FindOwner(r) \/ FindAnyState(r)
         \/ FindAssignee(r) \/ Workload(r) \/ LogTicket(r) \/ LogPick(r) \/ EndRows(r)
  PROVE  Types'
  <1>a. Act(r) /\ TypeOK /\ AccountTypeOK /\ Shape /\ Routed(r)
    BY DEF Act, PlanStep, Types, TypeOK
  <1>1. CASE Receive(r)
    <2>1. PICK c \in Calls :
            /\ call' = [call EXCEPT ![r] = c]
            /\ pc' = [pc EXCEPT ![r] =
                 CASE c.op = "remove"  -> "find"
                   [] c.op = "update"  -> IF DOMAIN c.sent = {} THEN "400" ELSE "find"
                   [] c.op = "add"     -> "owner"
                   [] c.op = "rename"  -> IF DOMAIN c.sent = {} THEN "400" ELSE "project"
                   [] c.op = "restore" -> "anyState"
                   [] OTHER            -> "project"]
      BY <1>1 DEF Receive, goto
    <2>2. /\ gone' = [gone EXCEPT ![r] = {p \in DOMAIN projects : projects[p].deleted}]
          /\ UNCHANGED <<users, log, before, entry, overlap, faults,
                         projects, tickets, seen, pick, summary, candidates, writes>>
      BY <1>1 DEF Receive
    <2>3. c.op \in Ops
      BY PlanningAssumption
    <2>4. /\ pc'[r] \in {"400", "find", "owner", "project", "anyState"}
          /\ pc'[r] = "find" => c.op \in {"update", "remove"}
          /\ pc'[r] = "owner" => c.op = "add"
          /\ pc'[r] = "project" => c.op \in {"rename", "drop", "create", "import"}
          /\ pc'[r] = "anyState" => c.op = "restore"
      BY <1>a, <2>1, <2>3 DEF TypeOK, Ops
    <2>5. pc' = [pc EXCEPT ![r] = pc'[r]]
      BY <2>1, <1>a DEF TypeOK
    <2>6. TypeOK' /\ Shape'
      BY <1>a, <2>1, <2>2, <2>4, <2>5 DEF TypeOK, AccountTypeOK, Shape, Answers
    <2>7. Routed(r)'
      BY <1>a, <2>1, <2>4 DEF Routed, TypeOK, AccountTypeOK
    <2> QED
      BY <1>a, <2>6, <2>7, StepTypes
  <1>2. CASE FindProject(r)
    <2>0. /\ pc[r] = "project"
          /\ UNCHANGED <<users, log, call, before, entry, overlap, faults,
                         projects, tickets, pick, summary, candidates, writes, gone>>
      BY <1>2 DEF FindProject
    <2>1. call[r].op \in {"rename", "drop", "create", "import"} /\ call[r] \in Calls
      BY <2>0, <1>a DEF Routed
    <2>2. \/ Active(call[r].project) /\ seen' = [seen EXCEPT ![r] = projects[call[r].project]]
          \/ pc'[r] = "404" /\ UNCHANGED seen
      BY <1>2, <1>a DEF FindProject, goto, TypeOK
    <2>3. /\ \E s \in {"rename", "drop", "workload", "assignee", "rows", "400", "404"} :
                pc' = [pc EXCEPT ![r] = s]
          /\ pc'[r] = "rename" => call[r].op = "rename"
          /\ pc'[r] = "drop" => call[r].op = "drop"
          /\ pc'[r] \in {"workload", "assignee"} => call[r].op = "create"
          /\ pc'[r] = "rows" => call[r].op = "import"
      BY <1>2, <1>a, <2>1 DEF FindProject, goto, TypeOK
    <2>4. TypeOK' /\ Shape'
      BY <1>a, <2>0, <2>2, <2>3 DEF TypeOK, AccountTypeOK, Shape, Answers, Active
    <2>5. Routed(r)'
      BY <1>a, <2>0, <2>1, <2>2, <2>3 DEF Routed, TypeOK, Active
    <2> QED
      BY <1>a, <2>4, <2>5, StepTypes
  <1>3. CASE FindOwner(r) \/ FindAssignee(r) \/ EndRows(r) \/ LogTicket(r) \/ LogPick(r)
    <2>0. UNCHANGED <<users, call, before, overlap, planVars>> /\ (faults' = faults \/ Fails)
      BY <1>3 DEF FindOwner, FindAssignee, EndRows, LogTicket, LogPick, Succeeds
    <2>1. /\ \E s \in {"404", "addProject", "addTicket", "log", "200", "logPick"} :
                pc' = [pc EXCEPT ![r] = s]
          /\ pc'[r] = "addProject" => pc[r] = "owner"
          /\ pc'[r] = "addTicket" => pc[r] = "assignee"
          /\ pc[r] # "new"
      BY <1>3, <1>a DEF FindOwner, FindAssignee, EndRows, LogTicket, LogPick, goto, TypeOK
    <2>2. TypeOK' /\ Shape'
      BY <1>a, <2>0, <2>1, FailTypes DEF TypeOK, AccountTypeOK, Shape, Answers, planVars
    <2>3. Routed(r)'
      BY <1>a, <2>0, <2>1 DEF Routed, TypeOK, planVars
    <2> QED
      BY <1>a, <2>2, <2>3, StepTypes
  <1>4. CASE FindAnyState(r)
    <2>0. /\ pc[r] = "anyState"
          /\ UNCHANGED <<users, log, call, before, entry, overlap, faults,
                         projects, tickets, pick, summary, candidates, writes, gone>>
      BY <1>4 DEF FindAnyState
    <2>1. /\ \E s \in {"404", "restore", "409"} : pc' = [pc EXCEPT ![r] = s]
          /\ \/ /\ call[r].project \in DOMAIN projects
                /\ seen' = [seen EXCEPT ![r] = projects[call[r].project]]
             \/ pc'[r] = "404" /\ UNCHANGED seen
      BY <1>4, <1>a DEF FindAnyState, goto, TypeOK
    <2>2. TypeOK' /\ Shape'
      BY <1>a, <2>0, <2>1 DEF TypeOK, AccountTypeOK, Shape, Answers
    <2>3. Routed(r)'
      BY <1>a, <2>0, <2>1 DEF Routed, TypeOK
    <2> QED
      BY <1>a, <2>2, <2>3, StepTypes
  <1>5. CASE Workload(r)
    <2>0. /\ pc[r] = "workload" /\ pc' = [pc EXCEPT ![r] = "addTicket"]
          /\ candidates' = [candidates EXCEPT ![r] = Developers]
          /\ (pick' = pick \/ \E u \in Developers : pick' = [pick EXCEPT ![r] = u])
          /\ UNCHANGED <<users, log, call, before, entry, overlap, faults,
                         projects, tickets, seen, summary, writes, gone>>
      BY <1>5 DEF Workload, goto
    <2>1. Developers \subseteq UserIds
      BY <1>a DEF Developers, AccountTypeOK
    <2>2. TypeOK' /\ Shape'
      BY <1>a, <2>0, <2>1 DEF TypeOK, AccountTypeOK, Shape
    <2>3. Routed(r)'
      BY <1>a, <2>0 DEF Routed, TypeOK
    <2> QED
      BY <1>a, <2>2, <2>3, StepTypes
  <1> QED
    BY <1>1, <1>2, <1>3, <1>4, <1>5

\* Steps on a project.
LEMMA ProjectTypes ==
  ASSUME Types, NEW r \in Requests, UNCHANGED changes,
         InsertProject(r) \/ RenameProject(r) \/ SoftDelete(r) \/ RestoreProject(r)
  PROVE  Types'
  <1>a. Act(r) /\ TypeOK /\ AccountTypeOK /\ Shape /\ Routed(r)
    BY DEF Act, PlanStep, Types, TypeOK
  <1>0. /\ UNCHANGED <<users, log, call, before, overlap,
                       tickets, seen, pick, summary, candidates, writes, gone>>
        /\ pc[r] # "new" /\ (faults' = faults \/ Fails)
        /\ \E s \in {"400", "404", "log", "500"} : pc' = [pc EXCEPT ![r] = s]
    BY DEF InsertProject, RenameProject, SoftDelete, RestoreProject, OnProject, Done, goto, Succeeds
  <1>1. DOMAIN projects' \subseteq ProjectIds /\ \A p \in DOMAIN projects' : ProjectRow(projects'[p])
    <2>1. CASE InsertProject(r)
      <3> DEFINE new == [name |-> "new", description |-> "null",
                         owner |-> call[r].owner, deleted |-> FALSE]
      <3>1. projects' = projects \/
            (call[r].owner \in DOMAIN users /\ projects' = Put(projects, r, new))
        BY <2>1 DEF InsertProject
      <3>2. call[r].owner \in DOMAIN users => ProjectRow(new)
        BY <1>a DEF ProjectRow, AccountTypeOK
      <3> QED
        BY <1>a, <3>1, <3>2 DEF Put, TypeOK, ProjectIds
    <2>2. CASE RenameProject(r)
      <3> DEFINE p == call[r].project
                 new == Set(projects[p], call[r].sent)
      <3>1. projects' = projects \/
            (p \in DOMAIN projects /\ projects' = [projects EXCEPT ![p] = new])
        BY <2>2 DEF RenameProject, OnProject, Active
      <3>2. DOMAIN call[r].sent \subseteq ProjectFields
        BY <2>2, <1>a, PlanningAssumption DEF RenameProject, Routed
      <3>3. p \in DOMAIN projects => ProjectRow(new)
        BY <1>a, <3>2 DEF ProjectRow, Set, TypeOK, ProjectFields
      <3> QED
        BY <1>a, <3>1, <3>3 DEF TypeOK
    <2>3. CASE SoftDelete(r) \/ RestoreProject(r)
      <3> DEFINE p == call[r].project
      <3>1. \/ projects' = projects
            \/ \E d \in BOOLEAN :
                 projects' = [projects EXCEPT ![p] = [projects[p] EXCEPT !.deleted = d]]
        BY <2>3 DEF SoftDelete, RestoreProject, OnProject
      <3>2. \A d \in BOOLEAN :
              p \in DOMAIN projects => ProjectRow([projects[p] EXCEPT !.deleted = d])
        BY <1>a DEF ProjectRow, TypeOK
      <3> QED
        BY <1>a, <3>1, <3>2 DEF TypeOK
    <2> QED
      BY <2>1, <2>2, <2>3
  <1>2. TypeOK' /\ Shape'
    BY <1>a, <1>0, <1>1, FailTypes DEF TypeOK, AccountTypeOK, Shape, Answers
  <1>3. Routed(r)'
    BY <1>a, <1>0 DEF Routed, TypeOK
  <1> QED
    BY <1>a, <1>2, <1>3, StepTypes

LEMMA WriteTypes ==
  ASSUME TypeOK, NEW p, NEW n \in Nat, NoteWrite(p, n)
  PROVE  writes' \in [Requests -> Nat]
  BY DEF TypeOK, NoteWrite

\* A ticket with the project of a request is a ticket.
LEMMA NewTicket ==
  ASSUME Types, NEW r \in Requests, pc[r] \in {"addTicket", "rows"}, NEW i,
         NEW a \in DOMAIN users \cup {Nobody}, NEW o \in BOOLEAN,
         tickets' = Put(tickets, <<r, i>>, [project |-> call[r].project, assignee |-> a, open |-> o])
  PROVE  tickets' \in [DOMAIN tickets' -> Tickets]
  <1>1. [project |-> call[r].project, assignee |-> a, open |-> o] \in Tickets
    BY DEF Types, TypeOK, AccountTypeOK, Routed, Tickets
  <1>2. tickets \in [DOMAIN tickets -> Tickets]
    BY DEF Types, TypeOK
  <1> QED
    BY <1>1, <1>2 DEF Put

\* Steps that insert a ticket.
LEMMA TicketTypes ==
  ASSUME Types, NEW r \in Requests, UNCHANGED changes, InsertTicket(r) \/ ImportRow(r)
  PROVE  Types'
  <1>a. Act(r) /\ TypeOK /\ AccountTypeOK /\ Shape /\ Routed(r)
    BY DEF Act, PlanStep, Types, TypeOK
  <1>1. CASE InsertTicket(r)
    <2>0. /\ pc[r] = "addTicket" /\ (faults' = faults \/ Fails)
          /\ \E s \in {"400", "logTicket", "500"} : pc' = [pc EXCEPT ![r] = s]
          /\ UNCHANGED <<users, log, call, before, overlap, projects, seen, pick, summary,
                         candidates, gone>>
      BY <1>1 DEF InsertTicket, Done, goto, Succeeds
    <2>1. call[r].open \in BOOLEAN
      BY <2>0, <1>a, PlanningAssumption DEF Routed
    <2>2. \/ UNCHANGED <<tickets, writes>>
          \/ /\ Assignee(r) \in DOMAIN users \cup {Nobody} /\ NoteWrite(call[r].project, 1)
             /\ tickets' = Put(tickets, <<r, 1>>,
                  [project |-> call[r].project, assignee |-> Assignee(r), open |-> call[r].open])
      BY <1>1 DEF InsertTicket
    <2>3. tickets' \in [DOMAIN tickets' -> Tickets] /\ writes' \in [Requests -> Nat]
      BY <1>a, <2>0, <2>1, <2>2, NewTicket, WriteTypes DEF TypeOK
    <2>4. TypeOK' /\ Shape'
      <3>1. pc' \in [Requests -> Answers \cup
              {"new", "find", "update", "delete", "log", "project", "owner", "addProject", "rename",
               "drop", "anyState", "restore", "assignee", "workload", "addTicket", "logTicket",
               "logPick", "rows"}]
        BY <1>a, <2>0 DEF TypeOK, Answers
      <3>2. AccountTypeOK'
        BY <1>a, <2>0, <3>1, FailTypes DEF AccountTypeOK
      <3> QED
        BY <1>a, <2>0, <2>3, <3>1, <3>2 DEF TypeOK, Shape
    <2>5. Routed(r)'
      BY <1>a, <2>0 DEF Routed, TypeOK
    <2> QED
      BY <1>a, <2>4, <2>5, StepTypes
  <1>2. CASE ImportRow(r)
    <2> DEFINE i == summary[r].row + 1
               row == call[r].rows[i]
    <2>0. /\ pc[r] = "rows" /\ (faults' = faults \/ Fails)
          /\ UNCHANGED <<users, log, pc, call, before, entry, overlap,
                         projects, seen, pick, candidates, gone>>
      BY <1>2 DEF ImportRow, Succeeds
    <2>1. Count(r, "failed") \/ Count(r, "created")
      BY <1>2 DEF ImportRow
    <2>2. summary' \in [Requests -> [row : Nat, created : Nat, failed : Nat]]
      BY <2>1, <1>a DEF Count, TypeOK
    <2>3. \/ UNCHANGED <<tickets, writes>>
          \/ /\ RowTicket(r, row).assignee \in DOMAIN users \cup {Nobody}
             /\ NoteWrite(call[r].project, 1) /\ tickets' = Put(tickets, <<r, i>>, RowTicket(r, row))
      BY <1>2 DEF ImportRow
    <2>4. \E o \in BOOLEAN :
            RowTicket(r, row) = [project |-> call[r].project,
                                 assignee |-> RowTicket(r, row).assignee, open |-> o]
      <3>1. CASE row.status = "DONE"
        BY <3>1 DEF RowTicket
      <3>2. CASE row.status # "DONE"
        BY <3>2 DEF RowTicket
      <3> QED
        BY <3>1, <3>2
    <2>5. tickets' \in [DOMAIN tickets' -> Tickets] /\ writes' \in [Requests -> Nat]
      <3>1. CASE UNCHANGED <<tickets, writes>>
        BY <1>a, <3>1 DEF TypeOK
      <3>2. CASE ~UNCHANGED <<tickets, writes>>
        <4>1. writes' \in [Requests -> Nat]
          BY <1>a, <2>3, <3>2, WriteTypes
        <4>2. tickets' \in [DOMAIN tickets' -> Tickets]
          BY <2>0, <2>3, <2>4, <3>2, NewTicket
        <4> QED
          BY <4>1, <4>2
      <3> QED
        BY <3>1, <3>2
    <2>6. TypeOK' /\ Shape'
      BY <1>a, <2>0, <2>2, <2>5, FailTypes DEF TypeOK, AccountTypeOK, Shape, Answers
    <2>7. Routed(r)'
      BY <1>a, <2>0 DEF Routed
    <2> QED
      BY <1>a, <2>6, <2>7, StepTypes
  <1> QED
    BY <1>1, <1>2

\* Only what was sent is written, and what is written is well-formed.
LEMMA SetRow ==
  ASSUME NEW row, UserRow(row), NEW c \in Updates
  PROVE  UserRow(Set(row, c.sent))
  <1>1. DOMAIN c.sent \subseteq Fields /\ ("role" \in DOMAIN c.sent => c.sent.role \in Roles)
        /\ ("full" \in DOMAIN c.sent => c.sent.full # "null")
    BY AccountAssumption
  <1>2. DOMAIN Set(row, c.sent) = {"name", "email", "full", "role", "password"}
    BY DEF Set, UserRow
  <1> QED
    BY <1>1, <1>2 DEF Set, UserRow, Fields

\* Steps on a user, and the entries and ends of all requests.
LEMMA UserTypes ==
  ASSUME Types, NEW r \in Requests, UNCHANGED changes, ForgetUser(r) \/ UserStep(r)
  PROVE  Types'
  <1>a. Act(r) /\ TypeOK /\ AccountTypeOK /\ Shape /\ Routed(r)
    BY DEF Act, PlanStep, Types, TypeOK
  <1>1. CASE ForgetUser(r)
    <2>0. /\ pc[r] = "delete" /\ (faults' = faults \/ Fails)
          /\ \E s \in {"400", "404", "log", "500"} : pc' = [pc EXCEPT ![r] = s]
          /\ (users' = users \/ users' = [v \in DOMAIN users \ {call[r].user} |-> users[v]])
          /\ UNCHANGED <<call, overlap, projects, seen, pick, summary, candidates, writes, gone>>
      BY <1>1 DEF ForgetUser, DeleteUser, Restrict, Done, goto, Succeeds
    <2>1. tickets' \in [DOMAIN tickets' -> Tickets]
      <3>1. \A t \in DOMAIN tickets :
              tickets[t] \in Tickets /\ [tickets[t] EXCEPT !.assignee = Nobody] \in Tickets
        BY <1>a DEF TypeOK, Tickets
      <3> QED
        BY <1>1, <3>1 DEF ForgetUser
    <2>2. TypeOK' /\ Shape'
      BY <1>a, <2>0, <2>1, FailTypes DEF TypeOK, AccountTypeOK, Shape, Answers
    <2>3. Routed(r)'
      BY <1>a, <2>0 DEF Routed, TypeOK
    <2> QED
      BY <1>a, <2>2, <2>3, StepTypes
  <1>2. CASE UserStep(r)
    <2>0. /\ UNCHANGED planVars /\ call' = call /\ (faults' = faults \/ Fails) /\ pc[r] # "new"
          /\ \E s \in Answers \cup {"update", "delete", "log"} : pc' = [pc EXCEPT ![r] = s]
      BY <1>2 DEF UserStep, FindUser, UpdateUser, LogEntry, Abort, Done, goto, Succeeds, Answers,
        InFlight
    <2>1. /\ pc'[r] = "update" => call[r].op = "update"
          /\ pc'[r] = "delete" => call[r].op \in {"update", "remove"}
      BY <1>2, <1>a DEF UserStep, FindUser, UpdateUser, LogEntry, Abort, Done, goto, TypeOK, Routed
    <2>2. /\ DOMAIN users' = DOMAIN users /\ \A v \in DOMAIN users' : UserRow(users'[v])
          /\ overlap' \in [Requests -> SUBSET Requests]
      <3>1. CASE UpdateUser(r)
        <4>1. call[r] \in Updates
          BY <3>1, <1>a DEF UpdateUser, Routed, Updates
        <4>2. \/ UNCHANGED <<users, overlap>>
              \/ /\ call[r].user \in DOMAIN users
                 /\ users' = [users EXCEPT ![call[r].user] = Set(@, call[r].sent)]
                 /\ overlap' = [q \in Requests |->
                                  IF q # r /\ pc[q] = "update" /\ call[q].user = call[r].user
                                  THEN overlap[q] \cup {r} ELSE overlap[q]]
          BY <3>1 DEF UpdateUser
        <4>3. call[r].user \in DOMAIN users => UserRow(Set(users[call[r].user], call[r].sent))
          BY <4>1, <1>a, SetRow DEF AccountTypeOK
        <4> QED
          BY <1>a, <4>2, <4>3 DEF AccountTypeOK
      <3> QED
        BY <1>2, <1>a, <3>1 DEF UserStep, FindUser, LogEntry, Abort, AccountTypeOK
    <2>3. TypeOK' /\ Shape'
      <3>1. faults' \in 0..MaxFaults
        BY <1>a, <2>0, FailTypes
      <3>2. AccountTypeOK'
        BY <1>a, <2>0, <2>2, <3>1 DEF AccountTypeOK
      <3>3. \E s \in Answers \cup {"update", "delete", "log"} : pc' = [pc EXCEPT ![r] = s]
        BY <2>0
      <3> QED
        BY <1>a, <2>0, <3>2, <3>3 DEF TypeOK, Shape, planVars
    <2>4. Routed(r)'
      BY <1>a, <2>0, <2>1 DEF Routed, TypeOK, planVars, Answers
    <2> QED
      BY <1>a, <2>3, <2>4, StepTypes
  <1> QED
    BY <1>1, <1>2

LEMMA ChangeTypes ==
  ASSUME Types, ChangeTicket \/ UNCHANGED vars
  PROVE  Types'
  <1>1. CASE ChangeTicket
    <2>1. PICK t \in DOMAIN tickets, a \in DOMAIN users \cup {Nobody}, o \in BOOLEAN :
            /\ tickets' = [tickets EXCEPT ![t].assignee = a, ![t].open = o]
            /\ NoteWrite(tickets[t].project, 2)
      BY <1>1 DEF ChangeTicket
    <2>2. tickets' \in [DOMAIN tickets' -> Tickets]
      BY <2>1 DEF Types, TypeOK, AccountTypeOK, Tickets
    <2>3. writes' \in [Requests -> Nat]
      BY <2>1, WriteTypes DEF Types
    <2>4. /\ changes < MaxChanges /\ changes' = changes + 1
          /\ UNCHANGED <<accountVars, projects, seen, pick, summary, candidates, gone>>
      BY <1>1 DEF ChangeTicket
    <2>5. changes' \in 0..MaxChanges
      BY <2>4, PlanningAssumption DEF Types, TypeOK
    <2> QED
      BY <2>2, <2>3, <2>4, <2>5 DEF Types, TypeOK, AccountTypeOK, Shape, Routed, accountVars
  <1>2. CASE UNCHANGED vars
    BY <1>2 DEF vars, accountVars, planVars, Types, TypeOK, AccountTypeOK, Shape, Routed
  <1> QED
    BY <1>1, <1>2

LEMMA TypesStep == Types /\ [Next]_vars => Types'
  BY LookTypes, ProjectTypes, TicketTypes, UserTypes, ChangeTypes DEF Next, PlanStep

\* The types of the tables and of what requests keep (users, projects, tickets, and the
\* rows, picks and counts of requests under way).
THEOREM PlanningTypes == Spec => []TypeOK
  <1>1. Types => TypeOK
    BY DEF Types
  <1> QED
    BY InitTypes, TypesStep, <1>1, PTL DEF Spec

-----------------------------------------------------------------------------
\* What a step of r does to the projects: it adds its own, or writes one.
LEMMA ProjectEffects ==
  ASSUME Types, NEW r \in Requests, Act(r)
  PROVE  \/ projects' = projects
         \/ /\ pc[r] = "addProject" /\ pc'[r] \in {"log", "500"} /\ users' = users
            /\ call[r].owner \in DOMAIN users
            /\ projects' = Put(projects, r, [name |-> "new", description |-> "null",
                                             owner |-> call[r].owner, deleted |-> FALSE])
         \/ /\ DOMAIN projects' = DOMAIN projects /\ users' = users
            /\ \A p \in DOMAIN projects :
                 /\ projects'[p].owner = projects[p].owner
                 /\ \/ projects[p].deleted => projects'[p].deleted
                    \/ call[r].op = "restore" /\ call[r].project = p /\ pc'[r] \in {"log", "500"}
  <1> USE DEF Types, TypeOK, goto, Done
  <1>1. CASE InsertProject(r)
    BY <1>1 DEF InsertProject
  <1> DEFINE c == call[r]
  <1>2. CASE RenameProject(r)
    <2>1. c.project \in DOMAIN projects /\ DOMAIN c.sent \subseteq ProjectFields
      BY <1>2, PlanningAssumption DEF RenameProject, Routed
    <2>2. projects' = projects \/
          projects' = [projects EXCEPT ![c.project] = Set(projects[c.project], c.sent)]
      BY <1>2 DEF RenameProject, OnProject
    <2>3. /\ Set(projects[c.project], c.sent).owner = projects[c.project].owner
          /\ Set(projects[c.project], c.sent).deleted = projects[c.project].deleted
      BY <2>1 DEF Set, ProjectRow, ProjectFields
    <2>4. users' = users
      BY <1>2 DEF RenameProject, OnProject
    <2> QED
      BY <2>1, <2>2, <2>3, <2>4
  <1>3. CASE SoftDelete(r)
    <2>1. c.project \in DOMAIN projects
      BY <1>3 DEF SoftDelete, Routed
    <2>2. projects' = projects \/
          projects' = [projects EXCEPT ![c.project] = [projects[c.project] EXCEPT !.deleted = TRUE]]
      BY <1>3 DEF SoftDelete, OnProject
    <2>3. users' = users
      BY <1>3 DEF SoftDelete, OnProject
    <2> QED
      BY <2>1, <2>2, <2>3 DEF ProjectRow
  <1>4. CASE RestoreProject(r)
    <2>1. c.project \in DOMAIN projects /\ c.op = "restore"
      BY <1>4 DEF RestoreProject, Routed
    <2>2. /\ users' = users /\ pc'[r] \in {"log", "500"}
          /\ projects' =
               [projects EXCEPT ![c.project] = [projects[c.project] EXCEPT !.deleted = FALSE]]
      BY <1>4 DEF RestoreProject, OnProject
    <2> QED
      BY <2>1, <2>2 DEF ProjectRow
  <1>5. CASE /\ ~InsertProject(r) /\ ~RenameProject(r) /\ ~SoftDelete(r) /\ ~RestoreProject(r)
    BY <1>5 DEF Act, PlanStep, UserStep, planVars, Receive, FindProject, FindOwner, FindAnyState,
      FindAssignee, Workload, InsertTicket, LogTicket, LogPick, ImportRow, EndRows, ForgetUser
  <1> QED
    BY <1>1, <1>2, <1>3, <1>4, <1>5

\* What a step does to the tickets: it inserts one for r, or clears assignees.
LEMMA TicketEffects ==
  ASSUME Types, NEW r \in Requests, Act(r), NEW t \in DOMAIN tickets'
  PROVE  \/ /\ t \in DOMAIN tickets /\ tickets'[t] = tickets[t] /\ ~ForgetUser(r)
         \/ /\ t \in DOMAIN tickets /\ ForgetUser(r)
            /\ tickets'[t].project = tickets[t].project
            /\ tickets'[t].assignee \in DOMAIN users' \cup {Nobody}
         \/ /\ t[1] = r /\ pc[r] \in {"addTicket", "rows"} /\ users' = users
            /\ tickets'[t].project = call[r].project
            /\ tickets'[t].assignee \in DOMAIN users \cup {Nobody}
  <1> USE DEF Types, TypeOK
  <1>1. CASE ForgetUser(r)
    BY <1>1 DEF ForgetUser, Tickets
  <1>2. CASE InsertTicket(r) /\ ~ForgetUser(r)
    BY <1>2 DEF InsertTicket, Put
  <1>3. CASE ImportRow(r) /\ ~ForgetUser(r)
    <2>1. PICK i, row :
            \/ tickets' = tickets
            \/ /\ RowTicket(r, row).assignee \in DOMAIN users \cup {Nobody}
               /\ tickets' = Put(tickets, <<r, i>>, RowTicket(r, row))
      BY <1>3 DEF ImportRow
    <2>2. RowTicket(r, row).project = call[r].project
      BY DEF RowTicket
    <2>3. pc[r] = "rows" /\ users' = users
      BY <1>3 DEF ImportRow
    <2> QED
      BY <1>3, <2>1, <2>2, <2>3 DEF Put
  <1>4. CASE ~ForgetUser(r) /\ ~InsertTicket(r) /\ ~ImportRow(r)
    <2>1. tickets' = tickets
      BY <1>4 DEF Act, PlanStep, UserStep, planVars, Receive, FindProject, FindOwner, FindAnyState,
        FindAssignee, Workload, LogTicket, LogPick, EndRows, InsertProject, RenameProject,
        SoftDelete, RestoreProject, OnProject
    <2> QED
      BY <1>4, <2>1
  <1> QED
    BY <1>1, <1>2, <1>3, <1>4

LEMMA UserEffects ==
  ASSUME Types, NEW r \in Requests, Act(r), ~ForgetUser(r)
  PROVE  DOMAIN users' = DOMAIN users
  <1>1. CASE UserStep(r)
    BY <1>1 DEF UserStep, FindUser, UpdateUser, LogEntry, Abort, Types, TypeOK, AccountTypeOK
  <1>2. CASE ~UserStep(r)
    BY <1>2 DEF Act, PlanStep, planVars, Receive, FindProject, FindOwner, FindAnyState,
      FindAssignee, Workload, LogTicket, LogPick, EndRows, InsertProject, RenameProject,
      SoftDelete, RestoreProject, OnProject, InsertTicket, ImportRow
  <1> QED
    BY <1>1, <1>2

\* A ticket that is changed meanwhile stays in its project.
LEMMA ChangeEffects ==
  ASSUME Types, ChangeTicket \/ UNCHANGED vars
  PROVE  /\ UNCHANGED <<users, pc, call, projects, gone>> /\ DOMAIN tickets' = DOMAIN tickets
         /\ \A t \in DOMAIN tickets :
              /\ tickets'[t].project = tickets[t].project
              /\ tickets'[t].assignee \in DOMAIN users \cup {Nobody, tickets[t].assignee}
  <1>1. CASE ChangeTicket
    <2>1. PICK t \in DOMAIN tickets, a \in DOMAIN users \cup {Nobody}, o \in BOOLEAN :
            tickets' = [tickets EXCEPT ![t].assignee = a, ![t].open = o]
      BY <1>1 DEF ChangeTicket
    <2>2. UNCHANGED <<users, pc, call, projects, gone>>
      BY <1>1 DEF ChangeTicket, accountVars
    <2> QED
      BY <2>1, <2>2 DEF Types, TypeOK, Tickets
  <1>2. CASE UNCHANGED vars
    BY <1>2 DEF vars, accountVars, planVars
  <1> QED
    BY <1>1, <1>2

-----------------------------------------------------------------------------
LEMMA ReferencesStep ==
  ASSUME Types, References, [Next]_vars
  PROVE  References'
  <1>1. CASE ChangeTicket \/ UNCHANGED vars
    BY <1>1, ChangeEffects DEF References
  <1>2. ASSUME NEW r \in Requests, Act(r) PROVE References'
    <2>1. ASSUME NEW p \in DOMAIN projects' PROVE projects'[p].owner \in DOMAIN users'
      <3>1. CASE ForgetUser(r)
        BY <2>1, <3>1 DEF ForgetUser, DeleteUser, Restrict, References
      <3>2. CASE ~ForgetUser(r)
        <4>1. DOMAIN users' = DOMAIN users
          BY <1>2, <3>2, UserEffects
        <4>2. CASE /\ call[r].owner \in DOMAIN users
                   /\ projects' = Put(projects, r, [name |-> "new", description |-> "null",
                                                    owner |-> call[r].owner, deleted |-> FALSE])
          <5>1. p = r \/ p \in DOMAIN projects
            BY <2>1, <4>2 DEF Put
          <5>2. CASE p = r
            <6>1. projects'[p] = [name |-> "new", description |-> "null",
                                  owner |-> call[r].owner, deleted |-> FALSE]
              BY <4>2, <5>2 DEF Put
            <6> QED
              BY <4>1, <4>2, <6>1
          <5>3. CASE p # r
            BY <4>1, <4>2, <5>1, <5>3 DEF Put, References
          <5> QED
            BY <5>2, <5>3
        <4>3. CASE /\ DOMAIN projects' = DOMAIN projects
                   /\ \A x \in DOMAIN projects : projects'[x].owner = projects[x].owner
          BY <2>1, <4>1, <4>3 DEF References
        <4> QED
          BY <1>2, <4>2, <4>3, ProjectEffects
      <3> QED
        BY <3>1, <3>2
    <2>2. ASSUME NEW t \in DOMAIN tickets'
          PROVE  /\ tickets'[t].assignee \in DOMAIN users' \cup {Nobody}
                 /\ tickets'[t].project \in DOMAIN projects'
      <3>1. tickets'[t].project \in DOMAIN projects
        BY <1>2, <2>2, TicketEffects DEF References, Types, Routed
      <3>2. DOMAIN projects \subseteq DOMAIN projects'
        BY <1>2, Frame
      <3>3. tickets'[t].assignee \in DOMAIN users' \cup {Nobody}
        BY <1>2, <2>2, TicketEffects, UserEffects DEF References
      <3> QED
        BY <3>1, <3>2, <3>3
    <2> QED
      BY <2>1, <2>2 DEF References
  <1> QED
    BY <1>1, <1>2 DEF Next, Act

\* No ticket is assigned to a user who is gone and no project has such an owner: the
\* foreign keys decide, whatever create and the import have checked before the INSERT.
THEOREM NothingDangles == Spec => []References
  <1>1. Init => References
    BY PlanningAssumption DEF Init, AccountInit, References
  <1> QED
    BY InitTypes, TypesStep, ReferencesStep, <1>1, PTL DEF Spec

-----------------------------------------------------------------------------
\* The projects that were restored, or may have been.
Restored ==
  {call[q].project : q \in {q \in Requests : /\ call[q].op = "restore"
                                             /\ pc[q] \in {"log", "200", "500"}}}

LEMMA RestoredMeans ==
  /\ \A p : p \in Restored <=> Reached("restore", p, {"log", "200", "500"}) # {}
  /\ \A p : p \in Restored' <=> (Reached("restore", p, {"log", "200", "500"}) # {})'
  BY DEF Restored, Reached

\* A project that was deleted when a request came is deleted still, or was restored.
Dropped ==
  \A r \in Requests : \A p \in gone[r] :
    p \in DOMAIN projects /\ (projects[p].deleted \/ p \in Restored)

\* A project that a request will insert is not there yet.
NotYet == \A p \in DOMAIN projects \cap Requests : pc[p] \notin {"new", "owner", "addProject"}

\* A request that found its project active found it restored, if it was deleted before.
Checked ==
  \A r \in Requests :
    pc[r] \in {"assignee", "workload", "addTicket", "rows"} /\ call[r].project \in gone[r]
      => call[r].project \in Restored

\* New tickets are called by requests that have come.
Came == \A t \in DOMAIN tickets \ DOMAIN InitialTickets : t[1] \in Requests /\ pc[t[1]] # "new"

\* How a request gets where it is.
LEMMA Moves ==
  ASSUME Types, NEW r \in Requests, Act(r)
  PROVE  /\ pc'[r] # "new" /\ pc[r] \notin {"200", "500"}
         /\ pc[r] = "log" => pc'[r] = "200"
         /\ pc'[r] = "owner" => pc[r] = "new"
         /\ pc'[r] = "addProject" => pc[r] = "owner"
         /\ pc'[r] \in {"workload", "rows"} =>
              \/ pc[r] = "project" /\ Active(call[r].project)
              \/ pc[r] = "rows"
         /\ pc'[r] = "assignee" => pc[r] = "project" /\ Active(call[r].project)
         /\ pc'[r] = "addTicket" => pc[r] \in {"assignee", "workload"}
         /\ \/ pc[r] = "new" /\ gone' = [gone EXCEPT ![r] = {p \in DOMAIN projects : projects[p].deleted}]
            \/ pc[r] # "new"
  <1> USE DEF Types, TypeOK, goto, Done
  <1>1. CASE Receive(r)
    <2>1. PICK c \in Calls :
            pc' = [pc EXCEPT ![r] =
                 CASE c.op = "remove"  -> "find"
                   [] c.op = "update"  -> IF DOMAIN c.sent = {} THEN "400" ELSE "find"
                   [] c.op = "add"     -> "owner"
                   [] c.op = "rename"  -> IF DOMAIN c.sent = {} THEN "400" ELSE "project"
                   [] c.op = "restore" -> "anyState"
                   [] OTHER            -> "project"]
      BY <1>1 DEF Receive
    <2>2. pc'[r] \in {"find", "400", "owner", "project", "anyState"}
      BY <2>1, PlanningAssumption DEF Ops
    <2>3. pc[r] = "new" /\ gone' = [gone EXCEPT ![r] = {p \in DOMAIN projects : projects[p].deleted}]
      BY <1>1 DEF Receive
    <2> QED
      BY <2>2, <2>3
  <1>2. CASE FindProject(r)
    <2>1. call[r].op \in {"rename", "drop", "create", "import"} /\ pc[r] = "project"
      BY <1>2 DEF FindProject, Routed
    <2>2. pc'[r] \in {"404", "400", "rename", "drop", "workload", "assignee", "rows"}
          /\ (pc'[r] # "404" => Active(call[r].project))
      BY <1>2, <2>1 DEF FindProject
    <2> QED
      BY <2>1, <2>2
  <1>3. CASE FindOwner(r) \/ FindAnyState(r) \/ FindAssignee(r) \/ Workload(r)
    BY <1>3 DEF FindOwner, FindAnyState, FindAssignee, Workload
  <1>4. CASE InsertProject(r) \/ RenameProject(r) \/ SoftDelete(r) \/ RestoreProject(r)
    BY <1>4 DEF InsertProject, RenameProject, SoftDelete, RestoreProject, OnProject
  <1>5. CASE InsertTicket(r) \/ ImportRow(r)
    BY <1>5 DEF InsertTicket, ImportRow
  <1>6. CASE LogTicket(r) \/ LogPick(r) \/ EndRows(r)
    BY <1>6 DEF LogTicket, LogPick, EndRows
  <1>7. CASE ForgetUser(r)
    BY <1>7 DEF ForgetUser, DeleteUser
  <1>8. CASE UserStep(r)
    BY <1>8 DEF UserStep, FindUser, UpdateUser, LogEntry, Abort, InFlight, Catching, Answers
  <1> QED
    BY <1>1, <1>2, <1>3, <1>4, <1>5, <1>6, <1>7, <1>8 DEF Act, PlanStep

LEMMA RestoredStays ==
  ASSUME Types, NEW r \in Requests, Act(r)
  PROVE  Restored \subseteq Restored'
  <1> SUFFICES ASSUME NEW p \in Restored PROVE p \in Restored'
    OBVIOUS
  <1>1. PICK q \in Requests : /\ call[q].op = "restore" /\ call[q].project = p
                              /\ pc[q] \in {"log", "200", "500"}
    BY DEF Restored
  <1>2. call'[q] = call[q] /\ pc'[q] \in {"log", "200", "500"}
    BY <1>1, Frame, Moves
  <1> QED
    BY <1>1, <1>2 DEF Restored

LEMMA DroppedStep ==
  ASSUME Types, Dropped, NotYet, Checked, Came, [Next]_vars
  PROVE  Dropped' /\ NotYet' /\ Checked' /\ Came'
  <1>1. CASE ChangeTicket \/ UNCHANGED vars
    BY <1>1, ChangeEffects DEF Dropped, NotYet, Checked, Came, Restored
  <1>2. ASSUME NEW r \in Requests, Act(r) PROVE Dropped' /\ NotYet' /\ Checked' /\ Came'
    <2>1. ASSUME NEW p \in DOMAIN projects, projects[p].deleted \/ p \in Restored
          PROVE  p \in DOMAIN projects' /\ (projects'[p].deleted \/ p \in Restored')
      <3>1. p \in DOMAIN projects'
        BY <1>2, Frame
      <3>2. CASE p \in Restored
        BY <1>2, <3>1, <3>2, RestoredStays
      <3>3. CASE projects[p].deleted
        <4>1. CASE /\ pc[r] = "addProject"
                   /\ projects' = Put(projects, r, [name |-> "new", description |-> "null",
                                                    owner |-> call[r].owner, deleted |-> FALSE])
          <5>1. p # r
            BY <4>1 DEF NotYet
          <5> QED
            BY <3>1, <3>3, <4>1, <5>1 DEF Put
        <4>2. CASE call[r].op = "restore" /\ call[r].project = p /\ pc'[r] \in {"log", "500"}
          <5>1. call'[r] = call[r]
            BY <1>2, <4>2, Frame DEF Types, Routed, Null
          <5> QED
            BY <3>1, <4>2, <5>1 DEF Restored
        <4> QED
          BY <1>2, <3>1, <3>3, <4>1, <4>2, ProjectEffects
      <3> QED
        BY <2>1, <3>2, <3>3
    <2>2. Dropped'
      <3> SUFFICES ASSUME NEW q \in Requests, NEW p \in gone'[q]
                   PROVE  p \in DOMAIN projects' /\ (projects'[p].deleted \/ p \in Restored')
        BY DEF Dropped
      <3>1. CASE p \in gone[q]
        BY <2>1, <3>1 DEF Dropped
      <3>2. CASE p \notin gone[q]
        <4>1. p \in DOMAIN projects /\ projects[p].deleted
          BY <1>2, <3>2, Frame, Moves DEF Types, TypeOK
        <4> QED
          BY <2>1, <4>1
      <3> QED
        BY <3>1, <3>2
    <2>3. NotYet'
      <3> SUFFICES ASSUME NEW p \in DOMAIN projects' \cap Requests
                   PROVE  pc'[p] \notin {"new", "owner", "addProject"}
        BY DEF NotYet
      <3>1. CASE p \in DOMAIN projects
        BY <1>2, <3>1, Frame, Moves DEF NotYet
      <3>2. CASE p \notin DOMAIN projects
        <4>1. CASE /\ pc'[r] \in {"log", "500"}
                   /\ projects' = Put(projects, r, [name |-> "new", description |-> "null",
                                                    owner |-> call[r].owner, deleted |-> FALSE])
          BY <3>2, <4>1 DEF Put
        <4> QED
          BY <1>2, <3>2, <4>1, ProjectEffects
      <3> QED
        BY <3>1, <3>2
    <2>4. Checked'
      <3> SUFFICES ASSUME NEW q \in Requests,
                          pc'[q] \in {"assignee", "workload", "addTicket", "rows"},
                          call'[q].project \in gone'[q]
                   PROVE  call'[q].project \in Restored'
        BY DEF Checked
      <3>1. pc[q] # "new" /\ call'[q] = call[q] /\ gone'[q] = gone[q]
        BY <1>2, Frame, Moves
      <3>2. CASE pc[q] \in {"assignee", "workload", "addTicket", "rows"}
        BY <1>2, <3>1, <3>2, RestoredStays DEF Checked
      <3>3. CASE Active(call[q].project)
        <4>1. call[q].project \in Restored
          BY <3>1, <3>3 DEF Active, Dropped
        <4> QED
          BY <1>2, <3>1, <4>1, RestoredStays
      <3> QED
        BY <1>2, <3>1, <3>2, <3>3, Frame, Moves
    <2>5. Came'
      <3> SUFFICES ASSUME NEW t \in DOMAIN tickets' \ DOMAIN InitialTickets
                   PROVE  t[1] \in Requests /\ pc'[t[1]] # "new"
        BY DEF Came
      <3> QED
        BY <1>2, TicketEffects, Frame, Moves DEF Came
    <2> QED
      BY <2>2, <2>3, <2>4, <2>5
  <1> QED
    BY <1>1, <1>2 DEF Next, Act

LEMMA IntoStep ==
  ASSUME Types, Checked, Came, NoTicketIntoDeletedProject, [Next]_vars
  PROVE  NoTicketIntoDeletedProject'
  <1>1. CASE ChangeTicket \/ UNCHANGED vars
    BY <1>1, ChangeEffects DEF NoTicketIntoDeletedProject, Reached
  <1>2. ASSUME NEW r \in Requests, Act(r) PROVE NoTicketIntoDeletedProject'
    <2> SUFFICES ASSUME NEW t \in DOMAIN tickets' \ DOMAIN InitialTickets,
                        tickets'[t].project \in gone'[t[1]]
                 PROVE  tickets'[t].project \in Restored'
      BY RestoredMeans DEF NoTicketIntoDeletedProject
    <2>1. tickets'[t].project \in Restored
      <3>1. CASE t \in DOMAIN tickets /\ tickets'[t].project = tickets[t].project
        <4>1. gone'[t[1]] = gone[t[1]]
          BY <1>2, <3>1, Frame DEF Came
        <4> QED
          BY <3>1, <4>1, RestoredMeans DEF NoTicketIntoDeletedProject
      <3>2. CASE /\ t[1] = r /\ pc[r] \in {"addTicket", "rows"}
                 /\ tickets'[t].project = call[r].project
        <4>1. gone' = gone
          BY <1>2, <3>2, Frame
        <4> QED
          BY <3>2, <4>1 DEF Checked
      <3> QED
        BY <1>2, <3>1, <3>2, TicketEffects
    <2> QED
      BY <1>2, <2>1, RestoredStays
  <1> QED
    BY <1>1, <1>2 DEF Next, Act

\* A request that comes after a project was deleted puts no ticket into it, unless the
\* project is restored meanwhile (assertExists in create and import): the check may be
\* overtaken by a later deletion only.
THEOREM DeletedStaysClosed == Spec => []NoTicketIntoDeletedProject
  <1> DEFINE Inv == Types /\ Dropped /\ NotYet /\ Checked /\ Came /\ NoTicketIntoDeletedProject
  <1>1. Init => Inv
    <2> SUFFICES ASSUME Init PROVE Inv
      OBVIOUS
    <2> QED
      BY InitTypes, PlanningAssumption DEF Init, AccountInit, Dropped, NotYet, Checked, Came,
        NoTicketIntoDeletedProject
  <1>2. Inv /\ [Next]_vars => Inv'
    BY TypesStep, DroppedStep, IntoStep
  <1> QED
    BY <1>1, <1>2, PTL DEF Spec

-----------------------------------------------------------------------------
\* What a step of r does to the audit log, the entries to come, the picks and the failures.
LEMMA AuditEffects ==
  ASSUME Types, NEW r \in Requests, Act(r)
  PROVE  /\ \/ log' = log
            \/ pc[r] \in {"log", "logTicket"} /\ log' = log \cup {entry[r]}
            \/ pc[r] = "logPick" /\ log' = log \cup {PickEntry(r)}
         /\ \/ entry' = entry /\ pc'[r] \notin {"log", "logTicket"}
            \/ \E e : /\ entry' = [entry EXCEPT ![r] = e]
                      /\ e.action \in {"CREATE", "UPDATE", "DELETE", "RESTORE"}
         /\ \/ pick' = pick
            \/ /\ pc[r] = "workload" /\ pc'[r] = "addTicket"
               /\ \E u \in Developers : pick' = [pick EXCEPT ![r] = u]
         /\ faults' \in Nat /\ faults \in Nat /\ faults' >= faults
  <1> USE DEF Types, TypeOK, goto, Done
  <1>1. /\ \/ log' = log
           \/ pc[r] \in {"log", "logTicket"} /\ log' = log \cup {entry[r]}
           \/ pc[r] = "logPick" /\ log' = log \cup {PickEntry(r)}
        /\ \/ pick' = pick
           \/ /\ pc[r] = "workload" /\ pc'[r] = "addTicket"
              /\ \E u \in Developers : pick' = [pick EXCEPT ![r] = u]
    BY DEF Act, PlanStep, UserStep, planVars, Receive, FindProject, FindOwner, FindAnyState,
      FindAssignee, Workload, LogTicket, LogPick, EndRows, InsertProject, RenameProject, SoftDelete,
      RestoreProject, OnProject, InsertTicket, ImportRow, ForgetUser, DeleteUser, FindUser,
      UpdateUser, LogEntry, Abort
  <1>2. faults' = faults \/ faults' = faults + 1
    BY DEF Act, PlanStep, UserStep, planVars, Receive, FindProject, FindOwner, FindAnyState,
      FindAssignee, Workload, LogTicket, LogPick, EndRows, InsertProject, RenameProject, SoftDelete,
      RestoreProject, OnProject, InsertTicket, ImportRow, ForgetUser, DeleteUser, FindUser,
      UpdateUser, LogEntry, Abort, Succeeds, Fails
  <1>3. faults \in Nat
    BY AccountAssumption DEF AccountTypeOK
  <1>4. \/ entry' = entry /\ pc'[r] \notin {"log", "logTicket"}
        \/ \E e : /\ entry' = [entry EXCEPT ![r] = e]
                  /\ e.action \in {"CREATE", "UPDATE", "DELETE", "RESTORE"}
    <2>1. CASE Receive(r)
      <3>1. PICK c \in Calls :
              pc' = [pc EXCEPT ![r] =
                   CASE c.op = "remove"  -> "find"
                     [] c.op = "update"  -> IF DOMAIN c.sent = {} THEN "400" ELSE "find"
                     [] c.op = "add"     -> "owner"
                     [] c.op = "rename"  -> IF DOMAIN c.sent = {} THEN "400" ELSE "project"
                     [] c.op = "restore" -> "anyState"
                     [] OTHER            -> "project"]
        BY <2>1 DEF Receive
      <3> QED
        BY <2>1, <3>1, PlanningAssumption DEF Receive, Ops
    <2>2. CASE FindProject(r)
      BY <2>2 DEF FindProject, Routed
    <2>3. CASE FindOwner(r) \/ FindAnyState(r) \/ FindAssignee(r) \/ Workload(r)
                 \/ LogTicket(r) \/ LogPick(r) \/ ImportRow(r)
      BY <2>3 DEF FindOwner, FindAnyState, FindAssignee, Workload, LogTicket, LogPick, ImportRow
    <2>a. \A s : pc' = [pc EXCEPT ![r] = s] => pc'[r] = s
      OBVIOUS
    <2>4. CASE InsertProject(r) \/ InsertTicket(r) \/ EndRows(r)
      <3> DEFINE e1 == [action |-> "CREATE", project |-> r, by |-> r]
                 e2 == [action |-> "CREATE", ticket |-> <<r, 1>>, by |-> r]
                 e3 == [action |-> "CREATE", project |-> call[r].project, by |-> r,
                        created |-> summary[r].created, failed |-> summary[r].failed]
      <3>1. e1.action = "CREATE" /\ e2.action = "CREATE" /\ e3.action = "CREATE"
        OBVIOUS
      <3>2. \/ entry' = entry /\ pc' = [pc EXCEPT ![r] = "400"]
            \/ \E e \in {e1, e2, e3} : entry' = [entry EXCEPT ![r] = e]
        BY <2>4 DEF InsertProject, InsertTicket, EndRows
      <3> QED
        BY <2>a, <3>1, <3>2
    <2>5. CASE RenameProject(r) \/ SoftDelete(r) \/ RestoreProject(r)
      <3>1. ASSUME NEW where, NEW row, NEW action \in {"UPDATE", "DELETE", "RESTORE"},
                   OnProject(r, where, row, action)
            PROVE  \/ entry' = entry /\ pc'[r] \notin {"log", "logTicket"}
                   \/ \E e : /\ entry' = [entry EXCEPT ![r] = e]
                             /\ e.action \in {"CREATE", "UPDATE", "DELETE", "RESTORE"}
        <4> DEFINE e == [action |-> action, project |-> call[r].project, by |-> r,
                         metadata |-> IF action = "UPDATE" THEN Diff(seen[r], row, ProjectFields)
                                      ELSE [name |-> seen[r].name]]
        <4>1. e.action = action
          OBVIOUS
        <4>2. \/ entry' = entry /\ pc' = [pc EXCEPT ![r] = "404"]
              \/ entry' = [entry EXCEPT ![r] = e]
          BY <3>1 DEF OnProject
        <4> HIDE DEF e
        <4> QED
          BY <2>a, <4>1, <4>2
      <3> QED
        BY <2>5, <3>1 DEF RenameProject, SoftDelete, RestoreProject
    <2>6. CASE ForgetUser(r)
      <3> DEFINE e == [action |-> "DELETE", user |-> call[r].user, by |-> r]
      <3>1. e.action = "DELETE"
        OBVIOUS
      <3>2. \/ entry' = entry /\ (\E s \in {"404", "400"} : pc' = [pc EXCEPT ![r] = s])
            \/ entry' = [entry EXCEPT ![r] = e]
        BY <2>6 DEF ForgetUser, DeleteUser
      <3> QED
        BY <2>a, <3>1, <3>2
    <2>7. CASE UserStep(r)
      <3> DEFINE e == [action |-> "UPDATE", user |-> call[r].user, by |-> r,
                       diff |-> Diff(before[r], users'[call[r].user], Fields)]
      <3>1. e.action = "UPDATE"
        OBVIOUS
      <3>2. \/ entry' = entry /\ (\E s \in {"404", "200", "500", "update", "delete"} :
                                     pc' = [pc EXCEPT ![r] = s])
            \/ entry' = [entry EXCEPT ![r] = e]
        BY <2>7 DEF UserStep, FindUser, UpdateUser, LogEntry, Abort
      <3> HIDE DEF e
      <3> QED
        BY <2>a, <3>1, <3>2
    <2> QED
      BY <2>1, <2>2, <2>3, <2>4, <2>5, <2>6, <2>7 DEF Act, PlanStep
  <1> QED
    BY <1>1, <1>2, <1>3, <1>4

\* How a creation gets to its entries and to its answer.
LEMMA AuditMoves ==
  ASSUME Types, NEW r \in Requests, Act(r)
  PROVE  /\ pc'[r] = "workload" => pc[r] = "project" /\ call[r].assignee = Nobody
         /\ pc'[r] = "logTicket" => pc[r] = "addTicket"
         /\ pc'[r] = "logPick" => pc[r] = "logTicket" /\ pick[r] # Nobody
         /\ pc'[r] = "log" =>
              pc[r] \in {"addProject", "rename", "drop", "restore", "rows", "update", "delete"}
         /\ pc'[r] = "200" => \/ pc[r] = "log"
                              \/ pc[r] = "logTicket" /\ pick[r] = Nobody
                              \/ /\ pc[r] = "logPick"
                                 /\ faults' = 0 => log' = log \cup {PickEntry(r)}
         /\ pc[r] \in {"addTicket", "logTicket", "logPick"} =>
              pc'[r] \in {"logTicket", "logPick"} \cup Answers
  <1> USE DEF Types, TypeOK, goto, Done, Answers
  <1>1. CASE Receive(r)
    <2>1. PICK c \in Calls :
            pc' = [pc EXCEPT ![r] =
                 CASE c.op = "remove"  -> "find"
                   [] c.op = "update"  -> IF DOMAIN c.sent = {} THEN "400" ELSE "find"
                   [] c.op = "add"     -> "owner"
                   [] c.op = "rename"  -> IF DOMAIN c.sent = {} THEN "400" ELSE "project"
                   [] c.op = "restore" -> "anyState"
                   [] OTHER            -> "project"]
      BY <1>1 DEF Receive
    <2>2. pc'[r] \in {"find", "400", "owner", "project", "anyState"} /\ pc[r] = "new"
      BY <1>1, <2>1, PlanningAssumption DEF Receive, Ops
    <2> QED
      BY <2>2
  <1>2. CASE FindProject(r)
    <2>1. call[r].op \in {"rename", "drop", "create", "import"} /\ pc[r] = "project"
      BY <1>2 DEF FindProject, Routed
    <2>2. /\ pc'[r] \in {"404", "400", "rename", "drop", "workload", "assignee", "rows"}
          /\ pc'[r] = "workload" => call[r].assignee = Nobody
      BY <1>2, <2>1 DEF FindProject
    <2> QED
      BY <2>1, <2>2
  <1>3. CASE FindOwner(r) \/ FindAnyState(r) \/ FindAssignee(r) \/ Workload(r)
    BY <1>3 DEF FindOwner, FindAnyState, FindAssignee, Workload
  <1>4. CASE InsertProject(r) \/ RenameProject(r) \/ SoftDelete(r) \/ RestoreProject(r)
    BY <1>4 DEF InsertProject, RenameProject, SoftDelete, RestoreProject, OnProject
  <1>5. CASE InsertTicket(r) \/ ImportRow(r) \/ EndRows(r)
    BY <1>5 DEF InsertTicket, ImportRow, EndRows
  <1>6. CASE LogTicket(r)
    BY <1>6 DEF LogTicket
  <1>7. CASE LogPick(r)
    <2>1. pc[r] = "logPick" /\ pc'[r] = "200" /\ (log' = log \cup {PickEntry(r)} \/ faults' = faults + 1)
      BY <1>7 DEF LogPick, Fails
    <2>2. faults \in Nat
      BY AccountAssumption DEF AccountTypeOK
    <2> QED
      BY <2>1, <2>2
  <1>8. CASE ForgetUser(r)
    BY <1>8 DEF ForgetUser, DeleteUser
  <1>9. CASE UserStep(r)
    BY <1>9 DEF UserStep, FindUser, UpdateUser, LogEntry, Abort, InFlight, Catching
  <1> QED
    BY <1>1, <1>2, <1>3, <1>4, <1>5, <1>6, <1>7, <1>8, <1>9 DEF Act, PlanStep

\* Answered requests take no step.
LEMMA Ended ==
  ASSUME Types, NEW r \in Requests, Act(r)
  PROVE  pc[r] \notin Answers
  <1> USE DEF Answers
  <1>1. CASE UserStep(r)
    BY <1>1 DEF UserStep, FindUser, UpdateUser, LogEntry, Abort, InFlight
  <1>2. CASE ~UserStep(r)
    BY <1>2 DEF Act, PlanStep, Receive, FindProject, FindOwner, FindAnyState, FindAssignee, Workload,
      LogTicket, LogPick, EndRows, InsertProject, RenameProject, SoftDelete, RestoreProject,
      InsertTicket, ImportRow, ForgetUser, DeleteUser
  <1> QED
    BY <1>1, <1>2

\* Where a request stands, what it has picked and what it will write or has written of it.
Assigning(r) ==
  /\ pc[r] \in {"log", "logTicket"} => entry[r].action \in {"CREATE", "UPDATE", "DELETE", "RESTORE"}
  /\ pc[r] \in {"logTicket", "logPick"} => call[r].op = "create"
  /\ pc[r] = "log" => call[r].op # "create"
  /\ pc[r] = "workload" => call[r].assignee = Nobody
  /\ pc[r] = "logPick" => pick[r] # Nobody
  /\ pick[r] # Nobody => /\ call[r].assignee = Nobody
                         /\ pc[r] \in {"addTicket", "logTicket", "logPick"} \cup Answers
  /\ pc[r] = "200" /\ call[r].op = "create" /\ pick[r] # Nobody /\ faults = 0
       => PickEntry(r) \in log

\* Entries come from what requests have done, those of an assignment from a pick.
Assigned ==
  /\ entry = [r \in Requests |-> entry[r]]
  /\ \A r \in Requests : Assigning(r)
  /\ \A e \in log : e.action = "AUTO_ASSIGN"
       => \E r \in Requests : pick[r] # Nobody /\ e = PickEntry(r)

LEMMA AssignedStep ==
  ASSUME Types, Assigned, [Next]_vars
  PROVE  Assigned'
  <1>1. CASE ChangeTicket \/ UNCHANGED vars
    <2>1. UNCHANGED <<pc, call, entry, pick, log, faults>>
      BY <1>1 DEF ChangeTicket, accountVars, vars, planVars
    <2> QED
      BY <2>1 DEF Assigned, Assigning, PickEntry
  <1>2. ASSUME NEW r \in Requests, Act(r) PROVE Assigned'
    <2>1. Assigning(r) /\ Routed(r)
      BY DEF Assigned, Types
    <2>2. pc[r] # "new" => call'[r] = call[r]
      BY <1>2, Frame
    <2>3. \A q \in Requests : pick[q] # Nobody => pick'[q] = pick[q] /\ PickEntry(q)' = PickEntry(q)
      <3> TAKE q \in Requests
      <3>1. pick[q] # Nobody => pick'[q] = pick[q]
        BY <1>2, AuditEffects DEF Assigned, Assigning, Answers, Types, TypeOK
      <3> QED
        BY <3>1 DEF PickEntry
    <2>4. ASSUME NEW q \in Requests \ {r} PROVE Assigning(q)'
      <3>1. Assigning(q)
        BY DEF Assigned
      <3>2. pc'[q] = pc[q] /\ call'[q] = call[q]
        BY <1>2, Frame
      <3>3. pick'[q] = pick[q] /\ entry'[q] = entry[q] /\ (faults' = 0 => faults = 0)
            /\ log \subseteq log'
        <4>1. (faults' = 0 => faults = 0) /\ log \subseteq log'
          BY <1>2, AuditEffects
        <4>2. /\ pick' = pick \/ \E u : pick' = [pick EXCEPT ![r] = u]
              /\ entry' = entry \/ \E e : entry' = [entry EXCEPT ![r] = e]
          BY <1>2, AuditEffects
        <4>3. q \in DOMAIN pick /\ q \in DOMAIN entry
          BY DEF Types, TypeOK, Assigned
        <4> QED
          BY <4>1, <4>2, <4>3
      <3>4. PickEntry(q)' = PickEntry(q)
        BY <3>3 DEF PickEntry
      <3> QED
        BY <3>1, <3>2, <3>3, <3>4 DEF Assigning
    <2>5. Assigning(r)'
      <3>1. pc'[r] \in {"log", "logTicket"} =>
              entry'[r].action \in {"CREATE", "UPDATE", "DELETE", "RESTORE"}
        BY <1>2, AuditEffects DEF Assigned
      <3>2. /\ pc'[r] \in {"logTicket", "logPick"} => call'[r].op = "create"
            /\ pc'[r] = "log" => call'[r].op # "create"
            /\ pc'[r] = "workload" => call'[r].assignee = Nobody
        BY <1>2, <2>1, <2>2, AuditMoves DEF Assigning, Routed
      <3>3. pc'[r] = "logPick" => pick'[r] # Nobody
        BY <1>2, <2>3, AuditMoves
      <3>4. pick'[r] # Nobody => /\ call'[r].assignee = Nobody
                                 /\ pc'[r] \in {"addTicket", "logTicket", "logPick"} \cup Answers
        <4>1. CASE pick[r] # Nobody
          <5>1. pc[r] \in {"addTicket", "logTicket", "logPick"}
            BY <1>2, <2>1, <4>1, Ended DEF Assigning
          <5> QED
            BY <1>2, <2>1, <2>2, <4>1, <5>1, AuditMoves DEF Assigning
        <4>2. CASE pick[r] = Nobody /\ pick'[r] # Nobody
          <5>1. pc[r] = "workload" /\ pc'[r] = "addTicket"
            BY <1>2, <4>2, AuditEffects
          <5> QED
            BY <2>1, <2>2, <5>1 DEF Assigning
        <4> QED
          BY <4>1, <4>2
      <3>5. ASSUME pc'[r] = "200", call'[r].op = "create", pick'[r] # Nobody, faults' = 0
            PROVE  PickEntry(r)' \in log'
        <4>1. pc[r] # "workload"
          BY <1>2, <3>5, AuditMoves
        <4>2. pick'[r] = pick[r]
          BY <1>2, <4>1, AuditEffects
        <4>3. PickEntry(r)' = PickEntry(r)
          BY <4>2 DEF PickEntry
        <4>4. pc[r] = "logPick" /\ log' = log \cup {PickEntry(r)}
          BY <1>2, <2>1, <2>2, <3>5, <4>2, AuditMoves DEF Assigning
        <4> QED
          BY <4>3, <4>4
      <3> QED
        BY <3>1, <3>2, <3>3, <3>4, <3>5 DEF Assigning
    <2>6. ASSUME NEW e \in log', e.action = "AUTO_ASSIGN"
          PROVE  \E q \in Requests : pick'[q] # Nobody /\ e = PickEntry(q)'
      <3>1. CASE e \in log
        BY <2>3, <2>6, <3>1 DEF Assigned
      <3>2. CASE e = PickEntry(r) /\ pc[r] = "logPick"
        BY <2>1, <2>3, <3>2 DEF Assigning
      <3>3. e # entry[r] \/ pc[r] \notin {"log", "logTicket"}
        BY <2>1, <2>6 DEF Assigning
      <3> QED
        BY <1>2, <3>1, <3>2, <3>3, AuditEffects
    <2>7. entry' = [q \in Requests |-> entry'[q]]
      BY <1>2, AuditEffects DEF Assigned
    <2> QED
      BY <2>4, <2>5, <2>6, <2>7 DEF Assigned
  <1> QED
    BY <1>1, <1>2 DEF Next, Act

\* The assignee that createTicket picks for a ticket sent without one has an AUTO_ASSIGN
\* entry when the creation is answered, if no statement failed; and such an entry is about
\* a ticket that was sent without an assignee, and names the one that was picked.
THEOREM PicksAudited == Spec => []AutoAssignAudited
  <1>1. Init => Assigned
    <2> SUFFICES ASSUME Init PROVE Assigned
      OBVIOUS
    <2> QED
      BY DEF Init, AccountInit, Assigned, Assigning
  <1>2. Types /\ Assigned => AutoAssignAudited
    <2> SUFFICES ASSUME Types, Assigned PROVE AutoAssignAudited
      OBVIOUS
    <2>1. ASSUME NEW e \in log, e.action = "AUTO_ASSIGN"
          PROVE  call[e.ticket[1]].assignee = Nobody /\ e = PickEntry(e.ticket[1])
      <3>1. PICK r \in Requests : pick[r] # Nobody /\ e = PickEntry(r)
        BY <2>1 DEF Assigned
      <3>2. e.ticket[1] = r
        BY <3>1 DEF PickEntry
      <3> QED
        BY <3>1, <3>2 DEF Assigned, Assigning
    <2> QED
      BY <2>1 DEF Assigned, Assigning, AutoAssignAudited
  <1> QED
    BY InitTypes, TypesStep, AssignedStep, <1>1, <1>2, PTL DEF Spec

-----------------------------------------------------------------------------
\* Counting: a set that gains at most one element, and one that gains it.
LEMMA AtMostOneMore ==
  ASSUME NEW S, IsFiniteSet(S), NEW T, NEW x, T \subseteq S \cup {x}
  PROVE  /\ IsFiniteSet(T) /\ Cardinality(T) \in Nat /\ Cardinality(S) \in Nat
         /\ Cardinality(T) <= Cardinality(S) + 1
  <1>1. IsFiniteSet(S \cup {x}) /\ Cardinality(S \cup {x}) <= Cardinality(S) + 1
        /\ Cardinality(S) \in Nat
    <2>1. Cardinality(S) \in Nat
      BY FS_CardinalityType
    <2> QED
      BY <2>1, FS_AddElement
  <1>2. IsFiniteSet(T) /\ Cardinality(T) <= Cardinality(S \cup {x})
    BY <1>1, FS_Subset
  <1>3. Cardinality(T) \in Nat /\ Cardinality(S \cup {x}) \in Nat
    BY <1>1, <1>2, FS_CardinalityType
  <1> QED
    BY <1>1, <1>2, <1>3

LEMMA OneMore ==
  ASSUME NEW S, IsFiniteSet(S), NEW x, x \notin S
  PROVE  /\ IsFiniteSet(S \cup {x}) /\ Cardinality(S) \in Nat
         /\ Cardinality(S \cup {x}) = Cardinality(S) + 1
  BY FS_AddElement, FS_CardinalityType

LEMMA NoMore ==
  ASSUME NEW S, IsFiniteSet(S), NEW T, T \subseteq S
  PROVE  /\ IsFiniteSet(T) /\ Cardinality(T) \in Nat /\ Cardinality(S) \in Nat
         /\ Cardinality(T) <= Cardinality(S)
  BY FS_Subset, FS_CardinalityType

\* The requests that have come: finitely many at any time, however many may come.
Served == {r \in Requests : pc[r] # "new"}

LEMMA ServedStep ==
  ASSUME Types, IsFiniteSet(Served), [Next]_vars
  PROVE  IsFiniteSet(Served)'
  <1>1. CASE ChangeTicket \/ UNCHANGED vars
    <2>1. Served' = Served
      BY <1>1, ChangeEffects DEF Served
    <2> QED
      BY <2>1
  <1>2. ASSUME NEW r \in Requests, Act(r) PROVE IsFiniteSet(Served)'
    <2>1. Served' \subseteq Served \cup {r}
      BY <1>2, Frame DEF Served
    <2> QED
      BY <2>1, AtMostOneMore
  <1> QED
    BY <1>1, <1>2 DEF Next, Act

\* The deletions and the restores of a project that got as far as their UPDATE.
Deleters(p) == Reached("drop", p, {"log", "200"})
Restorers(p) == Reached("restore", p, {"log", "200", "500"})

\* Deletions of a project and its restores take turns: while it is there, every deletion
\* has its restore.
Alternate ==
  \A p \in ProjectIds :
    /\ Deleters(p) # {} => p \in DOMAIN projects
    /\ Active(p) => Cardinality(Deleters(p)) <= Cardinality(Restorers(p))
    /\ Cardinality(Deleters(p)) <= 1 + Cardinality(Restorers(p))

LEMMA CountsFinite ==
  ASSUME IsFiniteSet(Served), NEW p
  PROVE  /\ IsFiniteSet(Deleters(p)) /\ IsFiniteSet(Restorers(p))
         /\ Cardinality(Deleters(p)) \in Nat /\ Cardinality(Restorers(p)) \in Nat
  <1>1. Deleters(p) \subseteq Served /\ Restorers(p) \subseteq Served
    BY DEF Deleters, Restorers, Reached, Served
  <1> QED
    BY <1>1, NoMore

\* What a step does to the turns of a project.
LEMMA TurnEffects ==
  ASSUME Types, Assigned, NotYet, NEW r \in Requests, Act(r), NEW p \in ProjectIds
  PROVE  /\ Restorers(p) \subseteq Restorers(p)'
         /\ \/ Deleters(p)' \subseteq Deleters(p)
            \/ /\ Deleters(p)' \subseteq Deleters(p) \cup {r}
               /\ Active(p) /\ ~Active(p)'
         /\ \/ Active(p)' => Active(p)
            \/ p \notin DOMAIN projects
            \/ r \in Restorers(p)' \ Restorers(p)
         /\ DOMAIN projects \subseteq DOMAIN projects'
  <1>1. \A q \in Requests \ {r} : pc'[q] = pc[q] /\ call'[q] = call[q]
    BY Frame
  <1>2. /\ pc[r] # "new" => call'[r] = call[r]
        /\ DOMAIN projects \subseteq DOMAIN projects'
    BY Frame
  <1>3. Restorers(p) \subseteq Restorers(p)'
    <2> SUFFICES ASSUME NEW q \in Restorers(p) PROVE q \in Restorers(p)'
      OBVIOUS
    <2>1. CASE q = r
      BY <1>2, <2>1, Moves DEF Restorers, Reached
    <2>2. CASE q # r
      BY <1>1, <2>2 DEF Restorers, Reached
    <2> QED
      BY <2>1, <2>2
  <1>4. \/ Deleters(p)' \subseteq Deleters(p)
        \/ /\ Deleters(p)' \subseteq Deleters(p) \cup {r}
           /\ Active(p) /\ ~Active(p)'
    <2>1. Deleters(p)' \subseteq Deleters(p) \cup {r}
      BY <1>1 DEF Deleters, Reached
    <2>2. CASE r \notin Deleters(p)' \/ r \in Deleters(p)
      BY <2>1, <2>2
    <2>3. CASE r \in Deleters(p)' /\ r \notin Deleters(p)
      <3>1. pc'[r] \in {"log", "200"} /\ call'[r].op = "drop" /\ call'[r].project = p
        BY <2>3 DEF Deleters, Reached
      <3>2. pc[r] # "new"
        BY <3>1, AuditMoves
      <3>3. pc[r] = "drop" /\ pc'[r] = "log"
        BY <1>2, <2>3, <3>1, <3>2, AuditMoves
          DEF Assigned, Assigning, Types, Routed, Deleters, Reached
      <3>4. Active(p) /\ projects' = [projects EXCEPT ![p] = [projects[p] EXCEPT !.deleted = TRUE]]
        <4>1. SoftDelete(r)
          BY <3>3 DEF Act, PlanStep, UserStep, Receive, FindProject, FindOwner, FindAnyState,
            FindAssignee, Workload, LogTicket, LogPick, EndRows, InsertProject, RenameProject,
            RestoreProject, InsertTicket, ImportRow, ForgetUser, DeleteUser, FindUser, UpdateUser,
            LogEntry, Abort, goto, Types, TypeOK
        <4>2. call[r].project = p
          BY <1>2, <3>1, <3>2
        <4> QED
          BY <3>3, <4>1, <4>2 DEF SoftDelete, OnProject, goto, Types, TypeOK
      <3>5. ~Active(p)'
        BY <3>4 DEF Active, Types, TypeOK, ProjectRow
      <3> QED
        BY <2>1, <3>4, <3>5
    <2> QED
      BY <2>2, <2>3
  <1>5. ASSUME Active(p)', ~Active(p), p \in DOMAIN projects
        PROVE  r \in Restorers(p)' \ Restorers(p)
    <2>1. projects[p].deleted /\ ~projects'[p].deleted
      BY <1>5 DEF Active
    <2>2. CASE call[r].op = "restore" /\ call[r].project = p /\ pc'[r] \in {"log", "500"}
      <3>1. pc[r] \notin {"log", "200", "500"} /\ pc[r] # "new"
        BY <2>2, Moves DEF Types, Routed, Null
      <3> QED
        BY <1>2, <2>2, <3>1 DEF Restorers, Reached
    <2>3. CASE /\ pc[r] = "addProject"
               /\ projects' = Put(projects, r, [name |-> "new", description |-> "null",
                                                owner |-> call[r].owner, deleted |-> FALSE])
      <3>1. p # r
        BY <1>5, <2>3 DEF NotYet
      <3> QED
        BY <1>5, <2>1, <2>3, <3>1 DEF Put
    <2> QED
      BY <1>5, <2>1, <2>2, <2>3, ProjectEffects
  <1> QED
    BY <1>2, <1>3, <1>4, <1>5

LEMMA AlternateStep ==
  ASSUME Types, Assigned, NotYet, IsFiniteSet(Served), Alternate, [Next]_vars
  PROVE  Alternate'
  <1>1. CASE ChangeTicket \/ UNCHANGED vars
    <2>1. UNCHANGED <<pc, call, projects>>
      BY <1>1, ChangeEffects
    <2> QED
      BY <2>1 DEF Alternate, Deleters, Restorers, Reached, Active
  <1>2. ASSUME NEW r \in Requests, Act(r) PROVE Alternate'
    <2> SUFFICES ASSUME NEW p \in ProjectIds
                 PROVE  /\ Deleters(p)' # {} => p \in DOMAIN projects'
                        /\ Active(p)' => Cardinality(Deleters(p)') <= Cardinality(Restorers(p)')
                        /\ Cardinality(Deleters(p)') <= 1 + Cardinality(Restorers(p)')
      BY DEF Alternate
    <2> DEFINE D == Deleters(p)
               R == Restorers(p)
               DD == Deleters(p)'
               RR == Restorers(p)'
    <2>1. R \subseteq RR /\ DOMAIN projects \subseteq DOMAIN projects'
      BY <1>2, TurnEffects
    <2>2. /\ IsFiniteSet(D) /\ IsFiniteSet(R) /\ IsFiniteSet(RR)
          /\ Cardinality(D) \in Nat /\ Cardinality(R) \in Nat /\ Cardinality(RR) \in Nat
      <3>1. IsFiniteSet(Served)'
        BY <1>2, ServedStep DEF Next, Act
      <3>2. RR \subseteq Served'
        BY DEF Restorers, Reached, Served
      <3> QED
        BY <3>1, <3>2, CountsFinite, NoMore
    <2>3. Cardinality(R) <= Cardinality(RR)
      BY <2>1, <2>2, NoMore
    <2>4. /\ D # {} => p \in DOMAIN projects
          /\ Active(p) => Cardinality(D) <= Cardinality(R)
          /\ Cardinality(D) <= 1 + Cardinality(R)
      BY DEF Alternate
    <2> HIDE DEF D, R, DD, RR
    <2>5. CASE DD \subseteq D \cup {r} /\ Active(p) /\ ~Active(p)'
      <3>1. Cardinality(DD) \in Nat /\ Cardinality(DD) <= Cardinality(D) + 1
        BY <2>2, <2>5, AtMostOneMore
      <3> QED
        BY <2>1, <2>2, <2>3, <2>4, <2>5, <3>1 DEF Active, D, DD, RR
    <2>6. CASE DD \subseteq D
      <3>1. Cardinality(DD) \in Nat /\ Cardinality(DD) <= Cardinality(D)
        BY <2>2, <2>6, NoMore
      <3>2. DD # {} => p \in DOMAIN projects'
        BY <2>1, <2>4, <2>6
      <3>3. ASSUME Active(p)' PROVE Cardinality(DD) <= Cardinality(RR)
        <4>1. CASE Active(p)
          BY <2>2, <2>3, <2>4, <3>1, <4>1
        <4>2. CASE p \notin DOMAIN projects
          <5>1. DD = {}
            BY <2>4, <2>6, <4>2
          <5> QED
            BY <2>2, <5>1, FS_EmptySet
        <4>3. CASE r \in RR \ R
          <5>1. Cardinality(R \cup {r}) = Cardinality(R) + 1 /\ IsFiniteSet(R \cup {r})
            BY <2>2, <4>3, OneMore
          <5>2. Cardinality(R \cup {r}) <= Cardinality(RR)
            BY <2>1, <2>2, <4>3, NoMore
          <5> QED
            BY <2>2, <2>4, <3>1, <5>1, <5>2
        <4> QED
          BY <1>2, <3>3, <4>1, <4>2, <4>3, TurnEffects DEF R, RR
      <3> QED
        BY <2>2, <2>3, <2>4, <3>1, <3>2, <3>3 DEF DD, RR
    <2> QED
      BY <1>2, <2>5, <2>6, TurnEffects DEF D, DD
  <1> QED
    BY <1>1, <1>2 DEF Next, Act

\* Of the deletions of a project that are answered 200 (softDelete looks at the row count
\* of its UPDATE), all but one have a restore that got as far as its UPDATE: a deletion is
\* confirmed once only, however many requests had found the project there.
THEOREM DeletionsConfirmedOnce == Spec => []DeletesNeedRestores
  <1> DEFINE Inv == /\ Types /\ Dropped /\ NotYet /\ Checked /\ Came
                    /\ Assigned /\ IsFiniteSet(Served) /\ Alternate
  <1>1. Init => Inv
    <2> SUFFICES ASSUME Init PROVE Inv
      OBVIOUS
    <2>1. Served = {} /\ \A p : Deleters(p) = {} /\ Restorers(p) = {}
      BY DEF Init, AccountInit, Served, Deleters, Restorers, Reached
    <2>2. IsFiniteSet(Served) /\ Alternate
      BY <2>1, FS_EmptySet DEF Alternate
    <2>3. Dropped /\ NotYet /\ Checked /\ Came /\ Assigned
      BY PlanningAssumption DEF Init, AccountInit, Dropped, NotYet, Checked, Came, Assigned, Assigning
    <2> QED
      BY InitTypes, <2>2, <2>3
  <1>2. Inv /\ [Next]_vars => Inv'
    BY TypesStep, DroppedStep, AssignedStep, ServedStep, AlternateStep
  <1>3. Inv => DeletesNeedRestores
    BY DEF Alternate, DeletesNeedRestores, Deleters, Restorers, Types, TypeOK
  <1> QED
    BY <1>1, <1>2, <1>3, PTL DEF Spec

-----------------------------------------------------------------------------
LEMMA UsersShrink ==
  ASSUME Types, NEW r \in Requests, Act(r)
  PROVE  DOMAIN users' \subseteq DOMAIN users
  <1>1. CASE ForgetUser(r)
    BY <1>1 DEF ForgetUser, DeleteUser, Restrict
  <1> QED
    BY <1>1, UserEffects

\* What a step does to the tickets there are and to what the imports have counted.
LEMMA RowEffects ==
  ASSUME Types, NEW r \in Requests, Act(r), ~ImportRow(r)
  PROVE  /\ summary' = summary
         /\ \/ DOMAIN tickets' = DOMAIN tickets
            \/ /\ call[r].op = "create" /\ pc[r] = "addTicket"
               /\ DOMAIN tickets' = DOMAIN tickets \cup {<<r, 1>>}
         /\ pc[r] = "rows" => pc'[r] # "200" /\ (pc'[r] = "log" => summary[r].row = Len(call[r].rows))
  <1>1. CASE InsertTicket(r)
    BY <1>1 DEF InsertTicket, Put, Types, Routed
  <1>2. CASE EndRows(r)
    BY <1>2 DEF EndRows, planVars, goto, Types, TypeOK
  <1>3. CASE ForgetUser(r)
    BY <1>3 DEF ForgetUser, DeleteUser
  <1>4. CASE UserStep(r)
    BY <1>4 DEF UserStep, planVars, FindUser, UpdateUser, LogEntry, Abort, Catching
  <1>5. CASE ~InsertTicket(r) /\ ~EndRows(r) /\ ~ForgetUser(r) /\ ~UserStep(r)
    BY <1>5 DEF Act, PlanStep, planVars, Receive, FindProject, FindOwner, FindAnyState,
      FindAssignee, Workload, LogTicket, LogPick, InsertProject, RenameProject, SoftDelete,
      RestoreProject, OnProject
  <1> QED
    BY <1>1, <1>2, <1>3, <1>4, <1>5

\* What an import has counted and what it has put there, and that others count nothing.
Importing(r) ==
  LET s == summary[r]
  IN  /\ s.created + s.failed = s.row
      /\ Cardinality(Imported(r)) \in s.created..(s.created + faults)
      /\ call[r].op # "import" => s.row = 0
      /\ call[r].op # "create" => \A n \in Nat : <<r, n>> \in DOMAIN tickets => n <= s.row
      /\ call[r].op = "import" /\ pc[r] \in {"log", "200"} => s.row = Len(call[r].rows)
      /\ faults = 0 => \A i \in 1..s.row :
           ValidRow(call[r].rows[i]) /\ call[r].rows[i].assignee \in {"blank"} \cup DOMAIN users
             => i \in Imported(r)

Counted == \A r \in Requests : Importing(r)

\* A request that takes no row stays as it is, in this respect.
LEMMA ImportKept ==
  ASSUME Types, NEW q \in Requests, Importing(q), summary'[q] = summary[q],
         Imported(q)' = Imported(q), faults' \in Nat, faults' >= faults,
         DOMAIN users' \subseteq DOMAIN users,
         call'[q] = call[q] \/ (summary[q].row = 0 /\ call[q].op # "create"),
         call'[q].op = "import" /\ pc'[q] \in {"log", "200"}
           => summary[q].row = Len(call'[q].rows),
         call'[q].op # "create"
           => \A n \in Nat : <<q, n>> \in DOMAIN tickets' => <<q, n>> \in DOMAIN tickets
  PROVE  Importing(q)'
  <1> DEFINE s == summary[q]
  <1>0. s.created \in Nat /\ s.row \in Nat /\ s.failed \in Nat /\ faults \in Nat
    BY AccountAssumption DEF Types, TypeOK, AccountTypeOK
  <1>1. s.created + s.failed = s.row /\ Cardinality(Imported(q)') \in s.created..(s.created + faults')
    BY <1>0 DEF Importing
  <1>2. call'[q].op # "import" => s.row = 0
    BY DEF Importing
  <1>3. call'[q].op # "create" => \A n \in Nat : <<q, n>> \in DOMAIN tickets' => n <= s.row
    BY DEF Importing
  <1>4. ASSUME faults' = 0, NEW i \in 1..s.row, ValidRow(call'[q].rows[i]),
               call'[q].rows[i].assignee \in {"blank"} \cup DOMAIN users'
        PROVE  i \in Imported(q)
    BY <1>0, <1>4 DEF Importing
  <1> QED
    BY <1>1, <1>2, <1>3, <1>4 DEF Importing

LEMMA ImportRowStep ==
  ASSUME Types, Counted, NEW r \in Requests, ImportRow(r), UNCHANGED changes
  PROVE  Importing(r)'
  <1> DEFINE s == summary[r]
             i == s.row + 1
             row == call[r].rows[i]
             good == ValidRow(row) /\ RowTicket(r, row).assignee \in DOMAIN users \cup {Nobody}
  <1>0. /\ pc[r] = "rows" /\ UNCHANGED <<users, pc, call>> /\ call[r].op = "import"
        /\ s.created \in Nat /\ s.row \in Nat /\ s.failed \in Nat /\ faults \in Nat
        /\ Importing(r)
    <2>1. pc[r] = "rows" /\ UNCHANGED <<users, pc, call>>
      BY DEF ImportRow
    <2>2. call[r].op = "import" /\ Importing(r)
      BY <2>1 DEF Types, Routed, Counted
    <2>3. s \in [row : Nat, created : Nat, failed : Nat]
      BY DEF Types, TypeOK
    <2>4. faults \in Nat
      BY AccountAssumption DEF Types, TypeOK, AccountTypeOK
    <2> HIDE DEF s
    <2> QED
      BY <2>1, <2>2, <2>3, <2>4
  <1>1. \/ ~good /\ Count(r, "failed") /\ faults' = faults /\ tickets' = tickets
        \/ good /\ Count(r, "failed") /\ faults' = faults + 1 /\ tickets' = tickets
        \/ /\ good /\ tickets' = Put(tickets, <<r, i>>, RowTicket(r, row))
           /\ \/ Count(r, "created") /\ faults' = faults
              \/ Count(r, "failed") /\ faults' = faults + 1
    BY DEF ImportRow, Succeeds, Fails
  <1>2. /\ Count(r, "failed") => summary'[r] = [s EXCEPT !.row = i, !.failed = @ + 1]
        /\ Count(r, "created") => summary'[r] = [s EXCEPT !.row = i, !.created = @ + 1]
    BY DEF Count, Types, TypeOK
  <1>3. /\ Count(r, "failed") => /\ summary'[r].row = i /\ summary'[r].failed = s.failed + 1
                                 /\ summary'[r].created = s.created
        /\ Count(r, "created") => /\ summary'[r].row = i /\ summary'[r].created = s.created + 1
                                  /\ summary'[r].failed = s.failed
    <2>1. s \in [row : Nat, created : Nat, failed : Nat]
      BY DEF Types, TypeOK
    <2> HIDE DEF s
    <2> QED
      BY <1>2, <2>1
  <1>4. <<r, i>> \notin DOMAIN tickets
    BY <1>0 DEF Importing
  <1>5. summary'[r].row = i /\ summary'[r].created + summary'[r].failed = summary'[r].row
    <2>1. s.created + s.failed = s.row
      BY <1>0 DEF Importing
    <2>2. /\ summary'[r].row = s.row + 1
          /\ \/ summary'[r].created = s.created + 1 /\ summary'[r].failed = s.failed
             \/ summary'[r].created = s.created /\ summary'[r].failed = s.failed + 1
      BY <1>1, <1>3
    <2> HIDE DEF s
    <2> QED
      BY <1>0, <2>1, <2>2
  <1>6. \/ tickets' = tickets /\ Imported(r)' = Imported(r)
        \/ /\ tickets' = Put(tickets, <<r, i>>, RowTicket(r, row))
           /\ Imported(r)' = Imported(r) \cup {i} /\ i \notin Imported(r)
    <2>1. CASE tickets' = tickets
      BY <1>0, <1>4, <1>5, <2>1 DEF Imported
    <2>2. CASE tickets' = Put(tickets, <<r, i>>, RowTicket(r, row))
      <3>1. \A n : <<r, n>> \in DOMAIN tickets' <=> <<r, n>> \in DOMAIN tickets \/ n = i
        BY <2>2 DEF Put
      <3>2. s.row \in Nat /\ summary'[r].row = s.row + 1
        BY <1>0, <1>5
      <3> HIDE DEF s
      <3> QED
        <4>1. 1..(s.row + 1) = (1..s.row) \cup {s.row + 1} /\ s.row + 1 \notin 1..s.row
          BY <3>2
        <4>2. Imported(r)' = {j \in (1..s.row) \cup {i} : <<r, j>> \in DOMAIN tickets \/ j = i}
          BY <3>1, <3>2, <4>1 DEF Imported
        <4>3. Imported(r) = {j \in 1..s.row : <<r, j>> \in DOMAIN tickets}
          BY DEF Imported, s
        <4> QED
          BY <2>2, <4>1, <4>2, <4>3
    <2> QED
      BY <1>1, <2>1, <2>2
  <1>7. IsFiniteSet(Imported(r)) /\ Cardinality(Imported(r)) \in Nat
    <2>1. Imported(r) \subseteq 1..s.row
      BY DEF Imported
    <2>2. \A n \in Int : IsFiniteSet(1..n)
      BY FS_Interval
    <2>3. IsFiniteSet(1..s.row)
      BY <1>0, <2>2
    <2> QED
      BY <2>1, <2>3, NoMore
  <1>8. Cardinality(Imported(r)') \in summary'[r].created..(summary'[r].created + faults')
    <2>1. Cardinality(Imported(r)) \in s.created..(s.created + faults)
      BY <1>0 DEF Importing
    <2>2. CASE tickets' = tickets
      <3>1. tickets' # Put(tickets, <<r, i>>, RowTicket(r, row))
        BY <1>4, <2>2 DEF Put
      <3>2. summary'[r].created = s.created /\ faults' \in {faults, faults + 1}
        BY <1>1, <1>3, <3>1
      <3>3. Imported(r)' = Imported(r)
        BY <1>6, <3>1
      <3> HIDE DEF s
      <3> QED
        BY <1>0, <1>7, <2>1, <3>2, <3>3
    <2>3. CASE tickets' # tickets
      <3>1. Cardinality(Imported(r)') = Cardinality(Imported(r)) + 1
        BY <1>6, <1>7, <2>3, OneMore
      <3>2. \/ summary'[r].created = s.created + 1 /\ faults' = faults
            \/ summary'[r].created = s.created /\ faults' = faults + 1
        BY <1>1, <1>3, <2>3
      <3> HIDE DEF s
      <3> QED
        BY <1>0, <1>7, <2>1, <3>1, <3>2
    <2> QED
      BY <2>2, <2>3
  <1>9. \A n \in Nat : <<r, n>> \in DOMAIN tickets' => n <= summary'[r].row
    <2> SUFFICES ASSUME NEW n \in Nat, <<r, n>> \in DOMAIN tickets' PROVE n <= i
      BY <1>5
    <2>1. <<r, n>> \in DOMAIN tickets \/ n = i
      BY <1>6 DEF Put
    <2> QED
      BY <1>0, <2>1 DEF Importing
  <1>10. ASSUME faults' = 0, NEW j \in 1..i, ValidRow(call[r].rows[j]),
                call[r].rows[j].assignee \in {"blank"} \cup DOMAIN users
         PROVE  j \in Imported(r)'
    <2>1. faults = 0
      BY <1>0, <1>1, <1>10
    <2>2. CASE j # i
      BY <1>0, <1>6, <1>10, <2>1, <2>2 DEF Importing
    <2>3. CASE j = i
      <3>1. good
        BY <1>10, <2>3 DEF RowTicket
      <3>2. tickets' = Put(tickets, <<r, i>>, RowTicket(r, row))
        <4>1. faults' # faults + 1
          BY <1>0, <1>10
        <4> QED
          BY <1>1, <3>1, <4>1
      <3>3. <<r, i>> \in DOMAIN tickets'
        BY <3>2 DEF Put
      <3> QED
        BY <1>4, <1>6, <2>3, <3>3
    <2> QED
      BY <2>2, <2>3
  <1> QED
    BY <1>0, <1>5, <1>8, <1>9, <1>10 DEF Importing

LEMMA CountedStep ==
  ASSUME Types, Assigned, Counted, [Next]_vars
  PROVE  Counted'
  <1>1. CASE ChangeTicket \/ UNCHANGED vars
    <2>1. UNCHANGED <<summary, faults>>
      BY <1>1 DEF ChangeTicket, accountVars, vars, planVars
    <2>2. UNCHANGED <<users, pc, call>> /\ DOMAIN tickets' = DOMAIN tickets
      BY <1>1, ChangeEffects
    <2> QED
      BY <2>1, <2>2 DEF Counted, Importing, Imported
  <1>2. ASSUME NEW r \in Requests, Act(r) PROVE Counted'
    <2>0. faults' \in Nat /\ faults' >= faults /\ DOMAIN users' \subseteq DOMAIN users
      BY <1>2, AuditEffects, UsersShrink
    <2>1. ASSUME NEW q \in Requests \ {r} PROVE Importing(q)'
      <3>1. pc'[q] = pc[q] /\ call'[q] = call[q] /\ Importing(q)
        BY <1>2, Frame DEF Counted
      <3>2. summary'[q] = summary[q] /\ \A n : <<q, n>> \in DOMAIN tickets' <=> <<q, n>> \in DOMAIN tickets
        <4>1. CASE ImportRow(r)
          <5>1. \E w : summary' = [summary EXCEPT ![r] = w]
            BY <4>1 DEF ImportRow, Count
          <5>2. \E i, w : tickets' = tickets \/ tickets' = Put(tickets, <<r, i>>, w)
            BY <4>1 DEF ImportRow
          <5> QED
            BY <5>1, <5>2 DEF Put, Types, TypeOK
        <4>2. CASE ~ImportRow(r)
          <5>1. \A n : <<q, n>> # <<r, 1>>
            OBVIOUS
          <5>2. summary' = summary /\ (\/ DOMAIN tickets' = DOMAIN tickets
                                       \/ DOMAIN tickets' = DOMAIN tickets \cup {<<r, 1>>})
            BY <1>2, <4>2, RowEffects
          <5> QED
            BY <5>1, <5>2
        <4> QED
          BY <4>1, <4>2
      <3>3. Imported(q)' = Imported(q)
        BY <3>2 DEF Imported
      <3>4. call'[q].op = "import" /\ pc'[q] \in {"log", "200"}
              => summary[q].row = Len(call'[q].rows)
        BY <3>1 DEF Importing
      <3>5. call'[q].op # "create"
              => \A n \in Nat : <<q, n>> \in DOMAIN tickets' => <<q, n>> \in DOMAIN tickets
        BY <3>2
      <3> QED
        BY <2>0, <3>1, <3>2, <3>3, <3>4, <3>5, ImportKept
    <2>2. CASE ImportRow(r)
      BY <1>2, <2>1, <2>2, ImportRowStep DEF Counted, Act
    <2>3. CASE ~ImportRow(r)
      <3>0. Importing(r) /\ Routed(r) /\ Assigning(r)
        BY DEF Counted, Types, Assigned
      <3>1. summary' = summary /\ (pc[r] # "new" => call'[r] = call[r])
        BY <1>2, <2>3, RowEffects, Frame
      <3>2. CASE pc[r] = "new"
        <4>1. call[r].op = "null" /\ summary[r].row = 0
          BY <3>0, <3>2 DEF Routed, Null, Importing
        <4>2. DOMAIN tickets' = DOMAIN tickets /\ pc'[r] \notin {"log", "200"}
          BY <1>2, <2>3, <3>2, RowEffects, AuditMoves
        <4>3. Imported(r)' = Imported(r)
          BY <3>1, <4>2 DEF Imported
        <4>4. Importing(r)'
          BY <2>0, <3>0, <3>1, <4>1, <4>2, <4>3, ImportKept
        <4> QED
          BY <2>1, <4>4 DEF Counted
      <3>3. CASE pc[r] # "new"
        <4>1. Imported(r)' = Imported(r)
          <5>1. CASE DOMAIN tickets' = DOMAIN tickets
            BY <3>1, <5>1 DEF Imported
          <5>2. CASE call[r].op = "create"
            BY <3>0, <3>1, <5>2 DEF Imported, Importing
          <5> QED
            BY <1>2, <2>3, <5>1, <5>2, RowEffects
        <4>2. call'[r].op = "import" /\ pc'[r] \in {"log", "200"}
                => summary[r].row = Len(call'[r].rows)
          BY <1>2, <2>3, <3>0, <3>1, <3>3, RowEffects, AuditMoves DEF Routed, Assigning, Importing
        <4>3. call'[r].op # "create" => DOMAIN tickets' = DOMAIN tickets
          BY <1>2, <2>3, <3>1, <3>3, RowEffects
        <4>4. Importing(r)'
          <5>1. call'[r].op # "create"
                  => \A n \in Nat : <<r, n>> \in DOMAIN tickets' => <<r, n>> \in DOMAIN tickets
            BY <4>3
          <5>2. call'[r] = call[r] /\ summary'[r] = summary[r]
            BY <3>1, <3>3
          <5> QED
            BY <2>0, <3>0, <4>1, <4>2, <5>1, <5>2, ImportKept
        <4> QED
          BY <2>1, <4>4 DEF Counted
      <3> QED
        BY <3>2, <3>3
    <2> QED
      BY <2>2, <2>3
  <1> QED
    BY <1>1, <1>2 DEF Next, Act

LEMMA InitCounted == Init => Assigned /\ Counted
  <1> SUFFICES ASSUME Init PROVE Assigned /\ Counted
    OBVIOUS
  <1>1. Assigned
    BY DEF Init, AccountInit, Assigned, Assigning
  <1>2. ASSUME NEW r \in Requests PROVE Importing(r)
    <2>1. /\ summary[r] = [row |-> 0, created |-> 0, failed |-> 0] /\ pc[r] = "new"
          /\ call[r] = Null /\ faults = 0 /\ \A n \in Nat : <<r, n>> \notin DOMAIN tickets
      BY PlanningAssumption DEF Init, AccountInit
    <2>2. Imported(r) = {}
      BY <2>1 DEF Imported
    <2>3. Cardinality(Imported(r)) = 0
      BY <2>2, FS_EmptySet
    <2> QED
      BY <2>1, <2>3 DEF Importing, Null
  <1> QED
    BY <1>1, <1>2 DEF Counted

\* An import (importCsv) takes every row in turn and counts each once, as created only
\* what is there: the tickets it does not know of are at most the failures; and without a
\* failure, a valid row whose assignee is never deleted has its ticket.
THEOREM ImportsAddUp == Spec => []ImportAddsUp
  <1> DEFINE Inv == Types /\ Assigned /\ Counted
  <1>1. Init => Inv
    BY InitTypes, InitCounted
  <1>2. Inv /\ [Next]_vars => Inv'
    BY TypesStep, AssignedStep, CountedStep
  <1>3. Inv => ImportAddsUp
    BY DEF Counted, Importing, ImportAddsUp, Imports
  <1> QED
    BY <1>1, <1>2, <1>3, PTL DEF Spec

-----------------------------------------------------------------------------
\* The tickets that COUNT counts.
Work(u, p) ==
  {t \in DOMAIN tickets : /\ tickets[t].assignee = u /\ tickets[t].project = p
                          /\ tickets[t].open}

LEMMA LoadIsWork ==
  /\ \A u, p : Load(u, p) = Cardinality(Work(u, p)) /\ Work(u, p) \subseteq DOMAIN tickets
  /\ \A u, p : Load(u, p)' = Cardinality(Work(u, p)') /\ Work(u, p)' \subseteq DOMAIN tickets'
  BY DEF Load, Work

\* A creation has no ticket before its INSERT.
Fresh == \A r \in Requests : pc[r] \in {"new", "project", "assignee", "workload", "addTicket"}
           => \A n \in Nat : <<r, n>> \notin DOMAIN tickets

LEMMA FreshMoves ==
  ASSUME Types, NEW r \in Requests, Act(r)
  PROVE  /\ pc'[r] = "project" => pc[r] = "new"
         /\ ImportRow(r) => pc[r] = "rows" /\ pc' = pc
         /\ pc[r] = "addTicket" => pc'[r] \in {"logTicket", "400", "500"}
  <1> USE DEF Types, TypeOK, goto, Done
  <1>1. CASE FindProject(r)
    <2>1. call[r].op \in {"rename", "drop", "create", "import"} /\ pc[r] = "project"
      BY <1>1 DEF FindProject, Routed
    <2>2. pc'[r] \in {"404", "400", "rename", "drop", "workload", "assignee", "rows"}
      BY <1>1, <2>1 DEF FindProject
    <2> QED
      BY <2>1, <2>2 DEF ImportRow
  <1>2. CASE UserStep(r)
    BY <1>2 DEF UserStep, FindUser, UpdateUser, LogEntry, Abort, Answers, ImportRow, Catching
  <1>3. CASE ~FindProject(r) /\ ~UserStep(r)
    BY <1>3 DEF Act, PlanStep, Receive, FindOwner, FindAnyState,
      FindAssignee, Workload, LogTicket, LogPick, EndRows, InsertProject, RenameProject, SoftDelete,
      RestoreProject, OnProject, InsertTicket, ImportRow, ForgetUser, DeleteUser
  <1> QED
    BY <1>1, <1>2, <1>3

LEMMA FreshStep ==
  ASSUME Types, Fresh, IsFiniteSet(DOMAIN tickets), [Next]_vars
  PROVE  Fresh' /\ IsFiniteSet(DOMAIN tickets)'
  <1>1. CASE ChangeTicket \/ UNCHANGED vars
    BY <1>1, ChangeEffects DEF Fresh
  <1>2. ASSUME NEW r \in Requests, Act(r) PROVE Fresh' /\ IsFiniteSet(DOMAIN tickets)'
    <2>1. CASE ImportRow(r)
      <3>1. PICK i, w : tickets' = tickets \/ tickets' = Put(tickets, <<r, i>>, w)
        BY <2>1 DEF ImportRow
      <3>2. DOMAIN tickets' \subseteq DOMAIN tickets \cup {<<r, i>>}
        BY <3>1 DEF Put
      <3>3. pc[r] = "rows" /\ pc' = pc
        BY <1>2, <2>1, FreshMoves
      <3>4. Fresh'
        <4> SUFFICES ASSUME NEW q \in Requests, NEW n \in Nat, <<q, n>> \in DOMAIN tickets',
                            pc[q] \in {"new", "project", "assignee", "workload", "addTicket"}
                     PROVE  FALSE
          BY <3>3 DEF Fresh
        <4>1. <<q, n>> # <<r, i>>
          BY <3>3
        <4> QED
          BY <3>2, <4>1 DEF Fresh
      <3> QED
        BY <3>2, <3>4, AtMostOneMore
    <2>2. CASE ~ImportRow(r)
      <3>1. DOMAIN tickets' = DOMAIN tickets \/
            (pc[r] = "addTicket" /\ DOMAIN tickets' = DOMAIN tickets \cup {<<r, 1>>})
        BY <1>2, <2>2, RowEffects
      <3>2. Fresh'
        <4> SUFFICES ASSUME NEW q \in Requests, NEW n \in Nat, <<q, n>> \in DOMAIN tickets',
                            pc'[q] \in {"new", "project", "assignee", "workload", "addTicket"}
                     PROVE  FALSE
          BY DEF Fresh
        <4>1. pc[q] \in {"new", "project", "assignee", "workload", "addTicket"}
          BY <1>2, Frame, Moves, AuditMoves, FreshMoves
        <4>2. <<q, n>> \notin DOMAIN tickets
          BY <4>1 DEF Fresh
        <4>3. pc[r] = "addTicket" /\ <<q, n>> = <<r, 1>>
          BY <3>1, <4>2
        <4>4. q = r
          BY <4>3
        <4> QED
          BY <1>2, <4>3, <4>4, FreshMoves
      <3>3. DOMAIN tickets' \subseteq DOMAIN tickets \cup {<<r, 1>>}
        BY <3>1
      <3> QED
        BY <3>2, <3>3, AtMostOneMore
    <2> QED
      BY <2>1, <2>2
  <1> QED
    BY <1>1, <1>2 DEF Next, Act

\* What a write does to the loads that a creation goes by: they change by one ticket at
\* most, and only if the write is counted, as n.
Follows(q, n, x) ==
  \A p \in ProjectIds, u \in DOMAIN users' : p = call[q].project =>
    \/ writes'[q] = writes[q] /\ Work(u, p)' = Work(u, p)
    \/ /\ writes'[q] = writes[q] + n
       /\ Work(u, p)' \subseteq Work(u, p) \cup {x}
       /\ Work(u, p) \subseteq IF n = 1 THEN Work(u, p)' ELSE Work(u, p)' \cup {x}

\* A new ticket adds at most one to a load of its project, and nothing to the others.
LEMMA NewWork ==
  ASSUME Types, NEW r \in Requests, NEW i, <<r, i>> \notin DOMAIN tickets, NEW row,
         tickets' = Put(tickets, <<r, i>>, row), NEW q \in Requests, pc[q] = "addTicket",
         NoteWrite(row.project, 1)
  PROVE  Follows(q, 1, <<r, i>>)
  <1> SUFFICES ASSUME NEW p \in ProjectIds, NEW u \in DOMAIN users', p = call[q].project
               PROVE  \/ writes'[q] = writes[q] /\ Work(u, p)' = Work(u, p)
                      \/ /\ writes'[q] = writes[q] + 1
                         /\ Work(u, p)' \subseteq Work(u, p) \cup {<<r, i>>}
                         /\ Work(u, p) \subseteq Work(u, p)'
    BY DEF Follows
  <1>1. /\ DOMAIN tickets' = DOMAIN tickets \cup {<<r, i>>} /\ tickets'[<<r, i>>] = row
        /\ \A t \in DOMAIN tickets : tickets'[t] = tickets[t]
    BY DEF Put
  <1>2. CASE row.project = p
    <2>1. writes'[q] = writes[q] + 1
      BY <1>2 DEF NoteWrite
    <2> QED
      BY <1>1, <2>1 DEF Work
  <1>3. CASE row.project # p
    <2>1. writes'[q] = writes[q]
      BY <1>3 DEF NoteWrite
    <2> QED
      BY <1>1, <1>3, <2>1 DEF Work
  <1> QED
    BY <1>2, <1>3

\* What a step of another request does to the loads that a creation goes by.
LEMMA WorkEffects ==
  ASSUME Types, Counted, Fresh, NEW r \in Requests, Act(r),
         NEW q \in Requests \ {r}, pc[q] = "addTicket"
  PROVE  \E x : Follows(q, 1, x)
  <1>1. CASE InsertTicket(r)
    <2>1. CASE UNCHANGED <<tickets, writes>>
      BY <2>1 DEF Work, Follows
    <2>2. CASE tickets' # tickets \/ writes' # writes
      <3> DEFINE row == [project |-> call[r].project, assignee |-> Assignee(r), open |-> call[r].open]
      <3>1. /\ pc[r] = "addTicket" /\ tickets' = Put(tickets, <<r, 1>>, row)
            /\ NoteWrite(row.project, 1)
        BY <1>1, <2>2 DEF InsertTicket
      <3>2. <<r, 1>> \notin DOMAIN tickets
        BY <3>1 DEF Fresh
      <3> QED
        BY <3>1, <3>2, NewWork
    <2> QED
      BY <2>1, <2>2
  <1>2. CASE ImportRow(r)
    <2>1. CASE UNCHANGED <<tickets, writes>>
      BY <2>1 DEF Work, Follows
    <2>2. CASE tickets' # tickets \/ writes' # writes
      <3> DEFINE i == summary[r].row + 1
                 row == RowTicket(r, call[r].rows[i])
      <3>1. /\ pc[r] = "rows" /\ tickets' = Put(tickets, <<r, i>>, row)
            /\ NoteWrite(call[r].project, 1)
        BY <1>2, <2>2 DEF ImportRow
      <3>2. row.project = call[r].project
        BY DEF RowTicket
      <3>3. <<r, i>> \notin DOMAIN tickets
        <4>1. summary[r].row \in Nat /\ call[r].op # "create" /\ Importing(r)
          BY <3>1 DEF Types, TypeOK, Routed, Counted
        <4> QED
          BY <4>1 DEF Importing
      <3>4. NoteWrite(row.project, 1)
        BY <3>1, <3>2 DEF NoteWrite
      <3> HIDE DEF row, i
      <3> QED
        BY <3>1, <3>3, <3>4, NewWork
    <2> QED
      BY <2>1, <2>2
  <1>3. CASE ForgetUser(r)
    <2>1. writes' = writes /\ DOMAIN tickets' = DOMAIN tickets
      BY <1>3 DEF ForgetUser
    <2>2. ASSUME NEW u \in DOMAIN users', NEW t \in DOMAIN tickets
          PROVE  /\ tickets'[t].project = tickets[t].project /\ tickets'[t].open = tickets[t].open
                 /\ tickets'[t].assignee = u <=> tickets[t].assignee = u
      <3>1. u # Nobody
        BY PlanningAssumption, UsersShrink DEF Types, TypeOK, AccountTypeOK
      <3>2. tickets'[t] = IF tickets[t].assignee \in DOMAIN users' \cup {Nobody} THEN tickets[t]
                          ELSE [tickets[t] EXCEPT !.assignee = Nobody]
        BY <1>3 DEF ForgetUser
      <3>3. tickets[t] \in Tickets
        BY DEF Types, TypeOK
      <3> QED
        BY <3>1, <3>2, <3>3 DEF Tickets
    <2> QED
      BY <2>1, <2>2 DEF Work, Follows
  <1>4. CASE ~InsertTicket(r) /\ ~ImportRow(r) /\ ~ForgetUser(r)
    <2>1. tickets' = tickets /\ writes' = writes
      BY <1>4 DEF Act, PlanStep, UserStep, planVars, Receive, FindProject, FindOwner, FindAnyState,
        FindAssignee, Workload, LogTicket, LogPick, EndRows, InsertProject, RenameProject,
        SoftDelete, RestoreProject, OnProject
    <2> QED
      BY <2>1 DEF Work, Follows
  <1> QED
    BY <1>1, <1>2, <1>3, <1>4

\* What an update of a ticket does to them.
LEMMA ChangeWork ==
  ASSUME Types, ChangeTicket, NEW q \in Requests, pc[q] = "addTicket"
  PROVE  \E x : Follows(q, 2, x)
  <1>1. PICK t \in DOMAIN tickets, a \in DOMAIN users \cup {Nobody}, o \in BOOLEAN :
          /\ tickets' = [tickets EXCEPT ![t].assignee = a, ![t].open = o]
          /\ NoteWrite(tickets[t].project, 2)
    BY DEF ChangeTicket
  <1>2. /\ DOMAIN tickets' = DOMAIN tickets /\ tickets'[t].project = tickets[t].project
        /\ \A s \in DOMAIN tickets \ {t} : tickets'[s] = tickets[s]
    BY <1>1 DEF Types, TypeOK, Tickets
  <1>3. CASE tickets[t].project = call[q].project
    <2>1. writes'[q] = writes[q] + 2
      BY <1>1, <1>3 DEF NoteWrite
    <2>2. \A u, p : Work(u, p) \subseteq Work(u, p)' \cup {t} /\ Work(u, p)' \subseteq Work(u, p) \cup {t}
      BY <1>2 DEF Work
    <2>3. Follows(q, 2, t)
      BY <2>1, <2>2 DEF Follows
    <2> QED
      BY <2>3
  <1>4. CASE tickets[t].project # call[q].project
    <2>1. writes'[q] = writes[q]
      BY <1>1, <1>4 DEF NoteWrite
    <2>2. \A u, p : p = call[q].project => Work(u, p)' = Work(u, p)
      BY <1>2, <1>4 DEF Work
    <2>3. Follows(q, 2, t)
      BY <2>1, <2>2 DEF Follows
    <2> QED
      BY <2>3
  <1> QED
    BY <1>3, <1>4

\* What workloadByProject answers: the developer with the least work comes first.
LEMMA PickedIsLeast ==
  ASSUME Types, IsFiniteSet(DOMAIN tickets), NEW r \in Requests, Workload(r),
         NEW u, pick'[r] = u, u \in DOMAIN users, pick[r] = Nobody, NEW d \in candidates'[r],
         NEW p, p = call[r].project
  PROVE  Load(u, p) <= Load(d, p)
  <1>1. Load(u, p) \in Nat /\ Load(d, p) \in Nat
    BY LoadIsWork, NoMore
  <1>2. d \in Developers
    BY DEF Workload, Types, TypeOK
  <1>3. \A v \in Developers : ~Before(v, u, p)
    <2>1. u # Nobody
      BY PlanningAssumption DEF Types, TypeOK, AccountTypeOK
    <2> QED
      BY <2>1 DEF Workload, Types, TypeOK
  <1> QED
    BY <1>1, <1>2, <1>3 DEF Before

\* PickIsLeastLoaded of one request, with the loads as sets.
Least(r) ==
  pc[r] = "addTicket" =>
    \A p \in ProjectIds, u \in DOMAIN users, d \in candidates[r] \cap DOMAIN users :
      pick[r] = u /\ call[r].project = p
        => Cardinality(Work(u, p)) <= Cardinality(Work(d, p)) + writes[r]

LEMMA LeastMeans ==
  ASSUME Types, \A r \in Requests : Least(r)
  PROVE  PickIsLeastLoaded
  <1> SUFFICES ASSUME NEW r \in Requests, pc[r] = "addTicket", pick[r] \in DOMAIN users,
                      NEW d \in candidates[r] \cap DOMAIN users
               PROVE  Load(pick[r], call[r].project) <= Load(d, call[r].project) + writes[r]
    BY DEF PickIsLeastLoaded
  <1>1. call[r].project \in ProjectIds
    BY DEF Types, TypeOK, Routed
  <1>2. Cardinality(Work(pick[r], call[r].project)) <=
          Cardinality(Work(d, call[r].project)) + writes[r]
    BY <1>1 DEF Least
  <1> QED
    BY <1>2 DEF Load, Work

\* The loads of a request that neither picks nor inserts now.
LEMMA LeastKept ==
  ASSUME Types, IsFiniteSet(DOMAIN tickets), NEW q \in Requests, Least(q), pc[q] = "addTicket",
         pick'[q] = pick[q], call'[q] = call[q], candidates'[q] = candidates[q],
         DOMAIN users' \subseteq DOMAIN users, NEW n \in {1, 2}, NEW x, Follows(q, n, x)
  PROVE  Least(q)'
  <1> SUFFICES ASSUME NEW p \in ProjectIds, NEW u \in DOMAIN users',
                      NEW d \in candidates'[q] \cap DOMAIN users',
                      pick'[q] = u, call'[q].project = p
               PROVE  Cardinality(Work(u, p)') <= Cardinality(Work(d, p)') + writes'[q]
    BY DEF Least
  <1> DEFINE A == Work(u, p)
             B == Work(d, p)
             AA == Work(u, p)'
             BB == Work(d, p)'
             w == writes[q]
  <1>1. w \in Nat /\ Cardinality(A) <= Cardinality(B) + w
    BY DEF Least, Types, TypeOK
  <1>2. IsFiniteSet(A) /\ IsFiniteSet(B) /\ Cardinality(A) \in Nat /\ Cardinality(B) \in Nat
    BY LoadIsWork, NoMore
  <1>3. /\ \/ writes'[q] = w /\ AA = A
           \/ writes'[q] = w + n /\ AA \subseteq A \cup {x}
        /\ \/ writes'[q] = w /\ BB = B
           \/ /\ writes'[q] = w + n /\ BB \subseteq B \cup {x}
              /\ B \subseteq IF n = 1 THEN BB ELSE BB \cup {x}
    <2>1. p = call[q].project
      OBVIOUS
    <2> QED
      BY <2>1 DEF Follows
  <1> HIDE DEF A, B, AA, BB, w
  <1>4. CASE writes'[q] = w
    BY <1>1, <1>2, <1>3, <1>4 DEF AA, BB
  <1>5. CASE writes'[q] # w
    <2>1. writes'[q] = w + n /\ AA \subseteq A \cup {x} /\ BB \subseteq B \cup {x}
      BY <1>3, <1>5
    <2>2. Cardinality(AA) \in Nat /\ Cardinality(AA) <= Cardinality(A) + 1
      BY <1>2, <2>1, AtMostOneMore
    <2>3. IsFiniteSet(BB) /\ Cardinality(BB) \in Nat
      BY <1>2, <2>1, AtMostOneMore
    <2>4. CASE n = 1
      <3>1. Cardinality(B) <= Cardinality(BB)
        BY <1>3, <1>5, <2>3, <2>4, NoMore
      <3> QED
        BY <1>1, <1>2, <2>1, <2>2, <2>3, <2>4, <3>1 DEF AA, BB
    <2>5. CASE n = 2
      <3>1. Cardinality(B) <= Cardinality(BB) + 1
        BY <1>3, <1>5, <2>3, <2>5, AtMostOneMore
      <3> QED
        BY <1>1, <1>2, <2>1, <2>2, <2>3, <2>5, <3>1 DEF AA, BB
    <2> QED
      BY <2>4, <2>5
  <1> QED
    BY <1>4, <1>5

LEMMA PickEffects ==
  ASSUME Types, NEW r \in Requests, Act(r)
  PROVE  /\ \A q \in Requests \ {r} : candidates'[q] = candidates[q]
         /\ pick' # pick => Workload(r)
  <1>1. CASE Workload(r)
    BY <1>1 DEF Workload, Types, TypeOK
  <1>2. CASE ~Workload(r)
    BY <1>2 DEF Act, PlanStep, UserStep, planVars, Receive, FindProject, FindOwner, FindAnyState,
      FindAssignee, LogTicket, LogPick, EndRows, InsertProject, RenameProject, SoftDelete,
      RestoreProject, OnProject, InsertTicket, ImportRow, ForgetUser
  <1> QED
    BY <1>1, <1>2

LEMMA LeastStep ==
  ASSUME Types, Assigned, Counted, Fresh, IsFiniteSet(DOMAIN tickets),
         \A q \in Requests : Least(q), [Next]_vars
  PROVE  \A q \in Requests : Least(q)'
  <1> SUFFICES ASSUME NEW q \in Requests PROVE Least(q)'
    OBVIOUS
  <1>1. CASE UNCHANGED vars
    <2>1. UNCHANGED <<users, tickets, pc, call, pick, candidates, writes>>
      BY <1>1 DEF vars, accountVars, planVars
    <2>2. \A u, p : Work(u, p)' = Work(u, p)
      BY <2>1 DEF Work
    <2> QED
      BY <2>1, <2>2 DEF Least
  <1>2. CASE ChangeTicket
    <2>1. UNCHANGED <<users, pc, call, pick, candidates>>
      BY <1>2 DEF ChangeTicket, accountVars
    <2>2. CASE pc[q] = "addTicket"
      <3>1. PICK x : Follows(q, 2, x)
        BY <1>2, <2>2, ChangeWork
      <3> QED
        BY <2>1, <2>2, <3>1, LeastKept
    <2> QED
      BY <2>1, <2>2 DEF Least
  <1>3. ASSUME NEW r \in Requests, Act(r) PROVE Least(q)'
    <2>1. CASE q # r
      <3>1. pc'[q] = pc[q] /\ call'[q] = call[q] /\ pick'[q] = pick[q] /\ Least(q)
        BY <1>3, <2>1, Frame, AuditEffects DEF Types, TypeOK
      <3>2. CASE pc[q] = "addTicket"
        <4>1. PICK x : Follows(q, 1, x)
          BY <1>3, <2>1, <3>2, WorkEffects
        <4>2. candidates'[q] = candidates[q] /\ DOMAIN users' \subseteq DOMAIN users
          BY <1>3, <2>1, PickEffects, UsersShrink
        <4> QED
          BY <3>1, <3>2, <4>1, <4>2, LeastKept
      <3> QED
        BY <3>1, <3>2 DEF Least
    <2>2. CASE q = r
      <3> SUFFICES ASSUME pc'[r] = "addTicket", NEW p \in ProjectIds, NEW u \in DOMAIN users',
                          NEW d \in candidates'[r] \cap DOMAIN users',
                          pick'[r] = u, call'[r].project = p
                   PROVE  Cardinality(Work(u, p)') <= Cardinality(Work(d, p)') + writes'[r]
        BY <2>2 DEF Least
      <3>1. pc[r] \in {"assignee", "workload"} /\ call'[r] = call[r]
        BY <1>3, Moves, Frame
      <3>2. pick[r] = Nobody /\ u # Nobody
        <4>1. u \in UserIds
          BY <1>3, UsersShrink DEF Types, TypeOK, AccountTypeOK
        <4>2. pc[r] \notin {"addTicket", "logTicket", "logPick"} \cup Answers
          BY <3>1 DEF Answers
        <4> QED
          BY <4>1, <4>2, PlanningAssumption DEF Assigned, Assigning
      <3>3. Workload(r)
        BY <1>3, <3>2, PickEffects
      <3>4. Load(u, p) <= Load(d, p)
        BY <3>1, <3>2, <3>3, PickedIsLeast DEF Workload
      <3>5. Cardinality(Work(u, p)) <= Cardinality(Work(d, p))
        BY <3>4, LoadIsWork
      <3>6. /\ Work(u, p)' = Work(u, p) /\ Work(d, p)' = Work(d, p)
            /\ writes' = writes /\ writes[r] \in Nat
        BY <3>3 DEF Workload, Work, Types, TypeOK
      <3>7. Cardinality(Work(u, p)) \in Nat /\ Cardinality(Work(d, p)) \in Nat
        BY LoadIsWork, NoMore
      <3> QED
        BY <3>5, <3>6, <3>7
    <2> QED
      BY <2>1, <2>2
  <1> QED
    BY <1>1, <1>2, <1>3 DEF Next, Act

\* While a creation is between workloadByProject and its INSERT, the developer it has
\* picked has the least open tickets of those there were, give or take what was written
\* meanwhile: one for every ticket that was inserted, two for every one that was updated.
THEOREM PicksTheLeastLoaded == Spec => []PickIsLeastLoaded
  <1> DEFINE Inv == /\ Types /\ Assigned /\ Counted /\ Fresh /\ IsFiniteSet(DOMAIN tickets)
                    /\ \A r \in Requests : Least(r)
  <1>1. Init => Inv
    <2> SUFFICES ASSUME Init PROVE Inv
      OBVIOUS
    <2>1. Fresh /\ IsFiniteSet(DOMAIN tickets)
      BY PlanningAssumption DEF Init, Fresh
    <2>2. \A r \in Requests : Least(r)
      BY DEF Init, AccountInit, Least
    <2>3. Assigned /\ Counted
      BY InitCounted
    <2> QED
      BY InitTypes, <2>1, <2>2, <2>3
  <1>2. Inv /\ [Next]_vars => Inv'
    BY TypesStep, AssignedStep, CountedStep, FreshStep, LeastStep
  <1>3. Inv => PickIsLeastLoaded
    BY LeastMeans
  <1> QED
    BY <1>1, <1>2, <1>3, PTL DEF Spec
=============================================================================
