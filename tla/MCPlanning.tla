----------------------------- MODULE MCPlanning -----------------------------
(***************************************************************************)
(* An administrator who owns a project and two developers, one with a      *)
(* ticket; three requests among creations, an import of two rows,          *)
(* changes of the project and of its people, and an update of a ticket.    *)
(***************************************************************************)
EXTENDS Planning, TLC

CONSTANTS ann, bob, cy, p1, t1

User(name, role) ==
  [name |-> name, email |-> name, full |-> "X", role |-> role, password |-> "pw"]

MCUsers == (ann :> User("ann", "ADMIN")) @@ (bob :> User("bob", "DEVELOPER"))
             @@ (cy :> User("cy", "DEVELOPER"))
MCRegistered == (ann :> 1) @@ (bob :> 2) @@ (cy :> 3)
MCProjects == p1 :> [name |-> "P", description |-> "null", owner |-> ann, deleted |-> FALSE]
MCTickets == (<<t1, 1>> :> [project |-> p1, assignee |-> bob, open |-> TRUE])

Row(title, status, assignee) ==
  [title |-> title, type |-> "valid", status |-> status, priority |-> "blank",
   assignee |-> assignee]

MCCalls ==
  {[op |-> "create", project |-> p1, assignee |-> Nobody, open |-> TRUE],
   [op |-> "create", project |-> p1, assignee |-> cy, open |-> FALSE],
   [op |-> "import", project |-> p1, parses |-> FALSE, rows |-> <<>>],
   [op |-> "import", project |-> p1, parses |-> TRUE,
    rows |-> <<Row("empty", "blank", "blank"), Row("valid", "blank", cy)>>],
   [op |-> "add", owner |-> cy],
   [op |-> "rename", project |-> p1, sent |-> [name |-> "Q"]],
   [op |-> "drop", project |-> p1], [op |-> "restore", project |-> p1],
   [op |-> "update", user |-> cy, sent |-> [role |-> "ADMIN"]],
   [op |-> "remove", user |-> cy], [op |-> "remove", user |-> ann]}

Symmetry == Permutations(Requests)
=============================================================================
