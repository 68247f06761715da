------------------------------- MODULE Accounts -------------------------------
(***************************************************************************)
(* UsersService over the users table: registration, update and deletion,   *)
(* each a chain of statements without a transaction.  Modules that compose *)
(* it add their requests, and the tables that refer to users.              *)
(***************************************************************************)
EXTENDS Naturals, FiniteSets, Functions

CONSTANTS Requests,       \* HTTP requests, each handled once; a new row is called by its request
          InitialUsers,   \* the users at the start: id -> row
          Calls,          \* what is asked
          MaxFaults       \* how many statements may fail or lose their answer

Fields == {"full", "role"}          \* what an update may change
Roles == {"ADMIN", "DEVELOPER"}
UserIds == DOMAIN InitialUsers \cup Requests

UserRow(row) ==
  /\ DOMAIN row = {"name", "email", "full", "role", "password"}
  /\ row.role \in Roles /\ row.full # "null"

Registers == {c \in Calls : c.op = "register"}
Updates == {c \in Calls : c.op = "update"}
Removes == {c \in Calls : c.op = "remove"}

ASSUME AccountAssumption ==
  /\ DOMAIN InitialUsers \cap Requests = {}
  /\ \A u \in DOMAIN InitialUsers : UserRow(InitialUsers[u])
  /\ \A u, v \in DOMAIN InitialUsers : u # v =>
       /\ InitialUsers[u].name # InitialUsers[v].name
       /\ InitialUsers[u].email # InitialUsers[v].email
  /\ \A c \in Registers : UserRow(c.row)
  /\ \A c \in Updates : /\ c.user \in UserIds /\ DOMAIN c.sent \subseteq Fields
                         /\ ("role" \in DOMAIN c.sent => c.sent.role \in Roles)
                         /\ ("full" \in DOMAIN c.sent => c.sent.full # "null")
  /\ \A c \in Removes : c.user \in UserIds
  /\ MaxFaults \in Nat

VARIABLES users,      \* users, id -> row
          log,        \* audit_logs
          pc,         \* where each request stands; its answer at the end
          call,       \* what it was asked
          before,     \* the row it read
          entry,      \* the audit entry it will write
          overlap,    \* ghost: who updated that row between its read and its write
          faults

accountVars == <<users, log, pc, call, before, entry, overlap, faults>>

Null == [op |-> "null"]

Answers == {"200", "400", "401", "403", "404", "409", "500"}

InFlight(r) == pc[r] \notin Answers \cup {"new"}

goto(r, where) == pc' = [pc EXCEPT ![r] = where]

Fails == faults < MaxFaults /\ faults' = faults + 1

Succeeds == UNCHANGED faults

\* A table with one row more.
Put(f, x, y) == [z \in DOMAIN f \cup {x} |-> IF z = x THEN y ELSE f[z]]

\* A statement has done its work; if its answer is lost, the request ends there.
Done(r, where) ==
  \/ goto(r, where) /\ Succeeds
  \/ goto(r, "500") /\ Fails

\* Where a failed statement is caught and the handler goes on.
Catching == {"log", "logTicket", "logPick", "rows"}

\* A statement that fails leaves the tables alone.
Abort(r) ==
  /\ InFlight(r) /\ pc[r] \notin Catching /\ goto(r, "500") /\ Fails
  /\ UNCHANGED <<users, log, call, before, entry, overlap>>

-----------------------------------------------------------------------------
\* create: the name is looked up first, for a helpful answer ...
FindByName(r) ==
  /\ pc[r] = "taken"
  /\ goto(r, IF \E u \in DOMAIN users : users[u].name = call[r].row.name
             THEN "409" ELSE "insert")
  /\ UNCHANGED <<users, log, call, before, entry, overlap, faults>>

\* Mutant: no unique index on the name.
ClashOfMail(r) == \E u \in DOMAIN users : users[u].email = call[r].row.email

\* ... and the unique indexes decide, once the password is hashed.
Clash(r) ==
  \E u \in DOMAIN users : \/ users[u].name = call[r].row.name
                          \/ users[u].email = call[r].row.email

InsertUser(r) ==
  /\ pc[r] = "insert"
  /\ \/ /\ Clash(r) /\ goto(r, "409") /\ Succeeds /\ UNCHANGED <<users, entry>>
     \/ /\ ~Clash(r) /\ users' = Put(users, r, call[r].row)
        /\ Done(r, "log")
        /\ entry' = [entry EXCEPT ![r] = [action |-> "CREATE", user |-> r, by |-> r]]
  /\ UNCHANGED <<log, call, before, overlap>>

\* getOrThrow, for an update or a deletion.
FindUser(r) ==
  /\ pc[r] = "find"
  /\ IF call[r].user \in DOMAIN users
     THEN /\ before' = [before EXCEPT ![r] = users[call[r].user]]
          /\ goto(r, IF call[r].op = "update" THEN "update" ELSE "delete")
     ELSE goto(r, "404") /\ UNCHANGED before
  /\ UNCHANGED <<users, log, call, entry, overlap, faults>>

\* Mutant: what was not sent is written too, as null.
SetAll(row, sent) ==
  [f \in DOMAIN row |-> IF f \in DOMAIN sent THEN sent[f]
                        ELSE IF f \in Fields THEN "null" ELSE row[f]]

\* Only what was sent is written.
Set(row, sent) == [f \in DOMAIN row |-> IF f \in DOMAIN sent THEN sent[f] ELSE row[f]]

\* Mutant: fields that did not change are listed too.
DiffAll(old, new, fields) == [f \in fields |-> [from |-> old[f], to |-> new[f]]]

\* Mutant: the rows are passed in the wrong order.
DiffReversed(old, new, fields) ==
  [f \in {g \in fields : old[g] # new[g]} |-> [from |-> new[f], to |-> old[f]]]

\* diffMetadata.
Diff(old, new, fields) ==
  [f \in {g \in fields : old[g] # new[g]} |-> [from |-> old[f], to |-> new[f]]]

\* The UPDATE returns the row as it now is; no row, 404.
UpdateUser(r) ==
  /\ pc[r] = "update"
  /\ LET u == call[r].user
     IN  \/ /\ u \notin DOMAIN users /\ goto(r, "404") /\ Succeeds
            /\ UNCHANGED <<users, entry, overlap>>
         \/ /\ u \in DOMAIN users
            /\ users' = [users EXCEPT ![u] = Set(@, call[r].sent)]
            /\ Done(r, "log")
            /\ entry' = [entry EXCEPT ![r] = [action |-> "UPDATE", user |-> u, by |-> r,
                                              diff |-> Diff(before[r], users'[u], Fields)]]
            /\ overlap' = [q \in Requests |->
                             IF q # r /\ pc[q] = "update" /\ call[q].user = u
                             THEN overlap[q] \cup {r} ELSE overlap[q]]
  /\ UNCHANGED <<log, call, before>>

\* DELETE FROM users.  restricted: a row that refers to the user with ON DELETE
\* RESTRICT; what cascades is for the module that has the table.
DeleteUser(r, restricted) ==
  /\ pc[r] = "delete"
  /\ LET u == call[r].user
     IN  \/ /\ u \notin DOMAIN users /\ goto(r, "404") /\ Succeeds
            /\ UNCHANGED <<users, entry>>
         \/ /\ u \in DOMAIN users /\ restricted /\ goto(r, "400") /\ Succeeds
            /\ UNCHANGED <<users, entry>>
         \/ /\ u \in DOMAIN users /\ ~restricted
            /\ users' = Restrict(users, DOMAIN users \ {u})
            /\ Done(r, "log")
            /\ entry' = [entry EXCEPT ![r] = [action |-> "DELETE", user |-> u, by |-> r]]
  /\ UNCHANGED <<log, call, before, overlap>>

\* audit.log swallows a failure of its INSERT.
LogEntry(r) ==
  /\ pc[r] = "log" /\ goto(r, "200")
  /\ \/ log' = log \cup {entry[r]} /\ Succeeds
     \/ Fails /\ UNCHANGED log
  /\ UNCHANGED <<users, call, before, entry, overlap>>

AccountInit ==
  /\ users = InitialUsers /\ log = {} /\ faults = 0
  /\ pc = [r \in Requests |-> "new"] /\ call = [r \in Requests |-> Null]
  /\ before = [r \in Requests |-> Null] /\ entry = [r \in Requests |-> Null]
  /\ overlap = [r \in Requests |-> {}]

-----------------------------------------------------------------------------
AccountTypeOK ==
  /\ DOMAIN users \subseteq UserIds /\ \A u \in DOMAIN users : UserRow(users[u])
  /\ call \in [Requests -> Calls \cup {Null}] /\ DOMAIN pc = Requests
  /\ overlap \in [Requests -> SUBSET Requests] /\ faults \in 0..MaxFaults

\* No two users have the same name or the same address, however registrations
\* overlap (the pre-check cannot see to that, the unique indexes do).
NoTwoAlike ==
  \A u, v \in DOMAIN users :
    u # v => users[u].name # users[v].name /\ users[u].email # users[v].email

UpdateEntries == {e \in log : e.action = "UPDATE"}

\* A change that an UPDATE entry shows is one its request asked for, or one that
\* another update made between the read and the write: a diff never invents a
\* change, and never blames a request for one that was there when it began.
DiffsBlameOverlaps ==
  \A e \in UpdateEntries : \A f \in DOMAIN e.diff :
    \/ f \in DOMAIN call[e.by].sent /\ e.diff[f].to = call[e.by].sent[f]
    \/ \E q \in overlap[e.by] : f \in DOMAIN call[q].sent /\ e.diff[f].to = call[q].sent[f]

Original(u) == IF u \in Requests THEN call[u].row ELSE InitialUsers[u]

\* Every value in a user's row is the original one, or an entry of the log shows how
\* it came there, or the request that wrote it has no entry in the log (yet): diffs
\* against a stale read may miss a change, but never the way to a value.
ValuesExplained ==
  \A u \in DOMAIN users : \A f \in Fields :
    \/ users[u][f] = Original(u)[f]
    \/ \E e \in UpdateEntries :
         e.user = u /\ f \in DOMAIN e.diff /\ e.diff[f].to = users[u][f]
    \/ \E r \in Requests :
         /\ call[r].op = "update" /\ call[r].user = u /\ pc[r] \in {"log", "200", "500"}
         /\ entry[r] \notin log
         /\ f \in DOMAIN call[r].sent /\ call[r].sent[f] = users[u][f]
=============================================================================
