----------------------------- MODULE TicketStore -----------------------------
(***************************************************************************)
(* The PostgreSQL tables that the ticket services share -- tickets, users, *)
(* ticket_dependencies and audit_logs -- and the statements they run on    *)
(* them.  A statement is one atomic step (READ COMMITTED, one row): every  *)
(* `await` between two statements is an interleaving point, so the modules *)
(* that extend this one take one action per statement.                     *)
(***************************************************************************)
EXTENDS TicketDomain

CONSTANTS ProjectOf,     \* project_id of each ticket: no statement changes it
          MaxNow,        \* bound on the clock
          InitialDeps,   \* edges earlier requests have inserted
          MaxFaults      \* bound on the database errors injected

VARIABLES tickets,       \* id -> row
          users,         \* ids of the users there are
          deps,          \* <<t, b>>: t is blocked by b
          audit,         \* audit_logs, as a set of entries
          now,           \* NOW() of the database
          faults         \* database errors injected so far

storeVars == <<tickets, users, deps, audit, now, faults>>

-----------------------------------------------------------------------------
\* A graph without a cycle: every non-empty set of nodes has one with no edge
\* back into the set.  On a finite graph this is "no path returns to its start".
Acyclic(edges) ==
  \A S \in SUBSET Tickets :
    S # {} => \E n \in S : \A m \in S : <<n, m>> \notin edges

ASSUME StoreAssumption ==
  /\ MaxNow \in Nat
  /\ MaxFaults \in Nat
  /\ InitialDeps \subseteq Tickets \X Tickets
  /\ Acyclic(InitialDeps)

-----------------------------------------------------------------------------
\* Mutant: the version is not in the WHERE clause.
VersionMatchesUnchecked(t, expected) == ~tickets[t].deleted

\* WHERE clause of updateWithVersionCheck.
VersionMatches(t, expected) ==
  /\ tickets[t].version = expected
  /\ ~tickets[t].deleted

\* Mutant: a DONE ticket is escalated too.
EscalatableDone(t) == ~tickets[t].deleted

\* WHERE clause of applyEscalation: neither the version nor the priority that
\* the scan saw is checked.
Escalatable(t) ==
  /\ tickets[t].status # "DONE"
  /\ ~tickets[t].deleted

\* WHERE clause of findOverdueUnresolved.
OverdueUnresolved(t) ==
  /\ tickets[t].dueDate # NoDate
  /\ tickets[t].dueDate < now
  /\ tickets[t].status # "DONE"
  /\ ~tickets[t].deleted

blockerIdsOf(t) == {b \in Tickets : <<t, b>> \in deps}

\* countUnresolvedBlockers, as the set it counts.
UnresolvedBlockers(t) ==
  {b \in blockerIdsOf(t) : ~tickets[b].deleted /\ tickets[b].status # "DONE"}

SetRow(t, row) == tickets' = [tickets EXCEPT ![t] = row]

\* A local variable that holds no audit entry.
NoEntry == [action |-> "none"]

\* AuditService.log: a statement of its own, awaited after the write it records.
\* The INSERT may fail and the failure is swallowed.
Log(entry) ==
  \/ audit' = audit \cup {entry} /\ UNCHANGED faults
  \/ faults < MaxFaults /\ faults' = faults + 1 /\ UNCHANGED audit

\* Time passes; a due date that was in the future becomes overdue.
Tick ==
  /\ now < MaxNow
  /\ now' = now + 1
  /\ UNCHANGED <<tickets, users, deps, audit, faults>>

\* DELETE /users/:id.  ON DELETE SET NULL clears the assignee of the user's
\* tickets in the same statement: the version is not bumped, nothing is audited
\* on the ticket.  The ids of deleted users are not given out again.
DeleteUser ==
  \E u \in users :
    /\ users' = users \ {u}
    /\ tickets' = [t \in Tickets |-> [tickets[t] EXCEPT !.assigneeId = IF @ = u THEN NoUser ELSE @]]
    /\ UNCHANGED <<deps, audit, now, faults>>

StoreInit ==
  /\ tickets \in [Tickets -> Seeds]
  /\ users = Users
  /\ deps = InitialDeps
  /\ audit = {}
  /\ now = 0
  /\ faults = 0

StoreTypeOK ==
  /\ tickets \in [Tickets -> Row]
  /\ users \subseteq Users
  /\ deps \subseteq Tickets \X Tickets
  /\ now \in 0..MaxNow
  /\ faults \in 0..MaxFaults
=============================================================================
