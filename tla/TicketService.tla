---------------------------- MODULE TicketService ----------------------------
(***************************************************************************)
(* TicketsService: PATCH, DELETE and restore of a ticket.  Each request is *)
(* a process that keeps the row it read in a local variable across awaits. *)
(* A request has no fairness: its client may vanish, its process may die.  *)
(*                                                                         *)
(* A handler runs without interruption between two awaits, so one action   *)
(* is one database call and the synchronous code that follows it.          *)
(***************************************************************************)
EXTENDS TicketStore

CONSTANTS Requests,      \* HTTP requests, each handled once
          Ops,           \* subset of {"patch", "delete", "restore"}
          Lookahead      \* how far beyond the row a token may be: the DTO takes any
                         \* integer >= 1; 0 is a client that only sends versions
                         \* it was given

ASSUME ServiceAssumption ==
  /\ Ops \subseteq {"patch", "delete", "restore"}
  /\ Lookahead \in Nat

VARIABLES pc,            \* where each request stands; an HTTP status once answered
          call,          \* what it asks for
          before,        \* its local `before` row
          entry,         \* the audit entry it is about to insert
          cleared,       \* history: the blockers it saw DONE when it counted
          blind          \* history: the requests whose UPDATE wrote over a version
                         \* of the row other than the one they had read and checked

historyVars == <<cleared, blind>>

requestVars == <<pc, call, before, entry, historyVars>>

Refusals == {"400", "404", "409"}
PCs == {"new", "read", "blockers", "assignee", "write", "audit", "200"} \cup Refusals

NoVersion == 0           \* the body has no "version"
NoCall == [op |-> "none"]
NoRow == [version |-> 0]

Calls == [op : {"patch"}, ticket : Tickets, dto : Patches, token : Nat]
         \cup [op : {"delete", "restore"}, ticket : Tickets]

goto(r, where) == pc' = [pc EXCEPT ![r] = where]

\* r is refused.  It has written nothing, and its locals are gone.
refuse(r, code) ==
  /\ goto(r, code)
  /\ call' = [call EXCEPT ![r] = NoCall]
  /\ before' = [before EXCEPT ![r] = NoRow]

\* r's statement has gone through; what is left is to insert the entry e.
record(r, e) ==
  /\ goto(r, "audit")
  /\ before' = [before EXCEPT ![r] = NoRow]
  /\ entry' = [entry EXCEPT ![r] = e]

-----------------------------------------------------------------------------
\* PATCH checks its body before the first await: a field to update and a version.
\* The token comes from some earlier response, or is a guess: any integer >= 1 is
\* taken, and Lookahead bounds how far beyond the row's version it is.
ReceivePatch(r) ==
  /\ pc[r] = "new" /\ "patch" \in Ops
  /\ \E t \in Tickets, dto \in Patches :
       \E token \in 0..(tickets[t].version + Lookahead) :
         \/ (DOMAIN dto = {} \/ token = NoVersion) /\ refuse(r, "400")
         \/ /\ DOMAIN dto # {} /\ token # NoVersion
            /\ goto(r, "read")
            /\ call' = [call EXCEPT ![r] = [op |-> "patch", ticket |-> t,
                                            dto |-> dto, token |-> token]]
            /\ UNCHANGED before
  /\ UNCHANGED <<entry, historyVars, storeVars>>

\* DELETE /tickets/:id and POST /tickets/:id/restore have no body.
ReceiveOther(r) ==
  /\ pc[r] = "new"
  /\ \E op \in Ops \ {"patch"}, t \in Tickets :
       call' = [call EXCEPT ![r] = [op |-> op, ticket |-> t]]
  /\ goto(r, "read")
  /\ UNCHANGED <<before, entry, historyVars, storeVars>>

ToDone(dto) == "status" \in DOMAIN dto /\ dto["status"] = "DONE"

\* The await that follows the blocker check, and the one that follows the read.
AfterBlockers(dto) == IF "assigneeId" \in DOMAIN dto THEN "assignee" ELSE "write"
AfterRead(dto) == IF ToDone(dto) THEN "blockers" ELSE AfterBlockers(dto)

\* getOrThrow, then the DONE check and assertLegalTransition on what it read.
PatchRead(r) ==
  LET row == tickets[call[r].ticket]
      dto == call[r].dto
  IN /\ pc[r] = "read" /\ call[r].op = "patch"
     /\ \/ row.deleted /\ refuse(r, "404")
        \/ ~row.deleted /\ row.status = "DONE" /\ refuse(r, "409")
        \/ /\ ~row.deleted /\ row.status # "DONE"
           /\ ~LegalTransition(row.status, Sent(dto, "status", row.status))
           /\ refuse(r, "400")
        \/ /\ ~row.deleted /\ row.status # "DONE"
           /\ LegalTransition(row.status, Sent(dto, "status", row.status))
           /\ goto(r, AfterRead(dto))
           /\ before' = [before EXCEPT ![r] = row]
           /\ UNCHANGED call
     /\ UNCHANGED <<entry, historyVars, storeVars>>

\* Mutant: the gate lets everybody through.
CountBlockersNever(r) ==
  /\ pc[r] = "blockers"
  /\ goto(r, AfterBlockers(call[r].dto))
  /\ cleared' = [cleared EXCEPT ![r] = {b \in blockerIdsOf(call[r].ticket) : ~tickets[b].deleted}]
  /\ UNCHANGED <<before, call, entry, blind, storeVars>>

\* The gate on DONE: a read of its own, not repeated by the UPDATE.
CountBlockers(r) ==
  LET t == call[r].ticket
  IN /\ pc[r] = "blockers"
     /\ \/ /\ UnresolvedBlockers(t) # {}
           /\ refuse(r, "409")
           /\ UNCHANGED cleared
        \/ /\ UnresolvedBlockers(t) = {}
           /\ goto(r, AfterBlockers(call[r].dto))
           /\ cleared' = [cleared EXCEPT ![r] = {b \in blockerIdsOf(t) : ~tickets[b].deleted}]
           /\ UNCHANGED <<call, before>>
     /\ UNCHANGED <<entry, blind, storeVars>>

\* users.findById.
FindAssignee(r) ==
  /\ pc[r] = "assignee"
  /\ \/ call[r].dto["assigneeId"] \notin users /\ refuse(r, "404")
     \/ call[r].dto["assigneeId"] \in users /\ goto(r, "write") /\ UNCHANGED <<call, before>>
  /\ UNCHANGED <<entry, historyVars, storeVars>>

\* The audit entry of an update: who, and the diff from the local `before` to the
\* RETURNING row.  History: `at`, the version the statement produced, and `over`,
\* the row it wrote over.
UpdateEntry(r, old, new) ==
  [action |-> "UPDATE", by |-> r, ticket |-> call[r].ticket, at |-> new.version,
   over |-> old, diff |-> diffMetadata(before[r], new)]

\* The foreign key of assignee_id.
Assignable(dto) == "assigneeId" \in DOMAIN dto => dto["assigneeId"] \in users

\* updateWithVersionCheck.  Nothing compares the token with the row that was read
\* and checked: the WHERE clause compares it with the row as it is now.  No row: the
\* version moved on or the ticket is deleted, and the service answers 409 after one
\* more SELECT for the message.  An assignee deleted since FindAssignee violates the
\* foreign key.
PatchWrite(r) ==
  LET t == call[r].ticket
      new == Patched(tickets[t], call[r].dto)
  IN /\ pc[r] = "write" /\ call[r].op = "patch"
     /\ \/ /\ VersionMatches(t, call[r].token) /\ Assignable(call[r].dto)
           /\ SetRow(t, new)
           /\ record(r, UpdateEntry(r, tickets[t], new))
           /\ blind' = IF call[r].token = before[r].version THEN blind ELSE blind \cup {r}
           /\ UNCHANGED call
        \/ /\ VersionMatches(t, call[r].token) /\ ~Assignable(call[r].dto)
           /\ refuse(r, "400")
           /\ UNCHANGED <<tickets, entry, blind>>
        \/ /\ ~VersionMatches(t, call[r].token)
           /\ refuse(r, "409")
           /\ UNCHANGED <<tickets, entry, blind>>
     /\ UNCHANGED <<cleared, users, deps, audit, now, faults>>

\* await audit.log, then the answer.
Audit(r) ==
  /\ pc[r] = "audit"
  /\ Log(entry[r])
  /\ entry' = [entry EXCEPT ![r] = NoEntry]
  /\ goto(r, "200")
  /\ UNCHANGED <<call, before, historyVars, tickets, users, deps, now>>

-----------------------------------------------------------------------------
StateEntry(r, action) == [action |-> action, by |-> r, ticket |-> call[r].ticket, at |-> 0]

DeleteRead(r) ==
  /\ pc[r] = "read" /\ call[r].op = "delete"
  /\ \/ tickets[call[r].ticket].deleted /\ refuse(r, "404")
     \/ /\ ~tickets[call[r].ticket].deleted
        /\ goto(r, "write")
        /\ before' = [before EXCEPT ![r] = tickets[call[r].ticket]]
        /\ UNCHANGED call
  /\ UNCHANGED <<entry, historyVars, storeVars>>

\* Mutant: the row count of the DELETE is ignored.
DeleteWriteUncounted(r) ==
  LET t == call[r].ticket
  IN /\ pc[r] = "write" /\ call[r].op = "delete"
     /\ SetRow(t, [tickets[t] EXCEPT !.deleted = TRUE])
     /\ record(r, StateEntry(r, "DELETE"))
     /\ UNCHANGED <<call, historyVars, users, deps, audit, now, faults>>

\* softDelete checks the row count: of two concurrent DELETEs one answers 404.
\* The version is not bumped.
DeleteWrite(r) ==
  LET t == call[r].ticket
  IN /\ pc[r] = "write" /\ call[r].op = "delete"
     /\ \/ /\ ~tickets[t].deleted
           /\ SetRow(t, [tickets[t] EXCEPT !.deleted = TRUE])
           /\ record(r, StateEntry(r, "DELETE"))
           /\ UNCHANGED call
        \/ /\ tickets[t].deleted
           /\ refuse(r, "404")
           /\ UNCHANGED <<tickets, entry>>
     /\ UNCHANGED <<historyVars, users, deps, audit, now, faults>>

RestoreRead(r) ==
  /\ pc[r] = "read" /\ call[r].op = "restore"
  /\ \/ ~tickets[call[r].ticket].deleted /\ refuse(r, "409")
     \/ /\ tickets[call[r].ticket].deleted
        /\ goto(r, "write")
        /\ before' = [before EXCEPT ![r] = tickets[call[r].ticket]]
        /\ UNCHANGED call
  /\ UNCHANGED <<entry, historyVars, storeVars>>

\* The row count of the restore is ignored: the entry is written and 200 sent
\* whether or not the row was still deleted.
RestoreWrite(r) ==
  LET t == call[r].ticket
  IN /\ pc[r] = "write" /\ call[r].op = "restore"
     /\ SetRow(t, [tickets[t] EXCEPT !.deleted = FALSE])
     /\ record(r, StateEntry(r, "RESTORE"))
     /\ UNCHANGED <<call, historyVars, users, deps, audit, now, faults>>

-----------------------------------------------------------------------------
ServiceInit ==
  /\ pc = [r \in Requests |-> "new"]
  /\ call = [r \in Requests |-> NoCall]
  /\ before = [r \in Requests |-> NoRow]
  /\ entry = [r \in Requests |-> NoEntry]
  /\ cleared = [r \in Requests |-> {}]
  /\ blind = {}

ServiceNext ==
  \E r \in Requests :
    \/ ReceivePatch(r) \/ ReceiveOther(r)
    \/ PatchRead(r) \/ CountBlockers(r) \/ FindAssignee(r) \/ PatchWrite(r)
    \/ DeleteRead(r) \/ DeleteWrite(r)
    \/ RestoreRead(r) \/ RestoreWrite(r)
    \/ Audit(r)

\* r's statement went through.
Wrote(r, op) == pc[r] \in {"audit", "200"} /\ call[r].op = op

IsEntryOf(r, e) ==
  /\ e.action \in {"UPDATE", "DELETE", "RESTORE"}
  /\ e.by = r /\ e.ticket = call[r].ticket /\ e.at \in Nat

ServiceTypeOK ==
  /\ pc \in [Requests -> PCs]
  /\ call \in [Requests -> Calls \cup {NoCall}]
  /\ before \in [Requests -> Row \cup {NoRow}]
  /\ DOMAIN entry = Requests
  /\ cleared \in [Requests -> SUBSET Tickets]
  /\ blind \subseteq Requests
  /\ \A r \in Requests :
       /\ pc[r] \notin {"new"} \cup Refusals => call[r] \in Calls
       /\ pc[r] \in {"blockers", "assignee", "write"} => before[r] \in Row
       /\ pc[r] \in {"blockers", "assignee"} => call[r].op = "patch"
       /\ IF pc[r] = "audit" THEN IsEntryOf(r, entry[r]) ELSE entry[r] = NoEntry
=============================================================================
