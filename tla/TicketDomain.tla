---------------------------- MODULE TicketDomain ----------------------------
(***************************************************************************)
(* What a ticket row is, and the pure rules the ticket services apply to   *)
(* it: the status order, the priority ladder, the effect of an update.     *)
(*                                                                         *)
(* Abstracted: titles and descriptions (an update of one of them only      *)
(* bumps the version and adds a field to the diff).                        *)
(***************************************************************************)
EXTENDS Integers

CONSTANTS Tickets,       \* ids of the rows of the tickets table
          Users,         \* ids of the users that exist at the start
          NoUser,        \* assignee_id IS NULL
          Dates,         \* due dates a client may send, past ones too
          NoDate,        \* due_date IS NULL
          Seeds,         \* rows POST /tickets may have inserted
          Patches        \* bodies a PATCH may carry, the version token aside

Statuses == {"TODO", "IN_PROGRESS", "IN_REVIEW", "DONE"}
Priorities == {"LOW", "MEDIUM", "HIGH", "CRITICAL"}

STATUS_ORDER == [s \in Statuses |->
  CASE s = "TODO" -> 0 [] s = "IN_PROGRESS" -> 1 [] s = "IN_REVIEW" -> 2 [] s = "DONE" -> 3]

\* Mutant: one rung too far.
NextPriorityOffByOne == [p \in Priorities |->
  CASE p = "LOW" -> "HIGH" [] p = "MEDIUM" -> "CRITICAL" [] OTHER -> "undefined"]

\* EscalationService.nextPriority over PRIORITY_LADDER.
NextPriority == [p \in Priorities |->
  CASE p = "LOW" -> "MEDIUM" [] p = "MEDIUM" -> "HIGH" [] OTHER -> "CRITICAL"]

Row == [status : Statuses, priority : Priorities, isOverdue : BOOLEAN,
        assigneeId : Users \cup {NoUser}, dueDate : Dates \cup {NoDate}, version : Nat, deleted : BOOLEAN]

\* The fields of an update body that the model tells apart.
Fields == {"title", "status", "priority", "dueDate", "assigneeId"}

\* An update body: the fields the client sent, with legal values.  dueDate may
\* be null: @IsOptional lets it through and the column becomes NULL.
IsPatch(p) ==
  /\ DOMAIN p \subseteq Fields
  /\ "status" \in DOMAIN p => p["status"] \in Statuses
  /\ "priority" \in DOMAIN p => p["priority"] \in Priorities
  /\ "dueDate" \in DOMAIN p => p["dueDate"] \in Dates \cup {NoDate}
  /\ "assigneeId" \in DOMAIN p => p["assigneeId"] \in Users

ASSUME DomainAssumption ==
  /\ Tickets \subseteq Nat
  /\ Dates \subseteq Int
  /\ NoDate \notin Int
  /\ NoUser \notin Users
  /\ \A s \in Seeds : s \in Row /\ s.version = 1 /\ ~s.deleted /\ ~s.isOverdue
  /\ \A p \in Patches : IsPatch(p)

-----------------------------------------------------------------------------
Sent(dto, field, old) == IF field \in DOMAIN dto THEN dto[field] ELSE old

\* SET clause of updateWithVersionCheck: the sent columns, is_overdue = FALSE
\* when the priority is among them, version = version + 1.
Patched(row, dto) ==
  [row EXCEPT !.status = Sent(dto, "status", @),
              !.priority = Sent(dto, "priority", @),
              !.assigneeId = Sent(dto, "assigneeId", @),
              !.dueDate = Sent(dto, "dueDate", @),
              !.isOverdue = IF "priority" \in DOMAIN dto THEN FALSE ELSE @,
              !.version = @ + 1]

\* Columns that update asks diffMetadata to compare.
AuditedFields == {"status", "priority", "assigneeId", "dueDate", "isOverdue"}

\* before[f] !== after[f].  The driver makes a fresh Date object of a timestamp
\* each time it reads one, so a due date is never identical to itself.
Differs(f, old, new) == old[f] # new[f] \/ (f = "dueDate" /\ old[f] # NoDate)

diffMetadata(old, new) ==
  [f \in {g \in AuditedFields : Differs(g, old, new)} |-> [from |-> old[f], to |-> new[f]]]

\* assertLegalTransition: forward only; staying where it is is legal.
LegalTransition(current, next) == STATUS_ORDER[next] >= STATUS_ORDER[current]
=============================================================================
