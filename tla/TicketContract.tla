--------------------------- MODULE TicketContract ---------------------------
(***************************************************************************)
(* What the ticket services promise about a row, whatever the interleaving *)
(* of their awaits: every change is one of five atomic operations on the   *)
(* row as it is at that moment.  In particular an accepted update obeys    *)
(* the lifecycle rules at the moment it is written, although the service   *)
(* checks them on a row it read several awaits earlier.                    *)
(*                                                                         *)
(* It promises less of escalation than the ladder does: the cycle works    *)
(* from a snapshot, so the priority it writes is some step of the ladder,  *)
(* not always the next one from the row's own.                             *)
(***************************************************************************)
EXTENDS TicketDomain

VARIABLE tickets

\* The row accepts changes of content.
Open(t) == ~tickets[t].deleted /\ tickets[t].status # "DONE"

Set(t, row) == tickets' = [tickets EXCEPT ![t] = row]

Update(t) ==
  \E dto \in Patches :
    /\ Open(t)
    /\ LegalTransition(tickets[t].status, Sent(dto, "status", tickets[t].status))
    /\ Set(t, Patched(tickets[t], dto))

Escalate(t) ==
  /\ Open(t)
  /\ \/ \E p \in Priorities :
          Set(t, [tickets[t] EXCEPT !.priority = NextPriority[p], !.version = @ + 1])
     \/ Set(t, [tickets[t] EXCEPT !.isOverdue = TRUE, !.version = @ + 1])

Delete(t) == ~tickets[t].deleted /\ Set(t, [tickets[t] EXCEPT !.deleted = TRUE])

Restore(t) == tickets[t].deleted /\ Set(t, [tickets[t] EXCEPT !.deleted = FALSE])

\* The user u is deleted.
Unassign(u) ==
  tickets' = [t \in Tickets |-> [tickets[t] EXCEPT !.assigneeId = IF @ = u THEN NoUser ELSE @]]

Init == tickets \in [Tickets -> Seeds]

Next ==
  \/ \E t \in Tickets : Update(t) \/ Escalate(t) \/ Delete(t) \/ Restore(t)
  \/ \E u \in Users : Unassign(u)

Spec == Init /\ [][Next]_tickets
=============================================================================
