---------------------------- MODULE MCEscalation ----------------------------
(***************************************************************************)
(* Two overlapping cycles, one of them the cron job's, escalate a ticket   *)
(* that users re-prioritise, resolve or give another date meanwhile.       *)
(***************************************************************************)
EXTENDS TicketSystem

MCTickets == {1}
MCProjectOf == [t \in MCTickets |-> 1]
MCDates == {0, 9}

MCSeeds == {[status |-> "IN_PROGRESS", priority |-> "HIGH", assigneeId |-> NoUser, dueDate |-> 0,
             isOverdue |-> FALSE, version |-> 1, deleted |-> FALSE]}
MCPatches == {[priority |-> "LOW"], [status |-> "DONE", dueDate |-> 9], [status |-> "TODO"]}
=============================================================================
