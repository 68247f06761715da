---------------------------- MODULE MCTicketRaces ----------------------------
(***************************************************************************)
(* Three requests of any kind, an escalation cycle and the deletion of a   *)
(* user race on two tickets, of which the first is blocked by the second.  *)
(* An update gives a ticket a due date in the past, which is when the      *)
(* cycle takes to it.  A client may guess the version that the next write  *)
(* will produce.                                                           *)
(***************************************************************************)
EXTENDS TicketSystem, TLC

MCTickets == {1, 2}
MCProjectOf == [t \in MCTickets |-> 1]
MCDates == {-1}
MCDeps == {<<1, 2>>}
MCEdges == {<<1, 2>>}

MCSeeds == {[status |-> "TODO", priority |-> "HIGH", assigneeId |-> NoUser,
             dueDate |-> NoDate, isOverdue |-> FALSE, version |-> 1, deleted |-> FALSE]}

MCPatches == {[status |-> "DONE"], [status |-> "IN_PROGRESS", assigneeId |-> 1, dueDate |-> -1]}

Symmetry == Permutations(Requests)
=============================================================================
