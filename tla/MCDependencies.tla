--------------------------- MODULE MCDependencies ---------------------------
(***************************************************************************)
(* Linkers race to connect three tickets of one project; a fourth ticket   *)
(* is of another project.                                                  *)
(***************************************************************************)
EXTENDS TicketSystem

MCTickets == 1..4
MCProjectOf == [t \in MCTickets |-> IF t = 4 THEN 2 ELSE 1]
MCDates == {}
MCSeeds == {[status |-> "TODO", priority |-> "LOW", assigneeId |-> NoUser, dueDate |-> NoDate,
             isOverdue |-> FALSE, version |-> 1, deleted |-> FALSE]}
MCPatches == {[status |-> "DONE"]}

\* <<2, 3>> and <<3, 2>> may close a cycle that a walk from <<1, 2>> then meets.
MCDeps == {<<1, 2>>}
MCEdges == {<<1, 2>>, <<2, 3>>, <<3, 2>>, <<3, 1>>, <<1, 1>>, <<1, 4>>}
=============================================================================
