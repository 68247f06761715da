---------------------------- MODULE Dependencies ----------------------------
(***************************************************************************)
(* DependenciesService: adding and removing "ticket is blocked by          *)
(* blocker".  add walks the blocker graph from the blocker, one query per  *)
(* node, and inserts the edge if the walk does not meet the ticket; no     *)
(* transaction or lock spans the walk and the insert.                      *)
(***************************************************************************)
EXTENDS TicketStore

CONSTANTS Linkers,       \* requests on /tickets/:id/dependencies, each handled once
          Edges          \* the edges they ask for

ASSUME LinkerAssumption == Edges \subseteq Tickets \X Tickets

VARIABLES lpc,           \* where each linker stands, or how it ended
          edge,          \* <<ticketId, blockerId>> of its request
          stack,         \* wouldCreateCycle's stack
          visited,       \* wouldCreateCycle's visited
          stale,         \* history: linkers whose walk missed an edge added since
          staleInsert    \* history: one of those has inserted its edge

linkerVars == <<lpc, edge, stack, visited, stale, staleInsert>>

NoEdge == <<>>

LPCs == {"new", "ticket", "blocker", "walk", "insert", "remove",
         "added", "present", "removed", "400", "404"}

lgoto(l, where) == lpc' = [lpc EXCEPT ![l] = where]

-----------------------------------------------------------------------------
\* POST: a self-dependency is refused before the first await.
ReceiveAdd(l) ==
  /\ lpc[l] = "new"
  /\ \E e \in Edges :
       /\ edge' = [edge EXCEPT ![l] = e]
       /\ IF e[1] = e[2] THEN lgoto(l, "400") ELSE lgoto(l, "ticket")
  /\ UNCHANGED <<stack, visited, stale, staleInsert, storeVars>>

ReceiveRemove(l) ==
  /\ lpc[l] = "new"
  /\ \E e \in Edges : edge' = [edge EXCEPT ![l] = e]
  /\ lgoto(l, "remove")
  /\ UNCHANGED <<stack, visited, stale, staleInsert, storeVars>>

FindTicket(l) ==
  /\ lpc[l] = "ticket"
  /\ lgoto(l, IF tickets[edge[l][1]].deleted THEN "404" ELSE "blocker")
  /\ UNCHANGED <<edge, stack, visited, stale, staleInsert, storeVars>>

\* The blocker exists and is of the same project: the walk starts at it.
FindBlocker(l) ==
  /\ lpc[l] = "blocker"
  /\ \/ tickets[edge[l][2]].deleted /\ lgoto(l, "404") /\ UNCHANGED stack
     \/ /\ ~tickets[edge[l][2]].deleted
        /\ ProjectOf[edge[l][1]] # ProjectOf[edge[l][2]]
        /\ lgoto(l, "400") /\ UNCHANGED stack
     \/ /\ ~tickets[edge[l][2]].deleted
        /\ ProjectOf[edge[l][1]] = ProjectOf[edge[l][2]]
        /\ lgoto(l, "walk")
        /\ stack' = [stack EXCEPT ![l] = {edge[l][2]}]
  /\ UNCHANGED <<edge, visited, stale, staleInsert, storeVars>>

\* Mutant: no visited set.
WalkForgetful(l) ==
  /\ lpc[l] = "walk"
  /\ \/ /\ stack[l] = {}
        /\ lgoto(l, "insert")
        /\ UNCHANGED <<stack, visited>>
     \/ /\ edge[l][1] \in stack[l]
        /\ lgoto(l, "400")
        /\ stack' = [stack EXCEPT ![l] = {}]
        /\ visited' = [visited EXCEPT ![l] = {}]
     \/ \E n \in stack[l] \ {edge[l][1]} :
          /\ visited' = [visited EXCEPT ![l] = @ \cup {n}]
          /\ stack' = [stack EXCEPT ![l] = (@ \ {n}) \cup blockerIdsOf(n)]
          /\ UNCHANGED lpc
  /\ UNCHANGED <<edge, stale, staleInsert, storeVars>>

\* Mutant: only direct blockers are looked at.
WalkOneLevel(l) ==
  /\ lpc[l] = "walk"
  /\ lgoto(l, IF edge[l][1] \in blockerIdsOf(edge[l][2]) THEN "400" ELSE "insert")
  /\ visited' = [visited EXCEPT ![l] = {edge[l][2]}]
  /\ stack' = [stack EXCEPT ![l] = {}]
  /\ UNCHANGED <<edge, stale, staleInsert, storeVars>>

\* One turn of the loop.  The stack is a set: rows come in no order, a second
\* push of a node is dropped when it is popped, and the pop order only decides
\* which reads come first.
Walk(l) ==
  /\ lpc[l] = "walk"
  /\ \/ /\ stack[l] = {}
        /\ lgoto(l, "insert")
        /\ UNCHANGED <<stack, visited>>
     \/ /\ edge[l][1] \in stack[l]
        /\ lgoto(l, "400")
        /\ stack' = [stack EXCEPT ![l] = {}]
        /\ visited' = [visited EXCEPT ![l] = {}]
     \/ \E n \in stack[l] \ {edge[l][1]} :
          /\ visited' = [visited EXCEPT ![l] = @ \cup {n}]
          /\ stack' = [stack EXCEPT ![l] =
                         (@ \ {n}) \cup (blockerIdsOf(n) \ (visited[l] \cup {n}))]
          /\ UNCHANGED lpc
  /\ UNCHANGED <<edge, stale, staleInsert, storeVars>>

\* History: the linkers that have read the blockers of e[1] without seeing e.
Missed(e) ==
  {m \in Linkers : /\ lpc[m] \in {"walk", "insert"}
                   /\ e[1] \in visited[m] /\ e[2] \notin visited[m] \cup stack[m]}

\* The entry of an edge.  No property reads it, so it is inserted in the step of
\* the change it records.
EdgeEntry(l, action) == [action |-> action, by |-> l, ticket |-> edge[l][1], at |-> 0]

\* Mutant: the row count of the INSERT is ignored.
InsertAlwaysAdded(l) ==
  /\ lpc[l] = "insert"
  /\ deps' = deps \cup {edge[l]}
  /\ lgoto(l, "added")
  /\ Log(EdgeEntry(l, "CREATE"))
  /\ stale' = stale \cup Missed(edge[l])
  /\ staleInsert' = (staleInsert \/ l \in stale)
  /\ visited' = [visited EXCEPT ![l] = {}]
  /\ UNCHANGED <<edge, stack, tickets, users, now>>

\* INSERT ... ON CONFLICT DO NOTHING; only a new row is audited.
Insert(l) ==
  /\ lpc[l] = "insert"
  /\ \/ /\ edge[l] \notin deps
        /\ deps' = deps \cup {edge[l]}
        /\ lgoto(l, "added")
        /\ Log(EdgeEntry(l, "CREATE"))
        /\ stale' = stale \cup Missed(edge[l])
        /\ staleInsert' = (staleInsert \/ l \in stale)
     \/ /\ edge[l] \in deps
        /\ lgoto(l, "present")
        /\ UNCHANGED <<deps, audit, faults, stale, staleInsert>>
  /\ visited' = [visited EXCEPT ![l] = {}]
  /\ UNCHANGED <<edge, stack, tickets, users, now>>

\* DELETE: one statement; no row is a 404.
Remove(l) ==
  /\ lpc[l] = "remove"
  /\ \/ /\ edge[l] \in deps
        /\ deps' = deps \ {edge[l]}
        /\ lgoto(l, "removed")
        /\ Log(EdgeEntry(l, "DELETE"))
     \/ /\ edge[l] \notin deps
        /\ lgoto(l, "404")
        /\ UNCHANGED <<deps, audit, faults>>
  /\ UNCHANGED <<edge, stack, visited, stale, staleInsert, tickets, users, now>>

-----------------------------------------------------------------------------
LinkerInit ==
  /\ lpc = [l \in Linkers |-> "new"]
  /\ edge = [l \in Linkers |-> NoEdge]
  /\ stack = [l \in Linkers |-> {}]
  /\ visited = [l \in Linkers |-> {}]
  /\ stale = {}
  /\ staleInsert = FALSE

LinkerNext ==
  \E l \in Linkers :
    \/ ReceiveAdd(l) \/ FindTicket(l) \/ FindBlocker(l) \/ Walk(l) \/ Insert(l)
    \/ ReceiveRemove(l) \/ Remove(l)

LinkerTypeOK ==
  /\ lpc \in [Linkers -> LPCs]
  /\ edge \in [Linkers -> Edges \cup {NoEdge}]
  /\ \A l \in Linkers : lpc[l] # "new" => edge[l] \in Edges
  /\ stack \in [Linkers -> SUBSET Tickets]
  /\ visited \in [Linkers -> SUBSET Tickets]
  /\ stale \subseteq Linkers
  /\ staleInsert \in BOOLEAN
=============================================================================
