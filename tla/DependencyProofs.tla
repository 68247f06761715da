--------------------------- MODULE DependencyProofs ---------------------------
(***************************************************************************)
(* The cycle check of DependenciesService, for any number of tickets and   *)
(* linkers: a walk that no insert has invalidated proves that its edge     *)
(* closes no cycle, so a cycle needs a stale insert.                       *)
(*                                                                         *)
(* The argument: the nodes a walk has visited, once its stack is empty,    *)
(* are closed under the edges of the graph, contain the blocker and do not *)
(* contain the ticket.  Any set of nodes either avoids the ticket, and the *)
(* new edge does not leave it, or it meets that closed set, and the old    *)
(* graph's exit from the intersection is an exit still, or it misses the   *)
(* blocker, and the new edge leads out of it.                              *)
(*                                                                         *)
(* Then the answers: the adds of an edge answered 201 and the removes      *)
(* answered 200 account for whether the edge is in the table.              *)
(***************************************************************************)
EXTENDS TypeProofs

\* What a walk knows unless an edge was added behind it.
WalkKnows(l) ==
  /\ edge[l][1] \notin visited[l]
  /\ edge[l][2] \in visited[l] \cup stack[l]
  /\ \A n \in visited[l], m \in Tickets : <<n, m>> \in deps => m \in visited[l] \cup stack[l]

WalkInv ==
  \A l \in Linkers :
    /\ lpc[l] \in {"ticket", "blocker"} => visited[l] = {}
    /\ lpc[l] = "new" => visited[l] = {}
    /\ lpc[l] = "insert" => stack[l] = {}
    /\ lpc[l] \in {"walk", "insert"} /\ l \notin stale => WalkKnows(l)

CycleInv == WalkInv /\ CycleOnlyFromStaleWalk

-----------------------------------------------------------------------------
\* An edge t -> b keeps the graph acyclic if some set closed under its edges
\* contains b and not t: what wouldCreateCycle establishes.
LEMMA AcyclicInsert ==
  ASSUME NEW G, Acyclic(G), NEW t, NEW b,
         NEW V \in SUBSET Tickets, b \in V, t \notin V,
         \A n \in V, m \in Tickets : <<n, m>> \in G => m \in V
  PROVE  Acyclic(G \cup {<<t, b>>})
<1> SUFFICES ASSUME NEW S \in SUBSET Tickets, S # {}
             PROVE  \E n \in S : \A m \in S : <<n, m>> \notin G \cup {<<t, b>>}
  BY DEF Acyclic
<1>1. CASE b \notin S
  <2>1. PICK n \in S : \A m \in S : <<n, m>> \notin G
    BY DEF Acyclic
  <2>2. \A m \in S : <<n, m>> # <<t, b>>
    BY <1>1
  <2>3. QED
    BY <2>1, <2>2
<1>2. CASE b \in S
  <2>1. S \cap V \in SUBSET Tickets /\ S \cap V # {}
    BY <1>2
  <2>2. PICK n \in S \cap V : \A m \in S \cap V : <<n, m>> \notin G
    BY <2>1 DEF Acyclic
  <2>3. \A m \in S : <<n, m>> \notin G
    BY <2>2
  <2>4. \A m \in S : <<n, m>> # <<t, b>>
    BY <2>2
  <2>5. QED
    BY <2>2, <2>3, <2>4
<1>3. QED
  BY <1>1, <1>2

\* Removing edges keeps a graph acyclic.
LEMMA AcyclicRemove ==
  ASSUME NEW G, NEW H \in SUBSET G, Acyclic(G)
  PROVE  Acyclic(H)
BY DEF Acyclic

-----------------------------------------------------------------------------
\* One step of a linker keeps the invariant.
LEMMA LinkerStep ==
  ASSUME TypeOK, CycleInv, NEW l \in Linkers,
         \/ ReceiveAdd(l) \/ FindTicket(l) \/ FindBlocker(l) \/ Walk(l) \/ Insert(l)
         \/ ReceiveRemove(l) \/ Remove(l)
  PROVE  CycleInv'
<1>0. /\ lpc \in [Linkers -> LPCs] /\ stack \in [Linkers -> SUBSET Tickets]
      /\ visited \in [Linkers -> SUBSET Tickets] /\ edge \in [Linkers -> Edges \cup {NoEdge}]
      /\ \A m \in Linkers : lpc[m] # "new" => edge[m] \in Tickets \X Tickets
      /\ deps \subseteq Tickets \X Tickets
  BY LinkerAssumption DEF TypeOK, LinkerTypeOK, StoreTypeOK
<1> USE DEF lgoto
<1>1. ASSUME ReceiveAdd(l) \/ ReceiveRemove(l) \/ FindTicket(l)
      PROVE  CycleInv'
  <2>1. UNCHANGED <<stack, visited, stale, staleInsert, deps>>
    BY <1>1 DEF ReceiveAdd, ReceiveRemove, FindTicket, storeVars
  <2>2. \A m \in Linkers \ {l} : lpc'[m] = lpc[m] /\ edge'[m] = edge[m]
    BY <1>0, <1>1 DEF ReceiveAdd, ReceiveRemove, FindTicket
  <2>3. /\ lpc'[l] \in {"ticket", "blocker", "remove", "400", "404"}
        /\ lpc[l] \in {"new", "ticket"}
    BY <1>0, <1>1 DEF ReceiveAdd, ReceiveRemove, FindTicket
  <2>4. WalkInv'
    BY <2>1, <2>2, <2>3 DEF CycleInv, WalkInv, WalkKnows
  <2>5. QED
    BY <2>1, <2>4 DEF CycleInv, CycleOnlyFromStaleWalk
<1>2. ASSUME FindBlocker(l) PROVE CycleInv'
  <2>1. UNCHANGED <<edge, visited, stale, staleInsert, deps>>
    BY <1>2 DEF FindBlocker, storeVars
  <2>2. \A m \in Linkers \ {l} : lpc'[m] = lpc[m] /\ stack'[m] = stack[m]
    BY <1>0, <1>2 DEF FindBlocker
  <2>3. /\ visited[l] = {}
        /\ lpc'[l] \in {"400", "404"} \/ (lpc'[l] = "walk" /\ stack'[l] = {edge[l][2]})
    BY <1>0, <1>2 DEF FindBlocker, CycleInv, WalkInv
  <2>4. WalkInv'
    BY <2>1, <2>2, <2>3 DEF CycleInv, WalkInv, WalkKnows
  <2>5. QED
    BY <2>1, <2>4 DEF CycleInv, CycleOnlyFromStaleWalk
<1>3. ASSUME Walk(l) PROVE CycleInv'
  <2>1. UNCHANGED <<edge, stale, staleInsert, deps>>
    BY <1>3 DEF Walk, storeVars
  <2>2. \A m \in Linkers \ {l} : lpc'[m] = lpc[m] /\ stack'[m] = stack[m] /\ visited'[m] = visited[m]
    BY <1>0, <1>3 DEF Walk
  <2>3. lpc'[l] \in {"walk", "insert", "400"} /\ (lpc'[l] = "insert" => stack'[l] = {})
    BY <1>0, <1>3 DEF Walk
  <2>4. ASSUME lpc'[l] \in {"walk", "insert"}, l \notin stale PROVE WalkKnows(l)'
    <3>1. WalkKnows(l)
      BY <1>3, <2>4 DEF CycleInv, WalkInv, Walk
    <3>2. CASE stack'[l] = stack[l] /\ visited'[l] = visited[l]
      BY <2>1, <3>1, <3>2 DEF WalkKnows
    <3>3. CASE \E n \in stack[l] \ {edge[l][1]} :
                 /\ visited'[l] = visited[l] \cup {n}
                 /\ stack'[l] = (stack[l] \ {n}) \cup (blockerIdsOf(n) \ (visited[l] \cup {n}))
      BY <1>0, <2>1, <3>1, <3>3 DEF WalkKnows, blockerIdsOf
    <3>4. QED
      BY <1>0, <1>3, <2>4, <3>2, <3>3 DEF Walk
  <2>5. WalkInv'
    BY <2>1, <2>2, <2>3, <2>4 DEF CycleInv, WalkInv, WalkKnows
  <2>6. QED
    BY <2>1, <2>5 DEF CycleInv, CycleOnlyFromStaleWalk
<1>4. ASSUME Insert(l) PROVE CycleInv'
  <2> DEFINE t == edge[l][1]
             b == edge[l][2]
  <2>1. edge[l] = <<t, b>> /\ t \in Tickets /\ b \in Tickets
    BY <1>0, <1>4 DEF Insert
  <2>2. UNCHANGED <<edge, stack>>
    BY <1>4 DEF Insert
  <2>3. /\ \A m \in Linkers \ {l} : lpc'[m] = lpc[m] /\ visited'[m] = visited[m]
        /\ lpc'[l] \in {"added", "present"}
    BY <1>0, <1>4 DEF Insert
  <2>4. CASE UNCHANGED <<deps, stale, staleInsert>>
    <3>1. WalkInv'
      BY <2>2, <2>3, <2>4 DEF CycleInv, WalkInv, WalkKnows
    <3>2. QED
      BY <2>4, <3>1 DEF CycleInv, CycleOnlyFromStaleWalk
  <2>5. CASE /\ deps' = deps \cup {<<t, b>>}
             /\ stale' = stale \cup Missed(<<t, b>>)
             /\ staleInsert' = (staleInsert \/ l \in stale)
    <3>1. ASSUME NEW m \in Linkers \ {l}, lpc[m] \in {"walk", "insert"}, m \notin stale'
          PROVE  WalkKnows(m)'
      <4>1. WalkKnows(m)
        BY <2>5, <3>1 DEF CycleInv, WalkInv
      <4>2. t \notin visited[m] \/ b \in visited[m] \cup stack[m]
        BY <2>5, <3>1 DEF Missed
      <4>3. QED
        BY <2>2, <2>3, <2>5, <3>1, <4>1, <4>2 DEF WalkKnows
    <3>2. WalkInv'
      BY <2>2, <2>3, <2>5, <3>1 DEF CycleInv, WalkInv
    <3>3. ASSUME ~staleInsert' PROVE Acyclic(deps')
      <4>1. ~staleInsert /\ l \notin stale
        BY <2>5, <3>3
      <4>2. lpc[l] = "insert"
        BY <1>4 DEF Insert
      <4>3. WalkKnows(l) /\ stack[l] = {} /\ Acyclic(deps)
        BY <4>1, <4>2 DEF CycleInv, WalkInv, CycleOnlyFromStaleWalk
      <4>4. /\ visited[l] \in SUBSET Tickets /\ b \in visited[l] /\ t \notin visited[l]
            /\ \A n \in visited[l], m \in Tickets : <<n, m>> \in deps => m \in visited[l]
        BY <1>0, <4>3 DEF WalkKnows
      <4>5. QED
        BY <2>5, <4>3, <4>4, AcyclicInsert
    <3>4. QED
      BY <3>2, <3>3 DEF CycleInv, CycleOnlyFromStaleWalk, Acyclic
  <2>6. QED
    BY <1>4, <2>1, <2>4, <2>5 DEF Insert
<1>5. ASSUME Remove(l) PROVE CycleInv'
  <2>1. UNCHANGED <<edge, stack, visited, stale, staleInsert>> /\ deps' \in SUBSET deps
    BY <1>5 DEF Remove
  <2>2. \A m \in Linkers \ {l} : lpc'[m] = lpc[m]
    BY <1>0, <1>5 DEF Remove
  <2>3. lpc'[l] \in {"removed", "404"}
    BY <1>0, <1>5 DEF Remove
  <2>4. WalkInv'
    BY <2>1, <2>2, <2>3 DEF CycleInv, WalkInv, WalkKnows
  <2>5. Acyclic(deps) => Acyclic(deps')
    BY <2>1, AcyclicRemove
  <2>6. QED
    BY <2>1, <2>4, <2>5 DEF CycleInv, CycleOnlyFromStaleWalk, Acyclic
<1>6. QED
  BY <1>1, <1>2, <1>3, <1>4, <1>5

\* Without an insert that follows an edge added behind its walk, the blocker
\* graph has no cycle, for any number of tickets, linkers, requests and cycles.
THEOREM CyclesNeedAStaleWalk == Spec => []CycleOnlyFromStaleWalk
<1>1. Init => CycleInv
  BY StoreAssumption
  DEF Init, StoreInit, LinkerInit, CycleInv, WalkInv, CycleOnlyFromStaleWalk
<1>2. TypeOK /\ CycleInv /\ [Next]_vars => CycleInv'
  <2> SUFFICES ASSUME TypeOK, CycleInv, [Next]_vars PROVE CycleInv'
    OBVIOUS
  <2>1. CASE LinkerNext
    BY <2>1, LinkerStep DEF LinkerNext
  <2>2. CASE UNCHANGED <<linkerVars, deps>>
    BY <2>2 DEF linkerVars, CycleInv, WalkInv, WalkKnows, CycleOnlyFromStaleWalk, Acyclic
  <2>3. QED
    BY <2>1, <2>2
    DEF Next, vars, ServiceNext, ReceivePatch, ReceiveOther, PatchRead, CountBlockers,
        FindAssignee, PatchWrite, DeleteRead, DeleteWrite, RestoreRead, RestoreWrite, Audit,
        EscalationNext, Scan, Work, Promote, MarkOverdue, Skip, LogEscalation, Abort, Tick,
        DeleteUser, storeVars
<1>3. CycleInv => CycleOnlyFromStaleWalk
  BY DEF CycleInv
<1>4. QED
  BY <1>1, <1>2, <1>3, TypeCorrect, PTL DEF Spec

-----------------------------------------------------------------------------
\* The linkers that have come, finitely many at any time, and those that ended in one
\* way on one edge.
Come == {l \in Linkers : lpc[l] # "new"}

Ended(how, e) == {l \in Linkers : lpc[l] = how /\ edge[l] = e}

InDeps(e) == IF e \in deps THEN 1 ELSE 0

LEMMA EndedFinite ==
  ASSUME IsFiniteSet(Come), NEW how, how # "new", NEW e
  PROVE  IsFiniteSet(Ended(how, e)) /\ Cardinality(Ended(how, e)) \in Nat
<1>1. Ended(how, e) \subseteq Come
  BY DEF Ended, Come
<1>2. QED
  BY <1>1, NoMore

\* What a step of the system does to the answers on an edge and to the table.
LedgerSame(e) ==
  /\ Ended("added", e)' = Ended("added", e) /\ Ended("removed", e)' = Ended("removed", e)
  /\ e \in deps' <=> e \in deps

LedgerAdds(e) ==
  /\ \E l : l \notin Ended("added", e) /\ Ended("added", e)' = Ended("added", e) \cup {l}
  /\ Ended("removed", e)' = Ended("removed", e)
  /\ e \notin deps /\ e \in deps'

LedgerRemoves(e) ==
  /\ \E l : l \notin Ended("removed", e) /\ Ended("removed", e)' = Ended("removed", e) \cup {l}
  /\ Ended("added", e)' = Ended("added", e)
  /\ e \in deps /\ e \notin deps'

LEMMA LedgerSteps ==
  ASSUME TypeOK, NEW l \in Linkers, NEW e,
         \/ ReceiveAdd(l) \/ FindTicket(l) \/ FindBlocker(l) \/ Walk(l) \/ Insert(l)
         \/ ReceiveRemove(l) \/ Remove(l)
  PROVE  /\ LedgerSame(e) \/ LedgerAdds(e) \/ LedgerRemoves(e)
         /\ Come' \subseteq Come \cup {l}
<1>0. lpc \in [Linkers -> LPCs] /\ edge \in [Linkers -> Edges \cup {NoEdge}]
  BY DEF TypeOK, LinkerTypeOK
<1>1. \A m \in Linkers \ {l} : lpc'[m] = lpc[m] /\ edge'[m] = edge[m]
  BY <1>0 DEF ReceiveAdd, FindTicket, FindBlocker, Walk, Insert, ReceiveRemove, Remove, lgoto
<1>2. lpc[l] \notin {"added", "removed"}
  BY DEF ReceiveAdd, FindTicket, FindBlocker, Walk, Insert, ReceiveRemove, Remove
<1>3. /\ l \notin Ended("added", e) /\ l \notin Ended("removed", e)
      /\ lpc'[l] = "added" /\ edge'[l] = e => Ended("added", e)' = Ended("added", e) \cup {l}
      /\ lpc'[l] = "removed" /\ edge'[l] = e => Ended("removed", e)' = Ended("removed", e) \cup {l}
      /\ lpc'[l] # "added" \/ edge'[l] # e => Ended("added", e)' = Ended("added", e)
      /\ lpc'[l] # "removed" \/ edge'[l] # e => Ended("removed", e)' = Ended("removed", e)
  BY <1>1, <1>2 DEF Ended
<1>4. Come' \subseteq Come \cup {l}
  BY <1>1 DEF Come
<1>5. CASE deps' = deps /\ lpc'[l] \notin {"added", "removed"}
  BY <1>3, <1>4, <1>5 DEF LedgerSame
<1>6. CASE Insert(l) /\ edge[l] \notin deps
  <2>1. /\ edge'[l] = edge[l] /\ lpc'[l] = "added" /\ deps' = deps \cup {edge[l]}
    BY <1>0, <1>6 DEF Insert, lgoto
  <2>2. CASE edge[l] = e
    BY <1>3, <1>4, <1>6, <2>1, <2>2 DEF LedgerAdds
  <2>3. CASE edge[l] # e
    BY <1>3, <1>4, <2>1, <2>3 DEF LedgerSame
  <2>4. QED
    BY <2>2, <2>3
<1>7. CASE Remove(l) /\ edge[l] \in deps
  <2>1. /\ edge'[l] = edge[l] /\ lpc'[l] = "removed" /\ deps' = deps \ {edge[l]}
    BY <1>0, <1>7 DEF Remove, lgoto
  <2>2. CASE edge[l] = e
    BY <1>3, <1>4, <1>7, <2>1, <2>2 DEF LedgerRemoves
  <2>3. CASE edge[l] # e
    BY <1>3, <1>4, <2>1, <2>3 DEF LedgerSame
  <2>4. QED
    BY <2>2, <2>3
<1>8. CASE Insert(l) /\ edge[l] \in deps
  BY <1>0, <1>5, <1>8 DEF Insert, lgoto
<1>9. CASE Remove(l) /\ edge[l] \notin deps
  BY <1>0, <1>5, <1>9 DEF Remove, lgoto
<1>10. CASE ReceiveAdd(l) \/ FindTicket(l) \/ FindBlocker(l) \/ Walk(l) \/ ReceiveRemove(l)
  BY <1>0, <1>5, <1>10
  DEF ReceiveAdd, FindTicket, FindBlocker, Walk, ReceiveRemove, lgoto, storeVars
<1>11. QED
  BY <1>6, <1>7, <1>8, <1>9, <1>10

\* For each edge the table holds it exactly if the inserts that wrote it outnumber the
\* deletes that found it, or it was there first and they are even (row counts of both).
THEOREM LedgerBalances == Spec => []EdgeLedger
<1> DEFINE Balance(e) ==
             Cardinality(Ended("added", e)) - Cardinality(Ended("removed", e))
               = InDeps(e) - (IF e \in InitialDeps THEN 1 ELSE 0)
           Inv == IsFiniteSet(Come) /\ \A e \in Edges : Balance(e)
<1>1. Init => Inv
  <2> SUFFICES ASSUME Init PROVE Inv
    OBVIOUS
  <2>1. Come = {} /\ \A e : Ended("added", e) = {} /\ Ended("removed", e) = {}
    BY DEF Init, LinkerInit, Come, Ended
  <2>2. IsFiniteSet({}) /\ Cardinality({}) = 0
    BY FS_EmptySet
  <2>3. \A e : InDeps(e) = IF e \in InitialDeps THEN 1 ELSE 0
    BY DEF Init, StoreInit, InDeps
  <2>4. QED
    BY <2>1, <2>2, <2>3
<1>2. TypeOK /\ Inv /\ [Next]_vars => Inv'
  <2> SUFFICES ASSUME TypeOK, Inv, [Next]_vars PROVE Inv'
    OBVIOUS
  <2>1. CASE UNCHANGED <<linkerVars, deps>>
    BY <2>1 DEF linkerVars, Come, Ended, InDeps
  <2>2. ASSUME NEW l \in Linkers,
               \/ ReceiveAdd(l) \/ FindTicket(l) \/ FindBlocker(l) \/ Walk(l) \/ Insert(l)
               \/ ReceiveRemove(l) \/ Remove(l)
        PROVE  Inv'
    <3>1. IsFiniteSet(Come)'
      BY <2>2, LedgerSteps, AtMostOneMore
    <3>2. ASSUME NEW e \in Edges PROVE Balance(e)'
      <4> DEFINE A == Ended("added", e)
                 R == Ended("removed", e)
      <4>1. /\ IsFiniteSet(A) /\ IsFiniteSet(R)
            /\ Cardinality(A) \in Nat /\ Cardinality(R) \in Nat
        BY EndedFinite
      <4>2. Cardinality(A) - Cardinality(R) = InDeps(e) - (IF e \in InitialDeps THEN 1 ELSE 0)
        OBVIOUS
      <4>3. CASE LedgerSame(e)
        BY <4>2, <4>3 DEF LedgerSame, InDeps
      <4>4. CASE LedgerAdds(e)
        <5>1. Cardinality(A)' = Cardinality(A) + 1
          BY <4>1, <4>4, OneMore DEF LedgerAdds
        <5>2. Cardinality(R)' = Cardinality(R) /\ InDeps(e) = 0 /\ InDeps(e)' = 1
          BY <4>4 DEF LedgerAdds, InDeps
        <5>3. QED
          BY <4>1, <4>2, <5>1, <5>2
      <4>5. CASE LedgerRemoves(e)
        <5>1. Cardinality(R)' = Cardinality(R) + 1
          BY <4>1, <4>5, OneMore DEF LedgerRemoves
        <5>2. Cardinality(A)' = Cardinality(A) /\ InDeps(e) = 1 /\ InDeps(e)' = 0
          BY <4>5 DEF LedgerRemoves, InDeps
        <5>3. QED
          BY <4>1, <4>2, <5>1, <5>2
      <4>6. QED
        BY <2>2, <4>3, <4>4, <4>5, LedgerSteps
    <3>3. QED
      BY <3>1, <3>2
  <2>3. QED
    BY <2>1, <2>2
    DEF Next, vars, LinkerNext, ServiceNext, ReceivePatch, ReceiveOther, PatchRead, CountBlockers,
        FindAssignee, PatchWrite, DeleteRead, DeleteWrite, RestoreRead, RestoreWrite, Audit,
        EscalationNext, Scan, Work, Promote, MarkOverdue, Skip, LogEscalation, Abort, Tick,
        DeleteUser, storeVars
<1>3. Inv => EdgeLedger
  BY DEF EdgeLedger, Ended, InDeps
<1>4. QED
  BY <1>1, <1>2, <1>3, TypeCorrect, PTL DEF Spec
=============================================================================
