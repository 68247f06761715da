----------------------------- MODULE TypeProofs -----------------------------
(***************************************************************************)
(* Type correctness of the ticket backend, for every choice of tickets,    *)
(* update bodies, requests, runners and linkers; and how a finite set that *)
(* a step changes by one element is counted, for the proofs about audit    *)
(* entries and answers.                                                    *)
(***************************************************************************)
EXTENDS TicketSystem, FiniteSetTheorems, TLAPS

\* Updating a row yields a row, one version on, neither deleted nor restored;
\* its status is the one sent, if one was (updateWithVersionCheck's SET clause).
LEMMA PatchedFacts ==
  ASSUME NEW row \in Row, NEW dto \in Patches
  PROVE  /\ Patched(row, dto) \in Row
         /\ Patched(row, dto).version = row.version + 1
         /\ Patched(row, dto).deleted = row.deleted
         /\ Patched(row, dto).status = Sent(dto, "status", row.status)
         /\ Sent(dto, "status", row.status) \in Statuses
<1>1. IsPatch(dto)
  BY DomainAssumption
<1>2. Sent(dto, "status", row.status) \in Statuses
  BY <1>1 DEF IsPatch, Sent, Row
<1>3. Sent(dto, "priority", row.priority) \in Priorities
  BY <1>1 DEF IsPatch, Sent, Row
<1>4. Sent(dto, "dueDate", row.dueDate) \in Dates \cup {NoDate}
  BY <1>1 DEF IsPatch, Sent, Row
<1>5. Sent(dto, "assigneeId", row.assigneeId) \in Users \cup {NoUser}
  BY <1>1 DEF IsPatch, Sent, Row
<1>6. /\ row.version + 1 \in Nat
      /\ (IF "priority" \in DOMAIN dto THEN FALSE ELSE row.isOverdue) \in BOOLEAN
  <2>1. row.version + 1 \in Nat /\ row.isOverdue \in BOOLEAN
    BY DEF Row
  <2>2. CASE "priority" \in DOMAIN dto
    BY <2>1, <2>2
  <2>3. CASE "priority" \notin DOMAIN dto
    BY <2>1, <2>3
  <2>4. QED
    BY <2>2, <2>3
<1>7. Patched(row, dto) \in Row
  <2> DEFINE s == Sent(dto, "status", row.status)
             p == Sent(dto, "priority", row.priority)
             u == Sent(dto, "assigneeId", row.assigneeId)
             d == Sent(dto, "dueDate", row.dueDate)
             o == IF "priority" \in DOMAIN dto THEN FALSE ELSE row.isOverdue
             v == row.version + 1
  <2>1. Patched(row, dto) = [row EXCEPT !.status = s, !.priority = p, !.assigneeId = u,
                                        !.dueDate = d, !.isOverdue = o, !.version = v]
    BY Zenon DEF Patched
  <2>2. s \in Statuses /\ p \in Priorities /\ u \in Users \cup {NoUser}
        /\ d \in Dates \cup {NoDate} /\ o \in BOOLEAN /\ v \in Nat
    BY <1>2, <1>3, <1>4, <1>5, <1>6
  <2> HIDE DEF s, p, u, d, o, v
  <2>3. QED
    BY <2>1, <2>2 DEF Row
<1>8. QED
  BY <1>2, <1>7 DEF Patched, Row

\* The ladder has no end to fall off.
LEMMA LadderFacts == \A p \in Priorities : NextPriority[p] \in Priorities
BY DEF NextPriority, Priorities

\* A write of one row keeps the table a table.
LEMMA SetRowType ==
  ASSUME tickets \in [Tickets -> Row], NEW t \in Tickets, NEW row \in Row, SetRow(t, row)
  PROVE  tickets' \in [Tickets -> Row]
BY DEF SetRow

\* audit.log adds an entry or spends a fault.
LEMMA LogType ==
  ASSUME AuditTypeOK, faults \in 0..MaxFaults, NEW e, Log(e),
         e.ticket \in Tickets, e.at \in Nat,
         e.action \in {"UPDATE", "DELETE", "RESTORE", "PRIORITY_ESCALATED", "CREATE"}
  PROVE  AuditTypeOK' /\ faults' \in 0..MaxFaults
BY StoreAssumption DEF AuditTypeOK, Log

-----------------------------------------------------------------------------
\* A user's tickets stay rows when the user is deleted.
LEMMA UnassignType ==
  ASSUME tickets \in [Tickets -> Row], NEW u,
         tickets' = [t \in Tickets |-> [tickets[t] EXCEPT !.assigneeId = IF @ = u THEN NoUser ELSE @]]
  PROVE  tickets' \in [Tickets -> Row]
BY DEF Row

\* The initial state is well typed.
LEMMA InitType == Init => TypeOK
<1> SUFFICES ASSUME Init PROVE TypeOK
  OBVIOUS
<1>1. StoreTypeOK /\ AuditTypeOK
  BY DomainAssumption, StoreAssumption
  DEF Init, StoreInit, StoreTypeOK, AuditTypeOK
<1>2. ServiceTypeOK
  BY DEF Init, ServiceInit, ServiceTypeOK, PCs
<1>3. EscalationTypeOK
  BY DEF Init, EscalationInit, EscalationTypeOK
<1>4. LinkerTypeOK
  BY DEF Init, LinkerInit, LinkerTypeOK, LPCs
<1>5. QED
  BY <1>1, <1>2, <1>3, <1>4 DEF TypeOK

\* Every step of a request keeps the types.
LEMMA ServiceType ==
  ASSUME TypeOK, ServiceNext, UNCHANGED <<escalationVars, linkerVars>>
  PROVE  TypeOK'
<1>0. /\ StoreTypeOK /\ AuditTypeOK /\ ServiceTypeOK /\ EscalationTypeOK /\ LinkerTypeOK
  BY DEF TypeOK
<1>1. EscalationTypeOK' /\ LinkerTypeOK'
  BY <1>0 DEF EscalationTypeOK, LinkerTypeOK, linkerVars, escalationVars
<1> USE DEF goto, refuse, Refusals, PCs, IsEntryOf
<1>2. ASSUME NEW r \in Requests, ReceivePatch(r)
      PROVE  StoreTypeOK' /\ AuditTypeOK' /\ ServiceTypeOK'
  <2>1. CASE refuse(r, "400")
    BY <1>0, <1>2, <2>1
    DEF ReceivePatch, ServiceTypeOK, StoreTypeOK, AuditTypeOK, storeVars, historyVars
  <2>2. ASSUME NEW t \in Tickets, NEW dto \in Patches,
               NEW token \in 0..(tickets[t].version + Lookahead),
               goto(r, "read"), UNCHANGED before,
               call' = [call EXCEPT ![r] = [op |-> "patch", ticket |-> t,
                                            dto |-> dto, token |-> token]]
        PROVE  StoreTypeOK' /\ AuditTypeOK' /\ ServiceTypeOK'
    <3>1. tickets[t].version + Lookahead \in Nat
      BY <1>0, ServiceAssumption DEF StoreTypeOK, Row
    <3>2. [op |-> "patch", ticket |-> t, dto |-> dto, token |-> token] \in Calls
      BY <3>1 DEF Calls
    <3>3. QED
      BY <1>0, <1>2, <2>2, <3>2
      DEF ReceivePatch, ServiceTypeOK, StoreTypeOK, AuditTypeOK, storeVars, historyVars
  <2>3. QED
    BY <1>2, <2>1, <2>2, Zenon DEF ReceivePatch
<1>3. ASSUME NEW r \in Requests, ReceiveOther(r)
      PROVE  StoreTypeOK' /\ AuditTypeOK' /\ ServiceTypeOK'
  <2>1. PICK op \in Ops \ {"patch"}, t \in Tickets :
          call' = [call EXCEPT ![r] = [op |-> op, ticket |-> t]]
    BY <1>3 DEF ReceiveOther
  <2>2. op \in {"delete", "restore"}
    BY ServiceAssumption
  <2>3. [op |-> op, ticket |-> t] \in Calls
    BY <2>2 DEF Calls
  <2>4. QED
    BY <1>0, <1>3, <2>1, <2>3
    DEF ReceiveOther, ServiceTypeOK, StoreTypeOK, AuditTypeOK, storeVars, historyVars
<1>4. ASSUME NEW r \in Requests, PatchRead(r)
      PROVE  StoreTypeOK' /\ AuditTypeOK' /\ ServiceTypeOK'
  <2>1. call[r] \in Calls /\ call[r].ticket \in Tickets
    BY <1>0, <1>4 DEF PatchRead, ServiceTypeOK, Calls
  <2>2. tickets[call[r].ticket] \in Row
    BY <1>0, <2>1 DEF StoreTypeOK
  <2>3. AfterRead(call[r].dto) \in {"blockers", "assignee", "write"}
    BY DEF AfterRead, AfterBlockers
  <2>4. StoreTypeOK' /\ AuditTypeOK'
    BY <1>0, <1>4 DEF PatchRead, StoreTypeOK, AuditTypeOK, storeVars
  <2>5. QED
    BY <1>0, <1>4, <2>2, <2>3, <2>4 DEF PatchRead, ServiceTypeOK, historyVars
<1>5. ASSUME NEW r \in Requests, CountBlockers(r)
      PROVE  StoreTypeOK' /\ AuditTypeOK' /\ ServiceTypeOK'
  <2>1. AfterBlockers(call[r].dto) \in {"assignee", "write"}
    BY DEF AfterBlockers
  <2>2. StoreTypeOK' /\ AuditTypeOK'
    BY <1>0, <1>5 DEF CountBlockers, StoreTypeOK, AuditTypeOK, storeVars
  <2>3. cleared' \in [Requests -> SUBSET Tickets]
    BY <1>0, <1>5 DEF CountBlockers, ServiceTypeOK, blockerIdsOf
  <2>4. CASE refuse(r, "409")
    BY <1>0, <1>5, <2>2, <2>3, <2>4 DEF CountBlockers, ServiceTypeOK
  <2>5. CASE goto(r, AfterBlockers(call[r].dto)) /\ UNCHANGED <<call, before>>
    BY <1>0, <1>5, <2>1, <2>2, <2>3, <2>5 DEF CountBlockers, ServiceTypeOK
  <2>6. QED
    BY <1>5, <2>4, <2>5 DEF CountBlockers
<1>6. ASSUME NEW r \in Requests, FindAssignee(r)
      PROVE  StoreTypeOK' /\ AuditTypeOK' /\ ServiceTypeOK'
  BY <1>0, <1>6 DEF FindAssignee, ServiceTypeOK, StoreTypeOK, AuditTypeOK, storeVars, historyVars
<1>7. ASSUME NEW r \in Requests, PatchWrite(r)
      PROVE  StoreTypeOK' /\ AuditTypeOK' /\ ServiceTypeOK'
  <2> DEFINE t == call[r].ticket
             new == Patched(tickets[t], call[r].dto)
  <2>1. call[r] \in Calls /\ call[r].op = "patch" /\ t \in Tickets /\ call[r].dto \in Patches
    BY <1>0, <1>7 DEF PatchWrite, ServiceTypeOK, Calls
  <2>2. tickets[t] \in Row /\ new \in Row /\ new.version \in Nat
    BY <1>0, <2>1, PatchedFacts DEF StoreTypeOK, Row
  <2>3. users' = users /\ StoreTypeOK' /\ AuditTypeOK'
    <3>1. tickets' \in [Tickets -> Row]
      BY <1>0, <1>7, <2>1, <2>2, SetRowType DEF PatchWrite, StoreTypeOK
    <3>2. QED
      BY <1>0, <1>7, <3>1 DEF PatchWrite, StoreTypeOK, AuditTypeOK
  <2>4. CASE record(r, UpdateEntry(r, tickets[t], new)) /\ UNCHANGED call
    BY <1>0, <1>7, <2>1, <2>2, <2>3, <2>4 DEF PatchWrite, ServiceTypeOK, record, UpdateEntry
  <2>5. CASE (refuse(r, "400") \/ refuse(r, "409")) /\ UNCHANGED <<entry, blind>>
    BY <1>0, <1>7, <2>3, <2>5 DEF PatchWrite, ServiceTypeOK
  <2>6. QED
    BY <1>7, <2>4, <2>5 DEF PatchWrite
<1>8. ASSUME NEW r \in Requests, DeleteRead(r) \/ RestoreRead(r)
      PROVE  StoreTypeOK' /\ AuditTypeOK' /\ ServiceTypeOK'
  <2>1. call[r] \in Calls /\ call[r].ticket \in Tickets
    BY <1>0, <1>8 DEF DeleteRead, RestoreRead, ServiceTypeOK, Calls
  <2>2. tickets[call[r].ticket] \in Row
    BY <1>0, <2>1 DEF StoreTypeOK
  <2>3. StoreTypeOK' /\ AuditTypeOK'
    BY <1>0, <1>8 DEF DeleteRead, RestoreRead, StoreTypeOK, AuditTypeOK, storeVars
  <2>4. QED
    BY <1>0, <1>8, <2>2, <2>3 DEF DeleteRead, RestoreRead, ServiceTypeOK, historyVars
<1>9. ASSUME NEW r \in Requests, DeleteWrite(r) \/ RestoreWrite(r)
      PROVE  StoreTypeOK' /\ AuditTypeOK' /\ ServiceTypeOK'
  <2> DEFINE t == call[r].ticket
  <2>1. call[r] \in Calls /\ t \in Tickets
    BY <1>0, <1>9 DEF DeleteWrite, RestoreWrite, ServiceTypeOK, Calls
  <2>2. /\ [tickets[t] EXCEPT !.deleted = TRUE] \in Row
        /\ [tickets[t] EXCEPT !.deleted = FALSE] \in Row
    BY <1>0, <2>1 DEF StoreTypeOK, Row
  <2>3. tickets' \in [Tickets -> Row]
    BY <1>0, <1>9, <2>1, <2>2, SetRowType DEF DeleteWrite, RestoreWrite, StoreTypeOK
  <2>4. StoreTypeOK' /\ AuditTypeOK'
    BY <1>0, <1>9, <2>3 DEF DeleteWrite, RestoreWrite, StoreTypeOK, AuditTypeOK
  <2>5. CASE UNCHANGED call /\ \E a \in {"DELETE", "RESTORE"} : record(r, StateEntry(r, a))
    BY <1>0, <1>9, <2>1, <2>4, <2>5
    DEF DeleteWrite, RestoreWrite, ServiceTypeOK, record, StateEntry, historyVars
  <2>6. CASE refuse(r, "404") /\ UNCHANGED entry
    BY <1>0, <1>9, <2>4, <2>6 DEF DeleteWrite, RestoreWrite, ServiceTypeOK, historyVars
  <2>7. QED
    BY <1>9, <2>5, <2>6 DEF DeleteWrite, RestoreWrite
<1>10. ASSUME NEW r \in Requests, Audit(r)
       PROVE  StoreTypeOK' /\ AuditTypeOK' /\ ServiceTypeOK'
  <2>1. /\ IsEntryOf(r, entry[r]) /\ call[r] \in Calls /\ call[r].ticket \in Tickets
    BY <1>0, <1>10 DEF Audit, ServiceTypeOK, Calls
  <2>2. AuditTypeOK' /\ faults' \in 0..MaxFaults
    BY <1>0, <1>10, <2>1, LogType DEF Audit, StoreTypeOK
  <2>3. QED
    BY <1>0, <1>10, <2>1, <2>2 DEF Audit, StoreTypeOK, ServiceTypeOK, historyVars
<1>11. QED
  BY <1>1, <1>2, <1>3, <1>4, <1>5, <1>6, <1>7, <1>8, <1>9, <1>10 DEF ServiceNext, TypeOK

\* Every step of a cycle keeps the types.
LEMMA EscalationType ==
  ASSUME TypeOK, EscalationNext, UNCHANGED <<requestVars, linkerVars>>
  PROVE  TypeOK'
<1>0. /\ StoreTypeOK /\ AuditTypeOK /\ ServiceTypeOK /\ EscalationTypeOK /\ LinkerTypeOK
  BY DEF TypeOK
<1>1. ServiceTypeOK' /\ LinkerTypeOK'
  BY <1>0 DEF ServiceTypeOK, LinkerTypeOK, linkerVars, requestVars, historyVars, IsEntryOf
<1>2. ASSUME NEW w \in Runners, Scan(w)
      PROVE  StoreTypeOK' /\ AuditTypeOK' /\ EscalationTypeOK'
  <2>1. \A t \in Tickets : SnapshotOf(t) \in Snapshot
    BY <1>0 DEF SnapshotOf, Snapshot, StoreTypeOK, Row
  <2>2. QED
    BY <1>0, <1>2, <2>1 DEF Scan, StoreTypeOK, AuditTypeOK, EscalationTypeOK, storeVars
<1>3. ASSUME NEW w \in Runners, NEW s \in scanned[w], Promote(w, s) \/ MarkOverdue(w, s)
      PROVE  StoreTypeOK' /\ AuditTypeOK' /\ EscalationTypeOK'
  <2> DEFINE up == [tickets[s.id] EXCEPT !.priority = NextPriority[s.priority], !.version = @ + 1]
             flag == [tickets[s.id] EXCEPT !.isOverdue = TRUE, !.version = @ + 1]
  <2>1. s.id \in Tickets /\ s.priority \in Priorities
    BY <1>0 DEF EscalationTypeOK, Snapshot
  <2>2. up \in Row /\ flag \in Row /\ tickets[s.id].version + 1 \in Nat
    <3>1. tickets[s.id] \in Row /\ NextPriority[s.priority] \in Priorities
      BY <1>0, <2>1, LadderFacts DEF StoreTypeOK
    <3>2. tickets[s.id].version + 1 \in Nat
      BY <3>1 DEF Row
    <3>3. up \in Row
      BY <3>1, <3>2 DEF Row
    <3>4. flag \in Row
      BY <3>1, <3>2 DEF Row
    <3>5. QED
      BY <3>2, <3>3, <3>4
  <2>3. \A to \in Priorities :
          EscalationEntry(s, to, tickets[s.id].version + 1) \in EscalationEntries
    BY <2>1, <2>2 DEF EscalationEntry, EscalationEntries
  <2>4. NextPriority[s.priority] \in Priorities /\ "CRITICAL" \in Priorities
    BY <2>1, LadderFacts DEF Priorities
  <2>5. owed' \in [Runners -> EscalationEntries \cup {NoEntry}]
    BY <1>0, <1>3, <2>3, <2>4 DEF Promote, MarkOverdue, Owe, EscalationTypeOK
  <2>6. EscalationTypeOK'
    BY <1>0, <1>3, <2>5 DEF Promote, MarkOverdue, Consume, EscalationTypeOK
  <2>7. tickets' \in [Tickets -> Row]
    BY <1>0, <1>3, <2>1, <2>2, SetRowType DEF Promote, MarkOverdue, StoreTypeOK
  <2>8. QED
    BY <1>0, <1>3, <2>6, <2>7 DEF Promote, MarkOverdue, StoreTypeOK, AuditTypeOK
<1>4. ASSUME NEW w \in Runners, NEW s \in scanned[w], Skip(w, s)
      PROVE  StoreTypeOK' /\ AuditTypeOK' /\ EscalationTypeOK'
  BY <1>0, <1>4 DEF Skip, Consume, StoreTypeOK, AuditTypeOK, EscalationTypeOK, storeVars
<1>5. ASSUME NEW w \in Runners, Abort(w)
      PROVE  StoreTypeOK' /\ AuditTypeOK' /\ EscalationTypeOK'
  BY <1>0, <1>5, StoreAssumption DEF Abort, Owe, StoreTypeOK, AuditTypeOK, EscalationTypeOK
<1>6. ASSUME NEW w \in Runners, LogEscalation(w)
      PROVE  StoreTypeOK' /\ AuditTypeOK' /\ EscalationTypeOK'
  <2>1. owed[w] \in EscalationEntries
    BY <1>0, <1>6 DEF LogEscalation, EscalationTypeOK
  <2>2. AuditTypeOK' /\ faults' \in 0..MaxFaults
    BY <1>0, <1>6, <2>1, LogType DEF LogEscalation, StoreTypeOK, EscalationEntries
  <2>3. QED
    BY <1>0, <1>6, <2>2 DEF LogEscalation, Owe, StoreTypeOK, EscalationTypeOK
<1>7. QED
  BY <1>1, <1>2, <1>3, <1>4, <1>5, <1>6 DEF EscalationNext, Work, TypeOK

\* Every step of a linker keeps the types.
LEMMA LinkerType ==
  ASSUME TypeOK, LinkerNext, UNCHANGED <<requestVars, escalationVars>>
  PROVE  TypeOK'
<1>0. /\ StoreTypeOK /\ AuditTypeOK /\ ServiceTypeOK /\ EscalationTypeOK /\ LinkerTypeOK
  BY DEF TypeOK
<1>1. ServiceTypeOK' /\ EscalationTypeOK'
  BY <1>0 DEF ServiceTypeOK, EscalationTypeOK, requestVars, historyVars, escalationVars, IsEntryOf
<1> USE DEF lgoto, LPCs
<1>2. ASSUME NEW l \in Linkers,
             ReceiveAdd(l) \/ ReceiveRemove(l) \/ FindTicket(l)
      PROVE  StoreTypeOK' /\ AuditTypeOK' /\ LinkerTypeOK'
  BY <1>0, <1>2
  DEF ReceiveAdd, ReceiveRemove, FindTicket, LinkerTypeOK, StoreTypeOK, AuditTypeOK, storeVars
<1>3. ASSUME NEW l \in Linkers, FindBlocker(l) \/ Walk(l)
      PROVE  StoreTypeOK' /\ AuditTypeOK' /\ LinkerTypeOK'
  <2>1. edge[l][2] \in Tickets
    BY <1>0, <1>3, LinkerAssumption DEF FindBlocker, Walk, LinkerTypeOK
  <2>2. StoreTypeOK' /\ AuditTypeOK'
    BY <1>0, <1>3 DEF FindBlocker, Walk, StoreTypeOK, AuditTypeOK, storeVars
  <2>3. CASE FindBlocker(l)
    BY <1>0, <2>1, <2>2, <2>3 DEF FindBlocker, LinkerTypeOK
  <2>4. CASE Walk(l)
    <3>1. edge' = edge /\ stale' = stale /\ staleInsert' = staleInsert
      BY <2>4 DEF Walk
    <3>2. lpc' \in [Linkers -> LPCs] /\ \A m \in Linkers : lpc'[m] # "new" => lpc[m] # "new"
      BY <1>0, <2>4 DEF Walk, LinkerTypeOK
    <3>3. stack' \in [Linkers -> SUBSET Tickets]
      <4>1. stack \in [Linkers -> SUBSET Tickets]
        BY <1>0 DEF LinkerTypeOK
      <4>2. \A n : blockerIdsOf(n) \subseteq Tickets
        BY DEF blockerIdsOf
      <4>3. \E S \in SUBSET Tickets : stack' = stack \/ stack' = [stack EXCEPT ![l] = S]
        BY <2>4, <4>1, <4>2 DEF Walk
      <4>4. QED
        BY <4>1, <4>3
    <3>4. visited' \in [Linkers -> SUBSET Tickets]
      BY <1>0, <2>4 DEF Walk, LinkerTypeOK
    <3>5. QED
      BY <1>0, <2>2, <3>1, <3>2, <3>3, <3>4 DEF LinkerTypeOK
  <2>5. QED
    BY <1>3, <2>3, <2>4
<1>4. ASSUME NEW l \in Linkers, Insert(l) \/ Remove(l)
      PROVE  StoreTypeOK' /\ AuditTypeOK' /\ LinkerTypeOK'
  <2>1. edge[l] \in Tickets \X Tickets
    BY <1>0, <1>4, LinkerAssumption DEF Insert, Remove, LinkerTypeOK
  <2>2. AuditTypeOK' /\ faults' \in 0..MaxFaults
    <3>1. CASE UNCHANGED <<audit, faults>>
      BY <1>0, <3>1 DEF AuditTypeOK, StoreTypeOK
    <3>2. CASE \E a \in {"CREATE", "DELETE"} : Log(EdgeEntry(l, a))
      BY <1>0, <2>1, <3>2, LogType DEF StoreTypeOK, EdgeEntry
    <3>3. QED
      BY <1>4, <3>1, <3>2 DEF Insert, Remove
  <2>3. StoreTypeOK'
    BY <1>0, <1>4, <2>1, <2>2 DEF Insert, Remove, StoreTypeOK
  <2>4. LinkerTypeOK'
    BY <1>0, <1>4 DEF Insert, Remove, LinkerTypeOK, Missed
  <2>5. QED
    BY <2>2, <2>3, <2>4
<1>5. QED
  BY <1>1, <1>2, <1>3, <1>4 DEF LinkerNext, TypeOK

\* No step breaks a type.
LEMMA TypeStep == TypeOK /\ [Next]_vars => TypeOK'
<1> SUFFICES ASSUME TypeOK, [Next]_vars PROVE TypeOK'
  OBVIOUS
<1>1. CASE (Tick \/ DeleteUser) /\ UNCHANGED <<requestVars, escalationVars, linkerVars>>
  <2>1. tickets' \in [Tickets -> Row]
    BY <1>1, UnassignType DEF Tick, DeleteUser, TypeOK, StoreTypeOK
  <2>4. StoreTypeOK' /\ AuditTypeOK'
    BY <1>1, <2>1, StoreAssumption DEF Tick, DeleteUser, TypeOK, StoreTypeOK, AuditTypeOK
  <2>2. ServiceTypeOK' /\ EscalationTypeOK' /\ LinkerTypeOK'
    BY <1>1
    DEF TypeOK, ServiceTypeOK, EscalationTypeOK, LinkerTypeOK, requestVars, historyVars,
        escalationVars, linkerVars, IsEntryOf
  <2>3. QED
    BY <2>2, <2>4 DEF TypeOK
<1>2. CASE UNCHANGED vars
  BY <1>2
  DEF vars, storeVars, TypeOK, StoreTypeOK, AuditTypeOK, ServiceTypeOK, EscalationTypeOK,
      LinkerTypeOK, requestVars, historyVars, escalationVars, linkerVars, IsEntryOf
<1>3. QED
  BY <1>1, <1>2, ServiceType, EscalationType, LinkerType DEF Next

\* Type correctness: every variable of the three services and of the tables they
\* share keeps its type; in particular a row only ever holds statuses and
\* priorities of the enums (the ladder never runs off its end).
THEOREM TypeCorrect == Spec => []TypeOK
BY InitType, TypeStep, PTL DEF Spec

-----------------------------------------------------------------------------
\* Counting: a set that gains at most one element, one that gains it, one that gains none.
LEMMA AtMostOneMore ==
  ASSUME NEW S, IsFiniteSet(S), NEW T, NEW x, T \subseteq S \cup {x}
  PROVE  /\ IsFiniteSet(T) /\ Cardinality(T) \in Nat /\ Cardinality(S) \in Nat
         /\ Cardinality(T) <= Cardinality(S) + 1
<1>1. IsFiniteSet(S \cup {x}) /\ Cardinality(S \cup {x}) <= Cardinality(S) + 1
      /\ Cardinality(S) \in Nat
  <2>1. Cardinality(S) \in Nat
    BY FS_CardinalityType
  <2>2. QED
    BY <2>1, FS_AddElement
<1>2. IsFiniteSet(T) /\ Cardinality(T) <= Cardinality(S \cup {x})
  BY <1>1, FS_Subset
<1>3. Cardinality(T) \in Nat /\ Cardinality(S \cup {x}) \in Nat
  BY <1>1, <1>2, FS_CardinalityType
<1>4. QED
  BY <1>1, <1>2, <1>3

LEMMA OneMore ==
  ASSUME NEW S, IsFiniteSet(S), NEW x, x \notin S
  PROVE  /\ IsFiniteSet(S \cup {x}) /\ Cardinality(S) \in Nat
         /\ Cardinality(S \cup {x}) = Cardinality(S) + 1
BY FS_AddElement, FS_CardinalityType

LEMMA NoMore ==
  ASSUME NEW S, IsFiniteSet(S), NEW T, T \subseteq S
  PROVE  /\ IsFiniteSet(T) /\ Cardinality(T) \in Nat /\ Cardinality(S) \in Nat
         /\ Cardinality(T) <= Cardinality(S)
BY FS_Subset, FS_CardinalityType
=============================================================================
