--------------------------- MODULE LifecycleProofs ---------------------------
(***************************************************************************)
(* Optimistic locking and the ticket lifecycle, for any number of tickets, *)
(* requests, runners and linkers.                                          *)
(*                                                                         *)
(* A request checks the lifecycle rules on the row it read and writes      *)
(* several awaits later, guarded by the version its client sent.  The      *)
(* rules still hold when it writes if that version is the one it read:     *)
(* versions only grow, and a row of the same version is the same row, but  *)
(* for the mark of deletion and an assignee who is gone.  An update with   *)
(* another version is blind; clients that send only versions they were     *)
(* given make none.                                                        *)
(*                                                                         *)
(* Three properties count.  Each step that makes a version owes or writes  *)
(* its entry, and a step that loses one spends a fault; each step that     *)
(* deletes a ticket has one DELETE that goes through, or fewer restores;   *)
(* and an escalation costs a potential, which only updates of users        *)
(* refill.  A sum over the rows or the requests is never needed: the       *)
(* finite sets that are counted grow by at most one element a step.        *)
(***************************************************************************)
EXTENDS TypeProofs

\* The row new is the row old, but that it may have been deleted or restored, or have
\* lost its assignee, one of the users in gone.
Kept(old, new, gone) ==
  /\ new.status = old.status /\ new.priority = old.priority
  /\ new.isOverdue = old.isOverdue /\ new.dueDate = old.dueDate
  /\ \/ new.assigneeId = old.assigneeId
     \/ new.assigneeId = NoUser /\ old.assigneeId \in gone

\* What a step may do to a row: a change of content takes a new version.
VersionGrows ==
  /\ users' \subseteq users
  /\ \A t \in Tickets :
       /\ tickets'[t].version >= tickets[t].version
       /\ tickets'[t].version = tickets[t].version
            => Kept(tickets[t], tickets'[t], Users \ users')

Waiting == {"blockers", "assignee", "write"}

\* A version that was written stays behind.
WonInv ==
  \A r \in Requests : Wrote(r, "patch") => call[r].token < tickets[call[r].ticket].version

\* What an update that has read its row and passed its checks can rely on.
ReadInv ==
  \A r \in Requests :
    pc[r] \in Waiting /\ call[r].op = "patch" =>
      LET row == tickets[call[r].ticket]
          dto == call[r].dto
      IN /\ before[r].version <= row.version
         /\ before[r].version = row.version => Kept(before[r], row, Users \ users)
         /\ before[r].status # "DONE" /\ ~before[r].deleted
         /\ LegalTransition(before[r].status, Sent(dto, "status", before[r].status))

\* The requests that wrote over a version they had not read have written.
BlindInv == \A r \in blind : Wrote(r, "patch")

\* Of clients that send only versions they were given: their version is one the row has
\* had, the one that was read or an earlier one; and no update is blind.
HonestInv ==
  /\ \A r \in Requests : pc[r] \notin {"new"} \cup Refusals /\ call[r].op = "patch" =>
       /\ call[r].token <= tickets[call[r].ticket].version
       /\ pc[r] \in Waiting => call[r].token <= before[r].version
  /\ blind = {}

LockInv == ReadInv /\ BlindInv

-----------------------------------------------------------------------------
\* A request that was received and not refused has a call, on a ticket of the table.
LEMMA CallFacts ==
  ASSUME TypeOK, NEW r \in Requests, pc[r] \notin {"new"} \cup Refusals
  PROVE  /\ call[r] \in Calls /\ call[r].ticket \in Tickets
         /\ tickets[call[r].ticket] \in Row /\ tickets[call[r].ticket].version \in Nat
         /\ call[r].op = "patch" => call[r].dto \in Patches /\ call[r].token \in Nat
BY DEF TypeOK, ServiceTypeOK, StoreTypeOK, Calls, Row

\* What one write of a row may be, for the version to grow.
LEMMA SetRowGrows ==
  ASSUME TypeOK, NEW t \in Tickets, NEW row \in Row, SetRow(t, row), users' = users,
         \/ row.version = tickets[t].version + 1
         \/ row.version = tickets[t].version /\ Kept(tickets[t], row, {})
  PROVE  VersionGrows
BY DEF SetRow, VersionGrows, Kept, TypeOK, StoreTypeOK, Row

\* The effect on a row of the two escalation branches.
LEMMA EscalatedFacts ==
  ASSUME TypeOK, NEW w \in Runners, NEW s \in scanned[w]
  PROVE  /\ s.id \in Tickets /\ s.priority \in Priorities
         /\ tickets[s.id] \in Row
         /\ [tickets[s.id] EXCEPT !.priority = NextPriority[s.priority], !.version = @ + 1] \in Row
         /\ [tickets[s.id] EXCEPT !.isOverdue = TRUE, !.version = @ + 1] \in Row
         /\ [tickets[s.id] EXCEPT !.priority = NextPriority[s.priority], !.version = @ + 1].version
              = tickets[s.id].version + 1
         /\ [tickets[s.id] EXCEPT !.isOverdue = TRUE, !.version = @ + 1].version
              = tickets[s.id].version + 1
<1>1. s.id \in Tickets /\ s.priority \in Priorities
  BY DEF TypeOK, EscalationTypeOK, Snapshot
<1>2. tickets[s.id] \in Row /\ NextPriority[s.priority] \in Priorities
  BY <1>1, LadderFacts DEF TypeOK, StoreTypeOK
<1>3. tickets[s.id].version + 1 \in Nat
  BY <1>2 DEF Row
<1>4. [tickets[s.id] EXCEPT !.priority = NextPriority[s.priority], !.version = @ + 1] \in Row
  BY <1>2, <1>3 DEF Row
<1>5. [tickets[s.id] EXCEPT !.isOverdue = TRUE, !.version = @ + 1] \in Row
  BY <1>2, <1>3 DEF Row
<1>6. QED
  BY <1>1, <1>2, <1>4, <1>5 DEF Row

\* A deletion and a restore yield a row of the same version and content.
LEMMA DeletedFacts ==
  ASSUME NEW row \in Row, NEW d \in BOOLEAN
  PROVE  /\ [row EXCEPT !.deleted = d] \in Row
         /\ [row EXCEPT !.deleted = d].version = row.version
         /\ [row EXCEPT !.deleted = d].status = row.status
         /\ Kept(row, [row EXCEPT !.deleted = d], {})
         /\ row.deleted = d => [row EXCEPT !.deleted = d] = row
BY DEF Row, Kept

\* The deletion of a user takes the user off the tickets, and does nothing else to them.
LEMMA UnassignFacts ==
  ASSUME TypeOK, DeleteUser, NEW t \in Tickets
  PROVE  /\ users' \subseteq users
         /\ tickets'[t].version = tickets[t].version
         /\ tickets'[t].deleted = tickets[t].deleted
         /\ Kept(tickets[t], tickets'[t], Users \ users')
<1>1. PICK u \in users :
        /\ users' = users \ {u}
        /\ tickets' = [x \in Tickets |->
             [tickets[x] EXCEPT !.assigneeId = IF @ = u THEN NoUser ELSE @]]
  BY DEF DeleteUser
<1>2. /\ tickets[t] \in Row /\ u \in Users
      /\ tickets'[t] = [tickets[t] EXCEPT !.assigneeId = IF @ = u THEN NoUser ELSE @]
  BY <1>1 DEF TypeOK, StoreTypeOK
<1>3. QED
  BY <1>1, <1>2 DEF Row, Kept

\* No step takes a version back or changes content without one: updates and
\* escalations bump, deletion and restore touch neither, nor does a user's deletion
\* beyond the assignee.
LEMMA VersionsGrow == TypeOK /\ [Next]_vars => VersionGrows
<1> SUFFICES ASSUME TypeOK, [Next]_vars PROVE VersionGrows
  OBVIOUS
<1>1. CASE UNCHANGED <<tickets, users>>
  BY <1>1 DEF VersionGrows, Kept, TypeOK, StoreTypeOK, Row
<1>2. ASSUME NEW r \in Requests, PatchWrite(r) PROVE VersionGrows
  <2> DEFINE new == Patched(tickets[call[r].ticket], call[r].dto)
  <2>1. CASE SetRow(call[r].ticket, new)
    <3>1. /\ call[r].ticket \in Tickets /\ tickets[call[r].ticket] \in Row
          /\ call[r].dto \in Patches
      BY <1>2, CallFacts DEF PatchWrite, Refusals
    <3>2. new \in Row /\ new.version = tickets[call[r].ticket].version + 1
      BY <3>1, PatchedFacts
    <3>3. users' = users
      BY <1>2 DEF PatchWrite
    <3>4. QED
      BY <2>1, <3>1, <3>2, <3>3, SetRowGrows
  <2>2. QED
    BY <1>1, <1>2, <2>1 DEF PatchWrite
<1>3. ASSUME NEW r \in Requests, DeleteWrite(r) \/ RestoreWrite(r) PROVE VersionGrows
  <2> DEFINE row == tickets[call[r].ticket]
  <2>1. call[r].ticket \in Tickets /\ row \in Row /\ users' = users
    BY <1>3, CallFacts DEF DeleteWrite, RestoreWrite, Refusals
  <2>2. \A d \in BOOLEAN : SetRow(call[r].ticket, [row EXCEPT !.deleted = d]) => VersionGrows
    BY <2>1, DeletedFacts, SetRowGrows
  <2>3. QED
    BY <1>1, <1>3, <2>2 DEF DeleteWrite, RestoreWrite
<1>4. ASSUME NEW w \in Runners, NEW s \in scanned[w], Promote(w, s) \/ MarkOverdue(w, s)
      PROVE  VersionGrows
  BY <1>1, <1>4, EscalatedFacts, SetRowGrows DEF Promote, MarkOverdue
<1>5. CASE LinkerNext
  BY <1>1, <1>5 DEF LinkerNext, ReceiveAdd, FindTicket, FindBlocker, Walk, Insert,
     ReceiveRemove, Remove, storeVars
<1>6. CASE DeleteUser
  <2>1. \A t \in Tickets : tickets[t].version \in Nat
    BY DEF TypeOK, StoreTypeOK, Row
  <2>2. users' \subseteq users
    BY <1>6 DEF DeleteUser
  <2>3. \A t \in Tickets : /\ tickets'[t].version = tickets[t].version
                            /\ Kept(tickets[t], tickets'[t], Users \ users')
    BY <1>6, UnassignFacts
  <2>4. \A t \in Tickets : tickets'[t].version >= tickets[t].version
    BY <2>1, <2>3
  <2>5. QED
    BY <2>2, <2>3, <2>4 DEF VersionGrows
<1>7. QED
  BY <1>1, <1>2, <1>3, <1>4, <1>5, <1>6
  DEF Next, vars, storeVars, Tick, ServiceNext, ReceivePatch, ReceiveOther, PatchRead,
      CountBlockers, FindAssignee, DeleteRead, RestoreRead, Audit, EscalationNext, Scan, Work,
      Skip, LogEscalation, Abort

\* The steps of a request's handler, but for the last one.
Handles(r) ==
  \/ ReceivePatch(r) \/ ReceiveOther(r) \/ PatchRead(r) \/ CountBlockers(r)
  \/ FindAssignee(r) \/ PatchWrite(r) \/ DeleteRead(r) \/ DeleteWrite(r)
  \/ RestoreRead(r) \/ RestoreWrite(r)

\* A step of one request leaves the others where they are.
LEMMA OthersStay ==
  ASSUME TypeOK, NEW r \in Requests, Handles(r) \/ Audit(r), NEW q \in Requests \ {r}
  PROVE  /\ pc'[q] = pc[q] /\ call'[q] = call[q] /\ before'[q] = before[q]
         /\ entry'[q] = entry[q]
<1>1. CASE Audit(r)
  BY <1>1 DEF TypeOK, ServiceTypeOK, goto, Audit
<1>2. CASE ReceivePatch(r) \/ ReceiveOther(r) \/ PatchRead(r) \/ CountBlockers(r)
           \/ FindAssignee(r) \/ DeleteRead(r) \/ RestoreRead(r)
  BY <1>2
  DEF TypeOK, ServiceTypeOK, goto, refuse, ReceivePatch, ReceiveOther, PatchRead,
      CountBlockers, FindAssignee, DeleteRead, RestoreRead
<1>3. CASE PatchWrite(r) \/ DeleteWrite(r) \/ RestoreWrite(r)
  BY <1>3
  DEF TypeOK, ServiceTypeOK, goto, refuse, record, PatchWrite, DeleteWrite, RestoreWrite
<1>4. QED
  BY <1>1, <1>2, <1>3 DEF Handles

\* A step leaves each request where it is or moves it by one of its handler's steps.
LEMMA RequestSteps ==
  ASSUME TypeOK, [Next]_vars, NEW r \in Requests
  PROVE  \/ /\ pc'[r] = pc[r] /\ call'[r] = call[r] /\ before'[r] = before[r]
            /\ entry'[r] = entry[r]
         \/ Handles(r) \/ Audit(r)
<1>1. CASE UNCHANGED requestVars
  BY <1>1 DEF requestVars
<1>2. CASE ServiceNext
  <2>1. PICK q \in Requests : Handles(q) \/ Audit(q)
    BY <1>2 DEF ServiceNext, Handles
  <2>2. CASE q = r
    BY <2>1, <2>2
  <2>3. CASE q # r
    BY <2>1, <2>3, OthersStay
  <2>4. QED
    BY <2>2, <2>3
<1>3. QED
  BY <1>1, <1>2 DEF Next, vars

\* A handler's step that does not refuse the request keeps what it asked for; only a
\* write brings it to the point where it has written.
LEMMA HandlerSteps ==
  ASSUME TypeOK, NEW r \in Requests, Handles(r)
  PROVE  /\ pc[r] \notin {"audit", "200"} \cup Refusals
         /\ pc[r] # "new" /\ pc'[r] \notin Refusals => call'[r] = call[r]
         /\ pc[r] = "new" => pc'[r] \in {"read"} \cup Refusals
         /\ pc'[r] \in {"audit", "200"} =>
              /\ PatchWrite(r) \/ DeleteWrite(r) \/ RestoreWrite(r)
              /\ pc'[r] = "audit" /\ call' = call
         /\ pc'[r] # "new"
<1> USE DEF goto, refuse, Refusals
<1>0. pc \in [Requests -> PCs] /\ call \in [Requests -> Calls \cup {NoCall}]
  BY DEF TypeOK, ServiceTypeOK
<1>1. CASE ReceivePatch(r) \/ ReceiveOther(r)
  BY <1>0, <1>1 DEF ReceivePatch, ReceiveOther
<1>2. CASE PatchRead(r) \/ CountBlockers(r) \/ FindAssignee(r)
  BY <1>0, <1>2 DEF PatchRead, CountBlockers, FindAssignee, AfterRead, AfterBlockers
<1>3. CASE DeleteRead(r) \/ RestoreRead(r)
  BY <1>0, <1>3 DEF DeleteRead, RestoreRead
<1>4. CASE PatchWrite(r)
  BY <1>0, <1>4 DEF PatchWrite, record
<1>5. CASE DeleteWrite(r) \/ RestoreWrite(r)
  BY <1>0, <1>5 DEF DeleteWrite, RestoreWrite, record
<1>6. QED
  BY <1>1, <1>2, <1>3, <1>4, <1>5 DEF Handles

\* A request whose statement went through stays one, and keeps its call.
LEMMA WroteStays ==
  ASSUME TypeOK, [Next]_vars, NEW r \in Requests, NEW op, Wrote(r, op)
  PROVE  Wrote(r, op)' /\ call'[r] = call[r]
<1>1. CASE pc'[r] = pc[r] /\ call'[r] = call[r]
  BY <1>1 DEF Wrote
<1>2. CASE Audit(r)
  BY <1>2 DEF Wrote, Audit, goto, TypeOK, ServiceTypeOK
<1>3. CASE Handles(r)
  BY <1>3, HandlerSteps DEF Wrote
<1>4. QED
  BY <1>1, <1>2, <1>3, RequestSteps

\* A request whose PATCH went through did so before, or is the one that writes in this
\* step: its version matched, and the row moves on from it.
LEMMA WinningStep ==
  ASSUME TypeOK, [Next]_vars, NEW r \in Requests, Wrote(r, "patch")'
  PROVE  /\ call'[r] = call[r] /\ pc[r] \notin {"new"} \cup Refusals /\ call[r].op = "patch"
         /\ \/ Wrote(r, "patch")
            \/ /\ ~Wrote(r, "patch")
               /\ \A q \in Requests \ {r} : pc'[q] = pc[q] /\ call'[q] = call[q]
               /\ PatchWrite(r)
               /\ VersionMatches(call[r].ticket, call[r].token)
               /\ SetRow(call[r].ticket, Patched(tickets[call[r].ticket], call[r].dto))
<1>1. pc'[r] \in {"audit", "200"} /\ call'[r].op = "patch"
  BY DEF Wrote
<1>2. CASE pc'[r] = pc[r] /\ call'[r] = call[r]
  BY <1>1, <1>2 DEF Wrote, Refusals
<1>3. CASE Audit(r)
  BY <1>1, <1>3 DEF Wrote, Audit, Refusals
<1>4. CASE Handles(r)
  <2>1. /\ PatchWrite(r) \/ DeleteWrite(r) \/ RestoreWrite(r)
        /\ pc'[r] = "audit" /\ call' = call
    BY <1>1, <1>4, HandlerSteps
  <2>2. PatchWrite(r)
    BY <1>1, <2>1 DEF DeleteWrite, RestoreWrite
  <2>3. /\ VersionMatches(call[r].ticket, call[r].token)
        /\ SetRow(call[r].ticket, Patched(tickets[call[r].ticket], call[r].dto))
    BY <2>1, <2>2 DEF PatchWrite, refuse, goto, TypeOK, ServiceTypeOK
  <2>4. QED
    BY <1>1, <1>4, <2>1, <2>2, <2>3, OthersStay DEF PatchWrite, Wrote, Refusals
<1>5. QED
  BY <1>2, <1>3, <1>4, RequestSteps

\* A written version stays behind.
LEMMA WonStep == TypeOK /\ WonInv /\ [Next]_vars => WonInv'
<1> SUFFICES ASSUME TypeOK, WonInv, [Next]_vars, NEW r \in Requests, Wrote(r, "patch")'
             PROVE  call'[r].token < tickets'[call'[r].ticket].version
  BY DEF WonInv
<1> DEFINE t == call[r].ticket
<1>1. /\ call'[r] = call[r] /\ t \in Tickets /\ call[r].token \in Nat
      /\ tickets[t] \in Row /\ call[r].dto \in Patches
  BY WinningStep, CallFacts
<1>2. tickets'[t].version >= tickets[t].version /\ tickets[t].version \in Nat
  BY <1>1, VersionsGrow DEF VersionGrows, Row
<1>3. tickets' \in [Tickets -> Row]
  BY TypeStep DEF TypeOK, StoreTypeOK
<1>4. tickets'[t].version \in Nat
  BY <1>1, <1>3 DEF Row
<1>5. CASE Wrote(r, "patch")
  BY <1>1, <1>2, <1>4, <1>5 DEF WonInv
<1>6. CASE ~Wrote(r, "patch")
  <2>1. /\ tickets[t].version = call[r].token
        /\ SetRow(t, Patched(tickets[t], call[r].dto))
    BY <1>6, WinningStep DEF VersionMatches
  <2>2. tickets'[t].version = tickets[t].version + 1
    BY <1>1, <2>1, PatchedFacts DEF SetRow, TypeOK, StoreTypeOK
  <2>3. QED
    BY <1>1, <1>2, <2>1, <2>2
<1>7. QED
  BY <1>5, <1>6

\* Two clients that hold the same version of a ticket cannot both succeed with an
\* update: the winner of a version leaves the row beyond it (updateWithVersionCheck).
\* It holds of clients that guess versions too.
THEOREM OneWinner == Spec => []OneWinnerPerVersion
<1>1. Init => WonInv /\ OneWinnerPerVersion
  BY DEF Init, ServiceInit, WonInv, OneWinnerPerVersion, Wrote
<1>2. ASSUME TypeOK, WonInv, OneWinnerPerVersion, [Next]_vars
      PROVE  OneWinnerPerVersion'
  <2> SUFFICES ASSUME NEW r \in Requests, NEW q \in Requests, r # q,
                      Wrote(r, "patch")', Wrote(q, "patch")',
                      call'[r].ticket = call'[q].ticket
               PROVE  call'[r].token # call'[q].token
    BY DEF OneWinnerPerVersion
  <2>1. call'[r] = call[r] /\ call'[q] = call[q]
    BY <1>2, WinningStep
  <2>2. \A u \in Requests : Wrote(u, "patch")' =>
           /\ call[u].token \in Nat
           /\ tickets[call[u].ticket].version \in Nat
    BY <1>2, WinningStep, CallFacts
  <2>3. CASE Wrote(r, "patch") /\ Wrote(q, "patch")
    BY <1>2, <2>1, <2>3 DEF OneWinnerPerVersion
  <2>4. ASSUME NEW u \in Requests, NEW v \in Requests, Wrote(u, "patch"), Wrote(u, "patch")',
               ~Wrote(v, "patch"), Wrote(v, "patch")', call[u].ticket = call[v].ticket
        PROVE  call[u].token # call[v].token
    <3>1. call[u].token < tickets[call[u].ticket].version
      BY <1>2, <2>4 DEF WonInv
    <3>2. call[v].token = tickets[call[v].ticket].version
      BY <1>2, <2>4, WinningStep DEF VersionMatches
    <3>3. QED
      BY <2>2, <2>4, <3>1, <3>2
  <2>5. CASE ~Wrote(r, "patch") /\ ~Wrote(q, "patch")
    BY <1>2, <2>5, WinningStep DEF Wrote
  <2>6. QED
    BY <2>1, <2>3, <2>4, <2>5
<1>3. QED
  BY <1>1, <1>2, WonStep, TypeCorrect, PTL DEF Spec

-----------------------------------------------------------------------------
\* An UPDATE with a version that is not the one its request has read and checked.
BlindWrite(r) ==
  /\ PatchWrite(r) /\ VersionMatches(call[r].ticket, call[r].token)
  /\ SetRow(call[r].ticket, Patched(tickets[call[r].ticket], call[r].dto))
  /\ call[r].token # before[r].version
  /\ pc'[r] = "audit" /\ call' = call /\ blind' = blind \cup {r}

\* No other step makes a request blind.
LEMMA BlindSteps ==
  ASSUME TypeOK, [Next]_vars
  PROVE  blind' = blind \/ \E r \in Requests : BlindWrite(r)
<1>1. ASSUME NEW r \in Requests, PatchWrite(r)
      PROVE  blind' = blind \/ BlindWrite(r)
  BY <1>1 DEF PatchWrite, BlindWrite, record, goto, TypeOK, ServiceTypeOK
<1>2. QED
  BY <1>1
  DEF Next, vars, requestVars, historyVars, ServiceNext, ReceivePatch, ReceiveOther, PatchRead,
      CountBlockers, FindAssignee, DeleteRead, DeleteWrite, RestoreRead, RestoreWrite, Audit,
      EscalationNext, LinkerNext

\* What an update can rely on from its read to its write, whatever others do.
LEMMA ReadStep == TypeOK /\ ReadInv /\ [Next]_vars => ReadInv'
<1> SUFFICES ASSUME TypeOK, ReadInv, [Next]_vars,
                    NEW r \in Requests, pc'[r] \in Waiting, call'[r].op = "patch"
             PROVE  LET row == tickets'[call'[r].ticket]
                        dto == call'[r].dto
                    IN /\ before'[r].version <= row.version
                       /\ before'[r].version = row.version => Kept(before'[r], row, Users \ users')
                       /\ before'[r].status # "DONE" /\ ~before'[r].deleted
                       /\ LegalTransition(before'[r].status, Sent(dto, "status", before'[r].status))
  BY DEF ReadInv
<1> DEFINE t == call[r].ticket
<1>1. CASE PatchRead(r)
  <2>1. pc[r] = "read" /\ tickets' = tickets
    BY <1>1 DEF PatchRead, storeVars
  <2>2. call' = call /\ before'[r] = tickets[t]
        /\ tickets[t].status # "DONE" /\ ~tickets[t].deleted
        /\ LegalTransition(tickets[t].status, Sent(call[r].dto, "status", tickets[t].status))
    BY <1>1 DEF PatchRead, refuse, Refusals, goto, Waiting, TypeOK, ServiceTypeOK
  <2>3. tickets[t].version \in Nat
    BY <2>1, CallFacts DEF Refusals
  <2>4. QED
    BY <2>1, <2>2, <2>3 DEF Kept
<1>2. CASE call'[r] = call[r] /\ before'[r] = before[r] /\ pc[r] \in Waiting
  <2> DEFINE old == tickets[t]
             new == tickets'[t]
  <2>1. t \in Tickets /\ old.version \in Nat
    BY <1>2, CallFacts DEF Waiting, Refusals
  <2>2. /\ new.version >= old.version
        /\ new.version = old.version => Kept(old, new, Users \ users')
        /\ new.version \in Nat /\ users' \subseteq users
    BY <2>1, VersionsGrow, TypeStep DEF VersionGrows, TypeOK, StoreTypeOK, Row
  <2>3. before[r].version \in Nat
    BY <1>2 DEF TypeOK, ServiceTypeOK, Waiting, Row
  <2>4. /\ before[r].version <= old.version
        /\ before[r].version = old.version => Kept(before[r], old, Users \ users)
        /\ before[r].status # "DONE" /\ ~before[r].deleted
        /\ LegalTransition(before[r].status, Sent(call[r].dto, "status", before[r].status))
    BY <1>2 DEF ReadInv
  <2>5. Kept(before[r], old, Users \ users) /\ Kept(old, new, Users \ users')
          => Kept(before[r], new, Users \ users')
    BY <2>2 DEF Kept
  <2> HIDE DEF old, new
  <2>6. /\ before[r].version <= new.version
        /\ before[r].version = new.version => Kept(before[r], new, Users \ users')
    BY <2>1, <2>2, <2>3, <2>4, <2>5
  <2>7. QED
    BY <1>2, <2>4, <2>6 DEF new
<1>3. CASE CountBlockers(r) \/ FindAssignee(r)
  BY <1>2, <1>3
  DEF CountBlockers, FindAssignee, refuse, goto, Waiting, TypeOK, ServiceTypeOK
<1>4. CASE ReceivePatch(r) \/ ReceiveOther(r) \/ PatchWrite(r) \/ DeleteWrite(r) \/ RestoreWrite(r)
  BY <1>4
  DEF ReceivePatch, ReceiveOther, PatchWrite, DeleteWrite, RestoreWrite, refuse, record, goto,
      Waiting, TypeOK, ServiceTypeOK
<1>5. CASE DeleteRead(r) \/ RestoreRead(r)
  BY <1>5 DEF DeleteRead, RestoreRead, refuse, goto, Waiting, TypeOK, ServiceTypeOK
<1>6. CASE Audit(r)
  BY <1>6 DEF Audit, goto, Waiting, TypeOK, ServiceTypeOK
<1>7. QED
  BY <1>1, <1>2, <1>3, <1>4, <1>5, <1>6, RequestSteps DEF Handles

\* A request stays blind.
LEMMA BlindStep == TypeOK /\ BlindInv /\ [Next]_vars => BlindInv'
<1> SUFFICES ASSUME TypeOK, BlindInv, [Next]_vars, NEW r \in blind' PROVE Wrote(r, "patch")'
  BY DEF BlindInv
<1>1. CASE r \in blind
  BY <1>1, WroteStays DEF BlindInv, TypeOK, ServiceTypeOK
<1>2. CASE BlindWrite(r)
  BY <1>2 DEF BlindWrite, PatchWrite, Wrote
<1>3. QED
  BY <1>1, <1>2, BlindSteps DEF BlindWrite

\* The invariant that the theorems below rest on.
LEMMA Lock == Spec => [](TypeOK /\ LockInv)
<1>1. Init => LockInv
  BY DEF Init, ServiceInit, LockInv, ReadInv, BlindInv, Waiting
<1>2. TypeOK /\ LockInv /\ [Next]_vars => LockInv'
  BY ReadStep, BlindStep DEF LockInv
<1>3. QED
  BY <1>1, <1>2, TypeCorrect, PTL DEF Spec

\* An update that goes through with the version its request has read meets the row on
\* which the checks were made.
LEMMA WriteIsChecked ==
  ASSUME TypeOK, ReadInv, NEW r \in Requests, PatchWrite(r),
         VersionMatches(call[r].ticket, call[r].token), call[r].token = before[r].version
  PROVE  LET row == tickets[call[r].ticket]
         IN /\ ~row.deleted /\ row.status # "DONE"
            /\ LegalTransition(row.status, Sent(call[r].dto, "status", row.status))
            /\ Kept(before[r], row, Users \ users)
            /\ before[r].version = row.version /\ ~before[r].deleted
<1> DEFINE row == tickets[call[r].ticket]
<1>1. ~row.deleted /\ row.version = before[r].version
  BY DEF VersionMatches
<1>2. /\ Kept(before[r], row, Users \ users)
      /\ before[r].status # "DONE" /\ ~before[r].deleted
      /\ LegalTransition(before[r].status, Sent(call[r].dto, "status", before[r].status))
  BY <1>1 DEF PatchWrite, ReadInv, Waiting
<1>3. before[r].status = row.status
  BY <1>2 DEF Kept
<1>4. QED
  BY <1>1, <1>2, <1>3

\* Every step of the system is one operation of the contract, or none, or a blind write.
LEMMA ContractStep ==
  ASSUME TypeOK, LockInv, [Next]_vars
  PROVE  [Contract!Next]_tickets \/ \E r \in Requests : BlindWrite(r)
<1>1. CASE UNCHANGED tickets
  BY <1>1
<1>2. ASSUME NEW r \in Requests, PatchWrite(r) PROVE [Contract!Next]_tickets \/ BlindWrite(r)
  <2> DEFINE t == call[r].ticket
  <2>1. CASE /\ VersionMatches(t, call[r].token) /\ SetRow(t, Patched(tickets[t], call[r].dto))
             /\ call[r].token = before[r].version
    <3>1. t \in Tickets /\ call[r].dto \in Patches
      BY <1>2, CallFacts DEF PatchWrite, Refusals
    <3>2. LET row == tickets[t]
          IN /\ ~row.deleted /\ row.status # "DONE"
             /\ LegalTransition(row.status, Sent(call[r].dto, "status", row.status))
      BY <1>2, <2>1, WriteIsChecked DEF LockInv
    <3>3. Contract!Update(t)
      BY <2>1, <3>1, <3>2
      DEF Contract!Update, Contract!Open, Contract!Set, SetRow, Contract!Patched, Patched,
          Contract!Sent, Sent, Contract!LegalTransition, LegalTransition,
          Contract!STATUS_ORDER, STATUS_ORDER, Contract!Statuses, Statuses
    <3>4. QED
      BY <3>1, <3>3 DEF Contract!Next
  <2>2. \/ UNCHANGED tickets
        \/ BlindWrite(r)
        \/ /\ VersionMatches(t, call[r].token) /\ SetRow(t, Patched(tickets[t], call[r].dto))
           /\ call[r].token = before[r].version
    BY <1>2 DEF PatchWrite, BlindWrite, record, goto, TypeOK, ServiceTypeOK
  <2>3. QED
    BY <1>1, <2>1, <2>2
<1>3. ASSUME NEW r \in Requests, DeleteWrite(r) \/ RestoreWrite(r) PROVE [Contract!Next]_tickets
  <2> DEFINE t == call[r].ticket
  <2>1. t \in Tickets /\ tickets[t] \in Row
    BY <1>3, CallFacts DEF DeleteWrite, RestoreWrite, Refusals
  <2>2. CASE ~tickets[t].deleted /\ SetRow(t, [tickets[t] EXCEPT !.deleted = TRUE])
    BY <2>1, <2>2 DEF SetRow, Contract!Next, Contract!Delete, Contract!Set
  <2>3. CASE tickets[t].deleted /\ SetRow(t, [tickets[t] EXCEPT !.deleted = FALSE])
    BY <2>1, <2>3 DEF SetRow, Contract!Next, Contract!Restore, Contract!Set
  <2>4. CASE ~tickets[t].deleted /\ SetRow(t, [tickets[t] EXCEPT !.deleted = FALSE])
    <3>1. [tickets[t] EXCEPT !.deleted = FALSE] = tickets[t]
      BY <2>1, <2>4, DeletedFacts DEF Row
    <3>2. tickets' = [tickets EXCEPT ![t] = tickets[t]]
      BY <2>4, <3>1 DEF SetRow
    <3>3. tickets' = tickets
      BY <2>1, <3>2 DEF TypeOK, StoreTypeOK
    <3>4. QED
      BY <3>3
  <2>5. QED
    BY <1>1, <1>3, <2>2, <2>3, <2>4 DEF DeleteWrite, RestoreWrite
<1>4. ASSUME NEW w \in Runners, NEW s \in scanned[w], Promote(w, s) \/ MarkOverdue(w, s)
      PROVE  [Contract!Next]_tickets
  <2>1. s.id \in Tickets /\ s.priority \in Priorities
    BY EscalatedFacts
  <2>2. CASE /\ Escalatable(s.id)
             /\ SetRow(s.id, [tickets[s.id] EXCEPT !.priority = NextPriority[s.priority],
                                                   !.version = @ + 1])
    BY <2>1, <2>2
    DEF SetRow, Escalatable, Contract!Next, Contract!Escalate, Contract!Open, Contract!Set,
        Contract!NextPriority, NextPriority, Contract!Priorities, Priorities
  <2>3. CASE /\ Escalatable(s.id)
             /\ SetRow(s.id, [tickets[s.id] EXCEPT !.isOverdue = TRUE, !.version = @ + 1])
    BY <2>1, <2>3
    DEF SetRow, Escalatable, Contract!Next, Contract!Escalate, Contract!Open, Contract!Set
  <2>4. QED
    BY <1>1, <1>4, <2>2, <2>3 DEF Promote, MarkOverdue
<1>5. CASE LinkerNext
  BY <1>1, <1>5 DEF LinkerNext, ReceiveAdd, FindTicket, FindBlocker, Walk, Insert,
     ReceiveRemove, Remove, storeVars
<1>6. CASE DeleteUser
  BY <1>6 DEF DeleteUser, Contract!Next, Contract!Unassign, TypeOK, StoreTypeOK
<1>7. QED
  BY <1>1, <1>2, <1>3, <1>4, <1>5, <1>6
  DEF Next, vars, storeVars, Tick, ServiceNext, ReceivePatch, ReceiveOther, PatchRead,
      CountBlockers, FindAssignee, DeleteRead, RestoreRead, Audit, EscalationNext, Scan, Work,
      Skip, LogEscalation, Abort

\* An update that checks the lifecycle rules awaits before it writes is as good as one
\* that checks and writes in one step, if it writes over the version it has read: every
\* step is an operation of the contract but for the blind writes, which the version in
\* the WHERE clause does not stop (TicketsService.update, updateWithVersionCheck,
\* applyEscalation).
THEOREM Implements == Spec => ImplementsContract
<1>1. Init => Contract!Init
  BY DEF Init, StoreInit, Contract!Init
<1>2. TypeOK /\ LockInv /\ [Next]_vars => [Contract!Next \/ blind' # blind]_tickets
  <2> SUFFICES ASSUME TypeOK, LockInv, [Next]_vars, ~[Contract!Next]_tickets
               PROVE  blind' # blind
    OBVIOUS
  <2>1. PICK r \in Requests : BlindWrite(r)
    BY ContractStep
  <2>2. r \notin blind
    BY <2>1 DEF BlindWrite, PatchWrite, LockInv, BlindInv, Wrote
  <2>3. QED
    BY <2>1, <2>2 DEF BlindWrite
<1>3. QED
  BY <1>1, <1>2, Lock, PTL DEF Spec, ImplementsContract

\* The version of a client that sends only versions it was given is at most the one read.
LEMMA HonestStep ==
  ASSUME Lookahead = 0, TypeOK, ReadInv, HonestInv, [Next]_vars
  PROVE  HonestInv'
<1>1. ASSUME NEW r \in Requests, pc'[r] \notin {"new"} \cup Refusals, call'[r].op = "patch"
      PROVE  call'[r].token <= tickets'[call'[r].ticket].version
  <2>1. CASE ReceivePatch(r)
    <3>1. PICK t \in Tickets, dto \in Patches :
            \E token \in 0..(tickets[t].version + Lookahead) :
              call' = [call EXCEPT ![r] = [op |-> "patch", ticket |-> t,
                                           dto |-> dto, token |-> token]]
      BY <1>1, <2>1 DEF ReceivePatch, refuse, goto, Refusals, TypeOK, ServiceTypeOK
    <3>2. tickets' = tickets /\ tickets[t].version \in Nat
      BY <2>1 DEF ReceivePatch, storeVars, TypeOK, StoreTypeOK, Row
    <3>3. QED
      BY <3>1, <3>2 DEF TypeOK, ServiceTypeOK
  <2>2. CASE ReceiveOther(r)
    BY <1>1, <2>2, ServiceAssumption DEF ReceiveOther, TypeOK, ServiceTypeOK
  <2>3. CASE call'[r] = call[r] /\ pc[r] \notin {"new"} \cup Refusals
    <3>1. /\ call[r].ticket \in Tickets /\ call[r].token \in Nat
          /\ tickets[call[r].ticket].version \in Nat
      BY <1>1, <2>3, CallFacts
    <3>2. /\ tickets'[call[r].ticket].version >= tickets[call[r].ticket].version
          /\ tickets'[call[r].ticket].version \in Nat
      BY <3>1, VersionsGrow, TypeStep DEF VersionGrows, TypeOK, StoreTypeOK, Row
    <3>3. QED
      BY <1>1, <2>3, <3>1, <3>2 DEF HonestInv
  <2>4. CASE pc[r] # "new" /\ Handles(r)
    BY <1>1, <2>3, <2>4, HandlerSteps
  <2>5. CASE Audit(r)
    BY <2>3, <2>5 DEF Audit, Refusals
  <2>6. QED
    BY <1>1, <2>1, <2>2, <2>3, <2>4, <2>5, RequestSteps
    DEF Handles, PatchRead, CountBlockers, FindAssignee, PatchWrite, DeleteRead, DeleteWrite,
        RestoreRead, RestoreWrite
<1>2. ASSUME NEW r \in Requests, pc'[r] \in Waiting, call'[r].op = "patch"
      PROVE  call'[r].token <= before'[r].version
  <2>1. CASE PatchRead(r)
    <3>1. pc[r] = "read" /\ call' = call /\ before'[r] = tickets[call[r].ticket]
      BY <1>2, <2>1 DEF PatchRead, refuse, Refusals, goto, Waiting, TypeOK, ServiceTypeOK
    <3>2. QED
      BY <1>2, <3>1 DEF HonestInv, Refusals
  <2>2. CASE call'[r] = call[r] /\ before'[r] = before[r] /\ pc[r] \in Waiting
    BY <1>2, <2>2 DEF HonestInv, Waiting, Refusals
  <2>3. CASE CountBlockers(r) \/ FindAssignee(r)
    BY <1>2, <2>2, <2>3
    DEF CountBlockers, FindAssignee, refuse, goto, Waiting, TypeOK, ServiceTypeOK
  <2>4. CASE ReceivePatch(r) \/ ReceiveOther(r) \/ PatchWrite(r) \/ DeleteWrite(r) \/ RestoreWrite(r)
    BY <1>2, <2>4
    DEF ReceivePatch, ReceiveOther, PatchWrite, DeleteWrite, RestoreWrite, refuse, record, goto,
        Waiting, TypeOK, ServiceTypeOK
  <2>5. CASE DeleteRead(r) \/ RestoreRead(r)
    BY <1>2, <2>5 DEF DeleteRead, RestoreRead, refuse, goto, Waiting, TypeOK, ServiceTypeOK
  <2>6. CASE Audit(r)
    BY <1>2, <2>6 DEF Audit, goto, Waiting, TypeOK, ServiceTypeOK
  <2>7. QED
    BY <1>2, <2>1, <2>2, <2>3, <2>4, <2>5, <2>6, RequestSteps DEF Handles
<1>3. ASSUME NEW r \in Requests, BlindWrite(r) PROVE FALSE
  <2> DEFINE row == tickets[call[r].ticket]
  <2>1. /\ call[r].token <= before[r].version /\ before[r].version <= row.version
        /\ call[r].token = row.version /\ call[r].token # before[r].version
    BY <1>3 DEF BlindWrite, VersionMatches, PatchWrite, HonestInv, ReadInv, Waiting, Refusals
  <2>2. row.version \in Nat /\ before[r].version \in Nat
    <3>1. before[r] \in Row
      BY <1>3 DEF BlindWrite, PatchWrite, TypeOK, ServiceTypeOK
    <3>2. row.version \in Nat
      BY <1>3, CallFacts DEF BlindWrite, PatchWrite, Refusals
    <3>3. QED
      BY <3>1, <3>2 DEF Row
  <2> HIDE DEF row
  <2>3. QED
    BY <2>1, <2>2
<1>4. QED
  BY <1>1, <1>2, <1>3, BlindSteps DEF HonestInv

\* With clients that send only versions they were given, the ticket services implement
\* the contract without exception: the version that matches the row when it is written
\* is at least the one that was read, and at most (update, updateWithVersionCheck).
THEOREM HonestImplements == ASSUME Lookahead = 0 PROVE Spec => Contract!Spec
<1>1. Init => HonestInv /\ Contract!Init
  BY DEF Init, ServiceInit, StoreInit, HonestInv, Contract!Init
<1>2. TypeOK /\ LockInv /\ HonestInv /\ [Next]_vars => HonestInv'
  BY HonestStep DEF LockInv
<1>3. TypeOK /\ LockInv /\ HonestInv /\ HonestInv' /\ [Next]_vars => [Contract!Next]_tickets
  <2> SUFFICES ASSUME TypeOK, LockInv, HonestInv, HonestInv', [Next]_vars,
                      NEW r \in Requests, BlindWrite(r)
               PROVE  FALSE
    BY ContractStep
  <2>1. blind' = {} /\ r \in blind'
    BY DEF HonestInv, BlindWrite
  <2>2. QED
    BY <2>1
<1>4. QED
  BY <1>1, <1>2, <1>3, Lock, PTL DEF Spec, Contract!Spec

-----------------------------------------------------------------------------
\* A ticket that was written blindly counts as such from then on.
LEMMA OverwrittenStays ==
  ASSUME TypeOK, BlindInv, [Next]_vars, NEW t, OverwrittenBlindly(t)
  PROVE  OverwrittenBlindly(t)'
<1>1. PICK q \in blind : call[q].ticket = t
  BY DEF OverwrittenBlindly
<1>2. call'[q] = call[q]
  BY WroteStays DEF BlindInv, TypeOK, ServiceTypeOK
<1>3. q \in blind'
  BY BlindSteps DEF BlindWrite
<1>4. QED
  BY <1>1, <1>2, <1>3 DEF OverwrittenBlindly

\* No step takes a status back, but for the blind writes.
LEMMA StatusesAdvance ==
  ASSUME TypeOK, LockInv, [Next]_vars, NEW t \in Tickets, ~OverwrittenBlindly(t)'
  PROVE  /\ tickets[t].status \in Statuses /\ tickets'[t].status \in Statuses
         /\ LegalTransition(tickets[t].status, tickets'[t].status)
<1>1. /\ tickets \in [Tickets -> Row] /\ tickets' \in [Tickets -> Row]
      /\ tickets[t].status \in Statuses /\ tickets'[t].status \in Statuses
  BY TypeStep DEF TypeOK, StoreTypeOK, Row
<1>2. \A s \in Statuses : LegalTransition(s, s)
  BY DEF LegalTransition, STATUS_ORDER, Statuses
<1>3. CASE tickets'[t].status = tickets[t].status
  BY <1>1, <1>2, <1>3
<1>4. ASSUME NEW u \in Tickets, Contract!Update(u)
      PROVE  LegalTransition(tickets[t].status, tickets'[t].status)
  <2>1. PICK dto \in Patches :
          /\ LegalTransition(tickets[u].status, Sent(dto, "status", tickets[u].status))
          /\ tickets' = [tickets EXCEPT ![u] = Patched(tickets[u], dto)]
    BY <1>4
    DEF Contract!Update, Contract!Set, Contract!Patched, Patched, Contract!Sent, Sent,
        Contract!LegalTransition, LegalTransition, Contract!STATUS_ORDER, STATUS_ORDER,
        Contract!Statuses, Statuses
  <2>2. Patched(tickets[u], dto).status = Sent(dto, "status", tickets[u].status)
    BY <1>1, PatchedFacts
  <2>3. QED
    BY <1>1, <1>2, <2>1, <2>2
<1>5. ASSUME NEW u \in Tickets, Contract!Escalate(u) \/ Contract!Delete(u) \/ Contract!Restore(u)
      PROVE  tickets'[t].status = tickets[t].status
  <2>1. tickets[u] \in Row
    BY <1>1
  <2>2. CASE Contract!Delete(u) \/ Contract!Restore(u)
    BY <1>1, <2>1, <2>2, DeletedFacts DEF Contract!Delete, Contract!Restore, Contract!Set
  <2>3. CASE Contract!Escalate(u)
    <3>1. \A p : [tickets[u] EXCEPT !.priority = Contract!NextPriority[p],
                                    !.version = @ + 1].status = tickets[u].status
      BY <2>1 DEF Row
    <3>2. [tickets[u] EXCEPT !.isOverdue = TRUE, !.version = @ + 1].status = tickets[u].status
      BY <2>1 DEF Row
    <3>3. \E row : row.status = tickets[u].status /\ tickets' = [tickets EXCEPT ![u] = row]
      BY <2>3, <3>1, <3>2 DEF Contract!Escalate, Contract!Set
    <3>4. QED
      BY <1>1, <3>3
  <2>4. QED
    BY <1>5, <2>2, <2>3
<1>6. ASSUME NEW u \in Users, Contract!Unassign(u)
      PROVE  tickets'[t].status = tickets[t].status
  <2>1. tickets'[t] = [tickets[t] EXCEPT !.assigneeId = IF @ = u THEN NoUser ELSE @]
    BY <1>6 DEF Contract!Unassign
  <2>2. QED
    BY <1>1, <2>1 DEF Row
<1>7. ASSUME NEW r \in Requests, BlindWrite(r)
      PROVE  tickets'[t].status = tickets[t].status
  <2>1. call[r].ticket # t
    BY <1>7 DEF BlindWrite, OverwrittenBlindly
  <2>2. QED
    BY <1>1, <1>7, <2>1 DEF BlindWrite, SetRow
<1>8. QED
  BY <1>1, <1>3, <1>4, <1>5, <1>6, <1>7, ContractStep DEF Contract!Next

\* The order of the statuses is a linear order with DONE on top.
LEMMA StatusOrder ==
  /\ \A a, b, c \in Statuses :
       LegalTransition(a, b) /\ LegalTransition(b, c) => LegalTransition(a, c)
  /\ \A a \in Statuses : LegalTransition(a, a)
  /\ \A a \in Statuses : LegalTransition("DONE", a) => a = "DONE"
BY DEF LegalTransition, STATUS_ORDER, Statuses

\* A status that was accepted is taken back neither by stale writers nor by escalations,
\* deletions or restores; only by an update whose version was not the one it had read
\* (assertLegalTransition, version check).  It needs nothing of the clients.
THEOREM AcceptedSticks == Spec => []AcceptedStatusSticks
<1>1. Init => AcceptedStatusSticks
  BY DEF Init, ServiceInit, AcceptedStatusSticks, Wrote
<1>2. ASSUME TypeOK, LockInv, AcceptedStatusSticks, [Next]_vars
      PROVE  AcceptedStatusSticks'
  <2> SUFFICES ASSUME NEW r \in Requests, NEW t, t = call'[r].ticket,
                      Wrote(r, "patch")', "status" \in DOMAIN call'[r].dto, ~OverwrittenBlindly(t)'
               PROVE  LegalTransition(call'[r].dto["status"], tickets'[t].status)
    BY DEF AcceptedStatusSticks, LegalTransition, OverwrittenBlindly
  <2> DEFINE accepted == call[r].dto["status"]
  <2>1. /\ call'[r] = call[r] /\ t = call[r].ticket /\ t \in Tickets
        /\ call[r].dto \in Patches /\ tickets[t] \in Row
    BY <1>2, WinningStep, CallFacts
  <2>2. accepted \in Statuses
    BY <2>1, DomainAssumption DEF IsPatch
  <2>4. ~OverwrittenBlindly(t)
    BY <1>2, OverwrittenStays DEF LockInv
  <2>5. CASE Wrote(r, "patch")
    <3>1. LegalTransition(accepted, tickets[t].status)
      BY <1>2, <2>1, <2>4, <2>5 DEF AcceptedStatusSticks, LegalTransition, OverwrittenBlindly
    <3>2. QED
      BY <1>2, <2>1, <2>2, <3>1, StatusesAdvance, StatusOrder
  <2>6. CASE ~Wrote(r, "patch")
    <3>1. SetRow(t, Patched(tickets[t], call[r].dto))
      BY <1>2, <2>6, WinningStep
    <3>2. tickets'[t].status = accepted
      BY <1>2, <2>1, <3>1, PatchedFacts DEF SetRow, Sent, TypeOK, StoreTypeOK
    <3>3. QED
      BY <2>1, <2>2, <3>2, StatusOrder
  <2>7. QED
    BY <2>5, <2>6
<1>3. QED
  BY <1>1, <1>2, Lock, PTL DEF Spec

\* What the gate on DONE saw resolved stays resolved: the blockers a request was let
\* through on are DONE when it writes and afterwards, but for those that an update with
\* a version it had not read has written over (countUnresolvedBlockers).
THEOREM ClearedStayDone == Spec => []ClearedBlockersStayDone
<1>1. Init => ClearedBlockersStayDone
  BY DEF Init, ServiceInit, ClearedBlockersStayDone
<1>2. ASSUME TypeOK, LockInv, ClearedBlockersStayDone, [Next]_vars
      PROVE  ClearedBlockersStayDone'
  <2> SUFFICES ASSUME NEW r \in Requests, NEW b \in cleared'[r], ~OverwrittenBlindly(b)'
               PROVE  tickets'[b].status = "DONE"
    BY DEF ClearedBlockersStayDone
  <2>1. b \in Tickets
    BY <1>2, TypeStep DEF TypeOK, ServiceTypeOK
  <2>2. ~OverwrittenBlindly(b)
    BY <1>2, OverwrittenStays DEF LockInv
  <2>3. tickets[b].status = "DONE"
    <3>1. CASE cleared'[r] = cleared[r]
      BY <1>2, <2>2, <3>1 DEF ClearedBlockersStayDone
    <3>2. ASSUME NEW q \in Requests, CountBlockers(q), cleared'[r] # cleared[r]
          PROVE  tickets[b].status = "DONE"
      BY <1>2, <2>1, <3>2 DEF CountBlockers, UnresolvedBlockers, TypeOK, ServiceTypeOK
    <3>3. QED
      BY <1>2, <3>1, <3>2
      DEF Next, vars, requestVars, historyVars, EscalationNext, LinkerNext, ServiceNext,
          ReceivePatch, ReceiveOther, PatchRead, FindAssignee, PatchWrite, DeleteRead,
          DeleteWrite, RestoreRead, RestoreWrite, Audit
  <2>4. QED
    BY <1>2, <2>1, <2>3, StatusesAdvance, StatusOrder
<1>3. QED
  BY <1>1, <1>2, Lock, PTL DEF Spec

-----------------------------------------------------------------------------
\* An entry of an update holds the diff of that update alone, if it was not blind.
OwnDiff(e) ==
  e.action = "UPDATE" =>
    /\ e.by \in Requests /\ Wrote(e.by, "patch")
    /\ e.by \notin blind =>
         \E old \in AsReadBefore(e.over) :
           e.diff = diffMetadata(old, Patched(e.over, call[e.by].dto))

OwnInv == (\A e \in audit : OwnDiff(e)) /\ (\A r \in Requests : OwnDiff(entry[r]))

\* An entry stays what it is, whoever is deleted later.
LEMMA OwnStays ==
  ASSUME TypeOK, [Next]_vars, NEW e, OwnDiff(e)
  PROVE  OwnDiff(e)'
<1> SUFFICES ASSUME e.action = "UPDATE"
             PROVE  /\ Wrote(e.by, "patch")' /\ call'[e.by] = call[e.by]
                    /\ blind \subseteq blind'
                    /\ AsReadBefore(e.over) \subseteq AsReadBefore(e.over)'
  BY DEF OwnDiff
<1>1. Wrote(e.by, "patch")' /\ call'[e.by] = call[e.by]
  BY WroteStays DEF OwnDiff
<1>2. blind \subseteq blind'
  BY BlindSteps DEF BlindWrite
<1>3. users' \subseteq users
  BY VersionsGrow DEF VersionGrows
<1>4. AsReadBefore(e.over) \subseteq AsReadBefore(e.over)'
  BY <1>3 DEF AsReadBefore
<1>5. QED
  BY <1>1, <1>2, <1>4

\* A request that was let read its row and whose version matches has read the row it
\* writes over, or that row with an assignee who is gone.
LEMMA ReadBefore ==
  ASSUME TypeOK, ReadInv, NEW r \in Requests, PatchWrite(r),
         VersionMatches(call[r].ticket, call[r].token), call[r].token = before[r].version
  PROVE  before[r] \in AsReadBefore(tickets[call[r].ticket])
<1> DEFINE row == tickets[call[r].ticket]
           old == before[r]
<1>1. /\ Kept(old, row, Users \ users) /\ old.version = row.version
      /\ old.deleted = FALSE /\ row.deleted = FALSE
  <2>1. old \in Row /\ row \in Row
    BY CallFacts DEF PatchWrite, TypeOK, ServiceTypeOK, Refusals
  <2>2. QED
    BY <2>1, WriteIsChecked DEF Row
<1>2. old \in Row /\ row \in Row
  BY CallFacts DEF PatchWrite, TypeOK, ServiceTypeOK, Refusals
<1> HIDE DEF old, row
<1>3. old = [row EXCEPT !.assigneeId = old.assigneeId]
  BY <1>1, <1>2 DEF Kept, Row
<1>4. CASE row.assigneeId = old.assigneeId
  <2>1. old = row
    BY <1>1, <1>2, <1>4 DEF Kept, Row
  <2>2. QED
    BY <2>1 DEF AsReadBefore, old, row
<1>5. CASE row.assigneeId = NoUser /\ old.assigneeId \in Users \ users
  <2>1. old \in AsReadBefore(row)
    BY <1>3, <1>5 DEF AsReadBefore
  <2>2. QED
    BY <2>1 DEF old, row
<1>6. QED
  BY <1>1, <1>4, <1>5 DEF Kept

\* The entries a step holds ready for insertion, or inserts.
LEMMA OwnStep == TypeOK /\ LockInv /\ OwnInv /\ [Next]_vars => OwnInv'
<1> SUFFICES ASSUME TypeOK, LockInv, OwnInv, [Next]_vars PROVE OwnInv'
  OBVIOUS
<1>1. ASSUME NEW r \in Requests, NEW e, e = entry'[r] PROVE OwnDiff(e)'
  <2>1. CASE e = entry[r]
    <3>1. OwnDiff(e)
      BY <2>1 DEF OwnInv
    <3>2. QED
      BY <3>1, OwnStays
  <2>2. ASSUME e.action # "UPDATE" PROVE OwnDiff(e)'
    BY <2>2 DEF OwnDiff
  <2>3. NoEntry.action # "UPDATE" /\ StateEntry(r, "DELETE").action # "UPDATE"
        /\ StateEntry(r, "RESTORE").action # "UPDATE"
    BY DEF NoEntry, StateEntry
  <2>4. ASSUME PatchWrite(r), e # entry[r] PROVE OwnDiff(e)'
    <3> DEFINE row == tickets[call[r].ticket]
               new == Patched(row, call[r].dto)
    <3>1. /\ VersionMatches(call[r].ticket, call[r].token)
          /\ e = UpdateEntry(r, row, new) /\ call' = call /\ users' = users
          /\ pc'[r] = "audit" /\ call[r].op = "patch"
          /\ r \notin blind' => call[r].token = before[r].version
      BY <1>1, <2>4 DEF PatchWrite, record, refuse, goto, TypeOK, ServiceTypeOK
    <3>2. e.by = r /\ e.over = row /\ e.diff = diffMetadata(before[r], Patched(e.over, call[r].dto))
      BY <3>1 DEF UpdateEntry
    <3>3. r \notin blind' => before[r] \in AsReadBefore(e.over)
      BY <2>4, <3>1, <3>2, ReadBefore DEF LockInv
    <3>4. AsReadBefore(e.over)' = AsReadBefore(e.over)
      BY <3>1 DEF AsReadBefore
    <3>5. Wrote(r, "patch")' /\ call'[r] = call[r]
      BY <3>1 DEF Wrote
    <3> HIDE DEF row, new
    <3>6. QED
      BY <3>2, <3>3, <3>4, <3>5 DEF OwnDiff
  <2>5. CASE Audit(r)
    BY <1>1, <2>2, <2>3, <2>5 DEF Audit, TypeOK, ServiceTypeOK
  <2>6. CASE Handles(r)
    <3>1. CASE DeleteWrite(r) \/ RestoreWrite(r)
      BY <1>1, <2>1, <2>2, <2>3, <3>1 DEF DeleteWrite, RestoreWrite, record, TypeOK, ServiceTypeOK
    <3>2. QED
      BY <1>1, <2>1, <2>4, <2>6, <3>1
      DEF Handles, ReceivePatch, ReceiveOther, PatchRead, CountBlockers, FindAssignee,
          DeleteRead, RestoreRead
  <2>7. QED
    BY <1>1, <2>1, <2>5, <2>6, RequestSteps
<1>2. ASSUME NEW e \in audit' PROVE OwnDiff(e)'
  <2>1. CASE e \in audit
    BY <2>1, OwnStays DEF OwnInv
  <2>2. ASSUME NEW r \in Requests, Audit(r), e \notin audit PROVE OwnDiff(e)'
    <3>1. e = entry[r]
      BY <1>2, <2>2 DEF Audit, Log
    <3>2. OwnDiff(e)
      BY <3>1 DEF OwnInv
    <3>3. QED
      BY <3>2, OwnStays
  <2>3. ASSUME e.action # "UPDATE" PROVE OwnDiff(e)'
    BY <2>3 DEF OwnDiff
  <2>4. ASSUME NEW w \in Runners, LogEscalation(w), e \notin audit PROVE e.action # "UPDATE"
    BY <2>4 DEF LogEscalation, Log, TypeOK, EscalationTypeOK, EscalationEntries
  <2>5. ASSUME NEW l \in Linkers, Insert(l) \/ Remove(l), e \notin audit
        PROVE  e.action # "UPDATE"
    BY <2>5 DEF Insert, Remove, Log, EdgeEntry
  <2>6. QED
    BY <2>1, <2>2, <2>3, <2>4, <2>5
    DEF Next, vars, storeVars, Tick, DeleteUser, ServiceNext, ReceivePatch, ReceiveOther, PatchRead,
        CountBlockers, FindAssignee, PatchWrite, DeleteRead, DeleteWrite, RestoreRead,
        RestoreWrite, EscalationNext, Scan, Work, Promote, MarkOverdue, Skip, Abort,
        LinkerNext, ReceiveAdd, FindTicket, FindBlocker, Walk, ReceiveRemove
<1>3. QED
  BY <1>1, <1>2 DEF OwnInv

\* An UPDATE entry holds what its request changed, and nothing that another request or
\* an escalation changed between its read and its write (update, diffMetadata): the row
\* it read is the row it wrote over, but for an assignee whom a deletion took away in
\* between.
THEOREM DiffIsOwn == Spec => []UpdateDiffIsOwn
<1>1. Init => OwnInv
  BY DEF Init, StoreInit, ServiceInit, OwnInv, OwnDiff, NoEntry
<1>2. OwnInv => UpdateDiffIsOwn
  BY DEF OwnInv, OwnDiff, UpdateDiffIsOwn
<1>3. QED
  BY <1>1, <1>2, OwnStep, Lock, PTL DEF Spec

-----------------------------------------------------------------------------
\* What the entries say, inserted or owed: a version of their ticket, each its own; and
\* the versions that none explains are paid for by faults.
AuditInv ==
  /\ \A t \in Tickets : tickets[t].version >= 1
  /\ \A e \in Trail : e.at # 0 => 2 <= e.at /\ e.at <= tickets[e.ticket].version
  /\ \A e, f \in Trail : e.at # 0 /\ e.ticket = f.ticket /\ e.at = f.at => e = f
  /\ IsFiniteSet(Unexplained) /\ Cardinality(Unexplained) <= faults

\* A write that takes a new version, and owes its entry.
Bumps(t, e) ==
  /\ tickets'[t].version = tickets[t].version + 1
  /\ \A u \in Tickets \ {t} : tickets'[u].version = tickets[u].version
  /\ e.ticket = t /\ e.at = tickets[t].version + 1
  /\ Trail' = Trail \cup {e} /\ faults' = faults

SameVersions == \A t \in Tickets : tickets'[t].version = tickets[t].version

\* A step that owes or writes an entry of no version, or nothing.
Notes(e) ==
  /\ SameVersions /\ e.at = 0
  /\ Trail \subseteq Trail' /\ Trail' \subseteq Trail \cup {e}
  /\ faults' \in {faults, faults + 1}

\* A step that loses an entry.
Loses(e) ==
  /\ SameVersions /\ Trail' \subseteq Trail /\ Trail \subseteq Trail' \cup {e}
  /\ faults' = faults + 1

LEMMA TrailFacts ==
  ASSUME TypeOK, NEW e \in Trail
  PROVE  e.ticket \in Tickets /\ e.at \in Nat
<1>1. CASE e \in audit
  BY <1>1 DEF TypeOK, AuditTypeOK
<1>2. ASSUME NEW r \in Requests, e = entry[r]
      PROVE  e.ticket \in Tickets /\ e.at \in Nat
  <2>1. pc[r] = "audit" /\ IsEntryOf(r, e)
    BY <1>2 DEF Trail, TypeOK, ServiceTypeOK
  <2>2. QED
    BY <2>1, CallFacts DEF IsEntryOf, Refusals
<1>3. ASSUME NEW w \in Runners, e = owed[w]
      PROVE  e.ticket \in Tickets /\ e.at \in Nat
  BY <1>3 DEF Trail, TypeOK, EscalationTypeOK, EscalationEntries
<1>4. QED
  BY <1>1, <1>2, <1>3 DEF Trail, Owed

\* A step that touches neither versions nor entries.
LEMMA NothingNoted ==
  ASSUME SameVersions, Trail' = Trail, faults' \in {faults, faults + 1}
  PROVE  \E e : Notes(e)
<1>1. [at |-> 0].at = 0
  OBVIOUS
<1>2. Notes([at |-> 0])
  BY <1>1 DEF Notes
<1>3. QED
  BY <1>2

\* One request's entry changes.
LEMMA EntryChanges ==
  ASSUME TypeOK, UNCHANGED owed, NEW r \in Requests, NEW e, entry' = [entry EXCEPT ![r] = e]
  PROVE  /\ audit' = audit /\ entry[r] = NoEntry /\ e # NoEntry => Trail' = Trail \cup {e}
         /\ audit' = audit \cup {entry[r]} /\ entry[r] # NoEntry /\ e = NoEntry => Trail' = Trail
         /\ audit' = audit /\ e = NoEntry
              => Trail' \subseteq Trail /\ Trail \subseteq Trail' \cup {entry[r]}
<1>1. /\ DOMAIN entry = Requests /\ DOMAIN entry' = Requests /\ entry'[r] = e
      /\ \A q \in Requests \ {r} : entry'[q] = entry[q]
  BY DEF TypeOK, ServiceTypeOK
<1>2. /\ {entry'[q] : q \in Requests} \subseteq {entry[q] : q \in Requests} \cup {e}
      /\ {entry[q] : q \in Requests} \subseteq {entry'[q] : q \in Requests} \cup {entry[r]}
      /\ e \in {entry'[q] : q \in Requests} /\ entry[r] \in {entry[q] : q \in Requests}
  BY <1>1
<1> DEFINE A == {entry[q] : q \in Requests}
           B == {owed[w] : w \in Runners}
<1>3. Owed = A \cup B /\ Owed' = A' \cup B
  BY DEF Owed
<1> HIDE DEF A, B
<1>4. A' \subseteq A \cup {e} /\ A \subseteq A' \cup {entry[r]} /\ e \in A' /\ entry[r] \in A
  BY <1>2 DEF A
<1>5. QED
  BY <1>3, <1>4 DEF Trail

\* One runner's entry changes.
LEMMA OwedChanges ==
  ASSUME TypeOK, UNCHANGED entry, NEW w \in Runners, NEW e, Owe(w, e)
  PROVE  /\ audit' = audit /\ owed[w] = NoEntry /\ e # NoEntry => Trail' = Trail \cup {e}
         /\ audit' = audit \cup {owed[w]} /\ owed[w] # NoEntry /\ e = NoEntry => Trail' = Trail
         /\ audit' = audit /\ e = NoEntry
              => Trail' \subseteq Trail /\ Trail \subseteq Trail' \cup {owed[w]}
<1>1. owed'[w] = e /\ \A v \in Runners \ {w} : owed'[v] = owed[v]
  BY DEF TypeOK, EscalationTypeOK, Owe
<1> DEFINE A == {entry[q] : q \in Requests}
           B == {owed[v] : v \in Runners}
<1>2. Owed = A \cup B /\ Owed' = A \cup B'
  BY DEF Owed
<1>3. B' \subseteq B \cup {e} /\ B \subseteq B' \cup {owed[w]} /\ e \in B' /\ owed[w] \in B
  BY <1>1
<1> HIDE DEF A, B
<1>4. QED
  BY <1>2, <1>3 DEF Trail

\* Every step takes one new version and owes its entry; or takes none, and owes, inserts
\* or loses an entry.
LEMMA VersionSteps ==
  ASSUME TypeOK, [Next]_vars
  PROVE  \/ \E t \in Tickets : \E e : Bumps(t, e)
         \/ \E e : Notes(e) \/ Loses(e)
<1>0. tickets \in [Tickets -> Row]
  BY DEF TypeOK, StoreTypeOK
<1>1. CASE UNCHANGED <<tickets, audit, entry, owed, faults>>
  BY <1>1, NothingNoted DEF SameVersions, Trail, Owed
<1>2. ASSUME NEW r \in Requests, PatchWrite(r), UNCHANGED owed, ~UNCHANGED <<tickets, entry>>
      PROVE  \E t \in Tickets : \E e : Bumps(t, e)
  <2> DEFINE t == call[r].ticket
             new == Patched(tickets[t], call[r].dto)
             e == UpdateEntry(r, tickets[t], new)
  <2>1. /\ SetRow(t, new) /\ entry' = [entry EXCEPT ![r] = e]
        /\ audit' = audit /\ faults' = faults
    BY <1>2 DEF PatchWrite, record
  <2>2. t \in Tickets /\ tickets[t] \in Row /\ call[r].dto \in Patches
    BY <1>2, CallFacts DEF PatchWrite, Refusals
  <2>3. new.version = tickets[t].version + 1
    BY <2>2, PatchedFacts
  <2>4. e.ticket = t /\ e.at = new.version /\ e.action = "UPDATE"
    BY DEF UpdateEntry
  <2>5. tickets'[t] = new /\ \A u \in Tickets \ {t} : tickets'[u] = tickets[u]
    BY <1>0, <2>1, <2>2 DEF SetRow
  <2>6. e # NoEntry /\ entry[r] = NoEntry
    BY <1>2, <2>4 DEF NoEntry, PatchWrite, TypeOK, ServiceTypeOK
  <2> HIDE DEF e, new
  <2>7. Trail' = Trail \cup {e}
    BY <1>2, <2>1, <2>6, EntryChanges
  <2>8. Bumps(t, e)
    BY <2>1, <2>3, <2>4, <2>5, <2>7 DEF Bumps
  <2>9. QED
    BY <2>2, <2>8
<1>3. ASSUME NEW r \in Requests, DeleteWrite(r) \/ RestoreWrite(r), UNCHANGED owed,
             ~UNCHANGED <<tickets, entry>>
      PROVE  \E e : Notes(e)
  <2> DEFINE t == call[r].ticket
  <2>1. t \in Tickets /\ tickets[t] \in Row
    BY <1>3, CallFacts DEF DeleteWrite, RestoreWrite, Refusals
  <2>2. PICK d \in BOOLEAN, a \in {"DELETE", "RESTORE"} :
          /\ SetRow(t, [tickets[t] EXCEPT !.deleted = d])
          /\ entry' = [entry EXCEPT ![r] = StateEntry(r, a)]
    BY <1>3 DEF DeleteWrite, RestoreWrite, record
  <2>3. [tickets[t] EXCEPT !.deleted = d].version = tickets[t].version
    BY <2>1, DeletedFacts
  <2>4. SameVersions
    BY <1>0, <2>1, <2>2, <2>3 DEF SetRow, SameVersions
  <2>5. StateEntry(r, a).at = 0 /\ StateEntry(r, a).action = a
    BY DEF StateEntry
  <2>6. StateEntry(r, a) # NoEntry /\ entry[r] = NoEntry /\ UNCHANGED <<audit, faults>>
    BY <1>3, <2>5 DEF NoEntry, DeleteWrite, RestoreWrite, TypeOK, ServiceTypeOK
  <2>7. Trail' = Trail \cup {StateEntry(r, a)}
    BY <1>3, <2>2, <2>6, EntryChanges
  <2>8. Notes(StateEntry(r, a))
    BY <2>4, <2>5, <2>6, <2>7 DEF Notes
  <2>9. QED
    BY <2>8
<1>4. ASSUME NEW r \in Requests, Audit(r), UNCHANGED owed
      PROVE  \E e : Notes(e) \/ Loses(e)
  <2>1. /\ entry' = [entry EXCEPT ![r] = NoEntry] /\ SameVersions
        /\ entry[r] # NoEntry
    BY <1>4 DEF Audit, SameVersions, TypeOK, ServiceTypeOK, IsEntryOf, NoEntry
  <2>2. CASE audit' = audit \cup {entry[r]} /\ UNCHANGED faults
    <3>1. Trail' = Trail
      BY <1>4, <2>1, <2>2, EntryChanges
    <3>2. QED
      BY <2>1, <2>2, <3>1, NothingNoted
  <2>3. CASE faults' = faults + 1 /\ UNCHANGED audit
    <3>1. Trail' \subseteq Trail /\ Trail \subseteq Trail' \cup {entry[r]}
      BY <1>4, <2>1, <2>3, EntryChanges
    <3>2. Loses(entry[r])
      BY <2>1, <2>3, <3>1 DEF Loses
    <3>3. QED
      BY <3>2
  <2>4. QED
    BY <1>4, <2>2, <2>3 DEF Audit, Log
<1>5. ASSUME NEW w \in Runners, NEW s \in scanned[w], Promote(w, s) \/ MarkOverdue(w, s),
             UNCHANGED entry, ~UNCHANGED <<tickets, owed>>
      PROVE  \E t \in Tickets : \E e : Bumps(t, e)
  <2> DEFINE up == [tickets[s.id] EXCEPT !.priority = NextPriority[s.priority], !.version = @ + 1]
             flag == [tickets[s.id] EXCEPT !.isOverdue = TRUE, !.version = @ + 1]
  <2>1. /\ s.id \in Tickets
        /\ up.version = tickets[s.id].version + 1 /\ flag.version = tickets[s.id].version + 1
    BY <1>5, EscalatedFacts
  <2>2. /\ SetRow(s.id, up) \/ SetRow(s.id, flag)
        /\ \E to : Owe(w, EscalationEntry(s, to, tickets[s.id].version + 1))
        /\ owed[w] = NoEntry /\ UNCHANGED <<audit, faults>>
    BY <1>5 DEF Promote, MarkOverdue, First
  <2> HIDE DEF up, flag
  <2>3. PICK to : Owe(w, EscalationEntry(s, to, tickets[s.id].version + 1))
    BY <2>2
  <2> DEFINE e == EscalationEntry(s, to, tickets[s.id].version + 1)
  <2>4. e.ticket = s.id /\ e.at = tickets[s.id].version + 1 /\ e.action = "PRIORITY_ESCALATED"
    BY DEF EscalationEntry
  <2>5. /\ tickets'[s.id].version = tickets[s.id].version + 1
        /\ \A u \in Tickets \ {s.id} : tickets'[u] = tickets[u]
    BY <1>0, <2>1, <2>2 DEF SetRow
  <2>6. e # NoEntry
    BY <2>4 DEF NoEntry
  <2> HIDE DEF e
  <2>7. Trail' = Trail \cup {e}
    BY <1>5, <2>2, <2>3, <2>6, OwedChanges DEF e
  <2>8. Bumps(s.id, e)
    BY <2>2, <2>4, <2>5, <2>7 DEF Bumps
  <2>9. QED
    BY <2>1, <2>8
<1>6. ASSUME NEW w \in Runners, LogEscalation(w) \/ Abort(w), UNCHANGED entry
      PROVE  \E e : Notes(e) \/ Loses(e)
  <2>1. Owe(w, NoEntry) /\ SameVersions
    BY <1>6 DEF LogEscalation, Abort, SameVersions
  <2>2. CASE audit' = audit \cup {owed[w]} /\ UNCHANGED faults /\ owed[w] # NoEntry
    <3>1. Trail' = Trail
      BY <1>6, <2>1, <2>2, OwedChanges
    <3>2. QED
      BY <2>1, <2>2, <3>1, NothingNoted
  <2>3. CASE faults' = faults + 1 /\ UNCHANGED audit
    <3>1. Trail' \subseteq Trail /\ Trail \subseteq Trail' \cup {owed[w]}
      BY <1>6, <2>1, <2>3, OwedChanges
    <3>2. Loses(owed[w])
      BY <2>1, <2>3, <3>1 DEF Loses
    <3>3. QED
      BY <3>2
  <2>4. QED
    BY <1>6, <2>2, <2>3 DEF LogEscalation, Log, Abort
<1>7. ASSUME NEW l \in Linkers, Insert(l) \/ Remove(l), UNCHANGED <<entry, owed>>
      PROVE  \E e : Notes(e)
  <2>1. SameVersions /\ Owed' = Owed
    BY <1>7 DEF Insert, Remove, SameVersions, Owed
  <2>2. CASE UNCHANGED audit /\ faults' \in {faults, faults + 1}
    BY <2>1, <2>2, NothingNoted DEF Trail
  <2>3. ASSUME NEW a \in {"CREATE", "DELETE"}, audit' = audit \cup {EdgeEntry(l, a)},
               UNCHANGED faults
        PROVE  \E e : Notes(e)
    <3>1. EdgeEntry(l, a).at = 0
      BY DEF EdgeEntry
    <3>2. Notes(EdgeEntry(l, a))
      BY <2>1, <2>3, <3>1 DEF Notes, Trail
    <3>3. QED
      BY <3>2
  <2>4. QED
    BY <1>7, <2>2, <2>3 DEF Insert, Remove, Log
<1>8. ASSUME DeleteUser, UNCHANGED <<entry, owed>>
      PROVE  \E e : Notes(e)
  <2>1. SameVersions
    BY <1>8, UnassignFacts DEF SameVersions
  <2>2. UNCHANGED <<audit, faults>>
    BY <1>8 DEF DeleteUser
  <2>3. QED
    BY <1>8, <2>1, <2>2, NothingNoted DEF Trail, Owed
<1>9. CASE ServiceNext /\ UNCHANGED escalationVars
  <2>1. UNCHANGED owed
    BY <1>9 DEF escalationVars
  <2>2. PICK r \in Requests : Handles(r) \/ Audit(r)
    BY <1>9 DEF ServiceNext, Handles
  <2>3. CASE PatchWrite(r) \/ DeleteWrite(r) \/ RestoreWrite(r)
    <3>1. UNCHANGED <<audit, faults>>
      BY <2>3 DEF PatchWrite, DeleteWrite, RestoreWrite
    <3>2. QED
      BY <1>1, <1>2, <1>3, <2>1, <2>3, <3>1
  <2>4. QED
    BY <1>1, <1>4, <2>1, <2>2, <2>3
    DEF Handles, ReceivePatch, ReceiveOther, PatchRead, CountBlockers, FindAssignee, DeleteRead,
        RestoreRead, storeVars
<1>10. CASE EscalationNext /\ UNCHANGED requestVars
  <2>1. UNCHANGED entry
    BY <1>10 DEF requestVars
  <2>2. ASSUME NEW w \in Runners, NEW s \in scanned[w], Promote(w, s) \/ MarkOverdue(w, s)
        PROVE  (\E t \in Tickets : \E e : Bumps(t, e)) \/ \E e : Notes(e) \/ Loses(e)
    <3>1. UNCHANGED <<audit, faults>>
      BY <2>2 DEF Promote, MarkOverdue
    <3>2. QED
      BY <1>1, <1>5, <2>1, <2>2, <3>1
  <2>3. QED
    BY <1>1, <1>6, <1>10, <2>1, <2>2 DEF EscalationNext, Scan, Work, Skip, storeVars
<1>11. QED
  BY <1>1, <1>7, <1>8, <1>9, <1>10
  DEF Next, vars, storeVars, requestVars, escalationVars, Tick, LinkerNext, ReceiveAdd,
      FindTicket, FindBlocker, Walk, ReceiveRemove

\* The membership of the unexplained versions, and of those a step leaves.
LEMMA UnexplainedFacts ==
  \A x : x \in Unexplained <=>
    \E t \in Tickets : \E v \in 2..tickets[t].version :
      x = <<t, v>> /\ ~\E e \in Trail : e.ticket = t /\ e.at = v
BY DEF Unexplained

\* A version that is new to the unexplained ones is one whose entry was lost.
LEMMA UnexplainedSteps ==
  ASSUME TypeOK, [Next]_vars, NEW e, Notes(e) \/ Loses(e) \/ \E t \in Tickets : Bumps(t, e)
  PROVE  /\ Unexplained' \subseteq Unexplained \cup {<<e.ticket, e.at>>}
         /\ ~Loses(e) => Unexplained' \subseteq Unexplained
<1>0. \A t \in Tickets : tickets[t].version \in Nat /\ tickets'[t].version \in Nat
  BY TypeStep DEF TypeOK, StoreTypeOK, Row
<1>a. \A x : x \in Unexplained' <=>
        \E t \in Tickets : \E v \in 2..tickets'[t].version :
          x = <<t, v>> /\ ~\E f \in Trail' : f.ticket = t /\ f.at = v
  BY DEF Unexplained
<1> SUFFICES ASSUME NEW t \in Tickets, NEW v \in 2..tickets'[t].version,
                    ~\E f \in Trail' : f.ticket = t /\ f.at = v, <<t, v>> \notin Unexplained
             PROVE  Loses(e) /\ t = e.ticket /\ v = e.at
  BY <1>a
<1>1. ASSUME v \in 2..tickets[t].version
      PROVE  Loses(e) /\ t = e.ticket /\ v = e.at
  <2>1. PICK f \in Trail : f.ticket = t /\ f.at = v
    BY <1>1, UnexplainedFacts
  <2>2. f \notin Trail'
    BY <2>1
  <2>3. Loses(e) /\ f = e
    BY <2>2 DEF Notes, Loses, Bumps
  <2>4. QED
    BY <2>1, <2>3
<1>2. CASE SameVersions
  BY <1>1, <1>2 DEF SameVersions
<1>3. ASSUME NEW u \in Tickets, Bumps(u, e)
      PROVE  Loses(e) /\ t = e.ticket /\ v = e.at
  <2>1. CASE u = t /\ v = tickets[t].version + 1
    <3>1. e \in Trail' /\ e.ticket = t /\ e.at = v
      BY <1>3, <2>1 DEF Bumps
    <3>2. QED
      BY <3>1
  <2>2. CASE ~(u = t /\ v = tickets[t].version + 1)
    <3>1. v \in 2..tickets[t].version
      BY <1>0, <1>3, <2>2 DEF Bumps
    <3>2. QED
      BY <1>1, <3>1
  <2>3. QED
    BY <2>1, <2>2
<1>4. QED
  BY <1>2, <1>3 DEF Notes, Loses

LEMMA AuditStep == TypeOK /\ AuditInv /\ [Next]_vars => AuditInv'
<1> SUFFICES ASSUME TypeOK, AuditInv, [Next]_vars PROVE AuditInv'
  OBVIOUS
<1>0. /\ faults \in Nat /\ faults' \in Nat
      /\ \A t \in Tickets : tickets[t].version \in Nat /\ tickets'[t].version \in Nat
      /\ \A e \in Trail : e.ticket \in Tickets /\ e.at \in Nat
  BY StoreAssumption, TypeStep, TrailFacts DEF TypeOK, StoreTypeOK, Row
<1>1. PICK e : Notes(e) \/ Loses(e) \/ \E t \in Tickets : Bumps(t, e)
  BY VersionSteps
<1>2. \A t \in Tickets : tickets'[t].version >= tickets[t].version
  BY <1>0, <1>1 DEF Notes, Loses, Bumps, SameVersions
<1>3. \A t \in Tickets : tickets'[t].version >= 1
  BY <1>0, <1>2 DEF AuditInv
<1>4. ASSUME NEW o \in Trail', o.at # 0
      PROVE  2 <= o.at /\ o.at <= tickets'[o.ticket].version
  <2>1. CASE o \in Trail
    <3>1. 2 <= o.at /\ o.at <= tickets[o.ticket].version /\ o.ticket \in Tickets /\ o.at \in Nat
      BY <1>0, <1>4, <2>1 DEF AuditInv
    <3>2. QED
      BY <1>0, <1>2, <3>1
  <2>2. CASE o \notin Trail
    <3>1. PICK t \in Tickets : Bumps(t, e) /\ o = e
      BY <1>1, <1>4, <2>2 DEF Notes, Loses, Bumps
    <3>2. o.at = tickets[t].version + 1 /\ tickets'[t].version = o.at /\ o.ticket = t
          /\ tickets[t].version >= 1
      BY <3>1 DEF Bumps, AuditInv
    <3>3. QED
      BY <1>0, <3>2
  <2>3. QED
    BY <2>1, <2>2
<1>5. ASSUME NEW o \in Trail', NEW f \in Trail', o.at # 0, o.ticket = f.ticket, o.at = f.at
      PROVE  o = f
  <2>1. CASE o \in Trail /\ f \in Trail
    BY <1>5, <2>1 DEF AuditInv
  <2>2. ASSUME NEW x \in Trail, NEW y \in Trail', y \notin Trail, x.at # 0,
               x.ticket = y.ticket, x.at = y.at
        PROVE  FALSE
    <3>1. PICK t \in Tickets : Bumps(t, e) /\ y = e
      BY <1>1, <2>2 DEF Notes, Loses, Bumps
    <3>2. x.at = tickets[t].version + 1 /\ x.ticket = t
      BY <2>2, <3>1 DEF Bumps
    <3>3. x.at <= tickets[t].version
      BY <2>2, <3>2 DEF AuditInv
    <3>4. QED
      BY <1>0, <3>2, <3>3
  <2>3. CASE o \notin Trail /\ f \notin Trail
    BY <1>1, <1>5, <2>3 DEF Notes, Loses, Bumps
  <2>4. QED
    BY <1>5, <2>1, <2>2, <2>3
<1>6. IsFiniteSet(Unexplained)' /\ Cardinality(Unexplained)' <= faults'
  <2> DEFINE U == Unexplained
  <2>1. IsFiniteSet(U) /\ Cardinality(U) <= faults
    BY DEF AuditInv
  <2>2. CASE Loses(e)
    <3>1. U' \subseteq U \cup {<<e.ticket, e.at>>}
      BY <2>2, UnexplainedSteps
    <3> HIDE DEF U
    <3>2. /\ IsFiniteSet(U') /\ Cardinality(U') \in Nat /\ Cardinality(U) \in Nat
          /\ Cardinality(U') <= Cardinality(U) + 1
      BY <2>1, <3>1, AtMostOneMore
    <3>3. faults' = faults + 1
      BY <2>2 DEF Loses
    <3>4. Cardinality(U') <= faults'
      BY <1>0, <2>1, <3>2, <3>3
    <3>5. QED
      BY <3>2, <3>4 DEF U
  <2>3. CASE ~Loses(e)
    <3>1. U' \subseteq U
      BY <1>1, <2>3, UnexplainedSteps
    <3> HIDE DEF U
    <3>2. /\ IsFiniteSet(U') /\ Cardinality(U') \in Nat /\ Cardinality(U) \in Nat
          /\ Cardinality(U') <= Cardinality(U)
      BY <2>1, <3>1, NoMore
    <3>3. faults' >= faults
      BY <1>0, <1>1, <2>3 DEF Notes, Bumps
    <3>4. Cardinality(U') <= faults'
      BY <1>0, <2>1, <3>2, <3>3
    <3>5. QED
      BY <3>2, <3>4 DEF U
  <2>4. QED
    BY <2>2, <2>3
<1>7. QED
  BY <1>3, <1>4, <1>5, <1>6 DEF AuditInv

\* Each version of a ticket after its first has one entry, inserted or owed by the handler
\* that has just written it, and the versions without one are at most as many as the
\* INSERTs of entries that failed and the cycles that died: updateWithVersionCheck and
\* applyEscalation bump once and are followed by one entry, and nothing else touches a
\* version (PATCH, DELETE, restore, the cron job, the deletion of a user).
THEOREM VersionsAudited == Spec => []EveryVersionAudited
<1>1. Init => AuditInv
  <2> SUFFICES ASSUME Init PROVE AuditInv
    OBVIOUS
  <2>1. \A t \in Tickets : tickets[t].version = 1
    BY DomainAssumption DEF Init, StoreInit
  <2>2. Trail = {}
    BY DEF Init, StoreInit, ServiceInit, EscalationInit, Trail, Owed
  <2>3. Unexplained = {}
    BY <2>1, UnexplainedFacts
  <2>4. IsFiniteSet(Unexplained) /\ Cardinality(Unexplained) <= faults
    BY <2>3, FS_EmptySet DEF Init, StoreInit
  <2>5. QED
    BY <2>1, <2>2, <2>4 DEF AuditInv
<1>2. AuditInv => EveryVersionAudited
  BY DEF AuditInv, EveryVersionAudited
<1>3. QED
  BY <1>1, <1>2, AuditStep, TypeCorrect, PTL DEF Spec

-----------------------------------------------------------------------------
\* The requests that have come: finitely many at any time, however many may come.
Served == {r \in Requests : pc[r] # "new"}

\* The requests of one kind whose statement went through on a ticket.
DoneOn(op, t) == {r \in Requests : Wrote(r, op) /\ call[r].ticket = t}

\* At most one request moves in a step.
LEMMA OneMoves ==
  ASSUME TypeOK, [Next]_vars
  PROVE  \/ pc' = pc /\ call' = call
         \/ \E r \in Requests :
              /\ \A q \in Requests \ {r} : pc'[q] = pc[q] /\ call'[q] = call[q]
              /\ Handles(r) \/ Audit(r)
<1>1. CASE ServiceNext
  <2>1. PICK r \in Requests : Handles(r) \/ Audit(r)
    BY <1>1 DEF ServiceNext, Handles
  <2>2. QED
    BY <2>1, OthersStay
<1>2. QED
  BY <1>1 DEF Next, vars, requestVars

LEMMA ServedStep ==
  ASSUME TypeOK, IsFiniteSet(Served), [Next]_vars
  PROVE  IsFiniteSet(Served)'
<1>1. CASE pc' = pc
  <2>1. Served' = Served
    BY <1>1 DEF Served
  <2>2. QED
    BY <2>1
<1>2. ASSUME NEW r \in Requests, \A q \in Requests \ {r} : pc'[q] = pc[q]
      PROVE  IsFiniteSet(Served)'
  <2>1. Served' \subseteq Served \cup {r}
    BY <1>2 DEF Served
  <2>2. QED
    BY <2>1, AtMostOneMore
<1>3. QED
  BY <1>1, <1>2, OneMoves

LEMMA DoneFinite ==
  ASSUME IsFiniteSet(Served), NEW op, NEW t
  PROVE  IsFiniteSet(DoneOn(op, t)) /\ Cardinality(DoneOn(op, t)) \in Nat
<1>1. DoneOn(op, t) \subseteq Served
  BY DEF DoneOn, Served, Wrote
<1>2. QED
  BY <1>1, NoMore

\* The requests done on a ticket are those there were, and one whose handler writes.
LEMMA DoneSteps ==
  ASSUME TypeOK, [Next]_vars, NEW r \in Requests, Handles(r), NEW op, NEW t
  PROVE  /\ r \notin DoneOn(op, t)
         /\ DoneOn(op, t)' = IF Wrote(r, op)' /\ call'[r].ticket = t
                             THEN DoneOn(op, t) \cup {r} ELSE DoneOn(op, t)
<1>1. pc[r] \notin {"audit", "200"}
  BY HandlerSteps
<1>2. \A q \in Requests \ {r} : pc'[q] = pc[q] /\ call'[q] = call[q]
  BY OthersStay
<1>3. QED
  BY <1>1, <1>2 DEF DoneOn, Wrote

\* No step but a handler's write changes the requests done on a ticket.
LEMMA DoneStays ==
  ASSUME TypeOK, [Next]_vars, ~\E r \in Requests : Handles(r), NEW op, NEW t
  PROVE  DoneOn(op, t)' = DoneOn(op, t)
<1>1. CASE pc' = pc /\ call' = call
  BY <1>1 DEF DoneOn, Wrote
<1>2. ASSUME NEW r \in Requests, Audit(r), \A q \in Requests \ {r} : pc'[q] = pc[q]
      PROVE  DoneOn(op, t)' = DoneOn(op, t)
  <2>1. pc[r] = "audit" /\ pc'[r] = "200" /\ call' = call
    BY <1>2 DEF Audit, goto, TypeOK, ServiceTypeOK
  <2>2. QED
    BY <1>2, <2>1 DEF DoneOn, Wrote
<1>3. QED
  BY <1>1, <1>2, OneMoves

LEMMA DoneGrows ==
  ASSUME TypeOK, [Next]_vars, NEW op, NEW t
  PROVE  DoneOn(op, t) \subseteq DoneOn(op, t)'
BY WroteStays DEF DoneOn

\* Only the writes of DELETE and restore touch the mark of deletion.
LEMMA DeletedStays ==
  ASSUME TypeOK, [Next]_vars, NEW t \in Tickets,
         ~\E r \in Requests : DeleteWrite(r) \/ RestoreWrite(r)
  PROVE  tickets'[t].deleted = tickets[t].deleted
<1>0. tickets \in [Tickets -> Row]
  BY DEF TypeOK, StoreTypeOK
<1>1. CASE tickets' = tickets
  BY <1>1
<1>2. ASSUME NEW w \in Runners, NEW s \in scanned[w], Promote(w, s) \/ MarkOverdue(w, s)
      PROVE  tickets'[t].deleted = tickets[t].deleted
  <2> DEFINE up == [tickets[s.id] EXCEPT !.priority = NextPriority[s.priority], !.version = @ + 1]
             flag == [tickets[s.id] EXCEPT !.isOverdue = TRUE, !.version = @ + 1]
  <2>1. s.id \in Tickets /\ tickets[s.id] \in Row
    BY EscalatedFacts
  <2>2. up.deleted = tickets[s.id].deleted /\ flag.deleted = tickets[s.id].deleted
    BY <2>1 DEF Row
  <2>3. tickets' = tickets \/ SetRow(s.id, up) \/ SetRow(s.id, flag)
    BY <1>2 DEF Promote, MarkOverdue
  <2> HIDE DEF up, flag
  <2>4. QED
    BY <1>0, <2>1, <2>2, <2>3 DEF SetRow
<1>3. ASSUME NEW r \in Requests, PatchWrite(r)
      PROVE  tickets'[t].deleted = tickets[t].deleted
  <2>1. /\ call[r].ticket \in Tickets /\ tickets[call[r].ticket] \in Row
        /\ call[r].dto \in Patches
    BY <1>3, CallFacts DEF PatchWrite, Refusals
  <2>2. Patched(tickets[call[r].ticket], call[r].dto).deleted = tickets[call[r].ticket].deleted
    BY <2>1, PatchedFacts
  <2>3. QED
    BY <1>0, <1>3, <2>1, <2>2 DEF PatchWrite, SetRow
<1>4. CASE DeleteUser
  BY <1>4, UnassignFacts
<1>5. QED
  BY <1>1, <1>2, <1>3, <1>4
  DEF Next, vars, storeVars, Tick, ServiceNext, ReceivePatch, ReceiveOther, PatchRead,
      CountBlockers, FindAssignee, DeleteRead, RestoreRead, Audit, EscalationNext, Scan, Work,
      Skip, LogEscalation, Abort, LinkerNext, ReceiveAdd, FindTicket, FindBlocker, Walk, Insert,
      ReceiveRemove, Remove

\* What a step does to the deletions and restores of a ticket, and to its mark.
LEMMA DeletionSteps ==
  ASSUME TypeOK, [Next]_vars, NEW t \in Tickets
  PROVE  \/ /\ DoneOn("delete", t)' = DoneOn("delete", t)
            /\ DoneOn("restore", t)' = DoneOn("restore", t)
            /\ tickets'[t].deleted = tickets[t].deleted
         \/ /\ \E r : r \notin DoneOn("delete", t)
                       /\ DoneOn("delete", t)' = DoneOn("delete", t) \cup {r}
            /\ DoneOn("restore", t)' = DoneOn("restore", t)
            /\ ~tickets[t].deleted /\ tickets'[t].deleted
         \/ /\ DoneOn("delete", t)' = DoneOn("delete", t)
            /\ \E r : r \notin DoneOn("restore", t)
                       /\ DoneOn("restore", t)' = DoneOn("restore", t) \cup {r}
            /\ ~tickets'[t].deleted
<1>0. tickets \in [Tickets -> Row] /\ pc \in [Requests -> PCs]
  BY DEF TypeOK, StoreTypeOK, ServiceTypeOK
<1>1. CASE ~\E r \in Requests : Handles(r)
  BY <1>1, DoneStays, DeletedStays DEF Handles
<1>2. ASSUME NEW r \in Requests, Handles(r), ~DeleteWrite(r), ~RestoreWrite(r)
      PROVE  /\ DoneOn("delete", t)' = DoneOn("delete", t)
             /\ DoneOn("restore", t)' = DoneOn("restore", t)
  <2>1. pc'[r] \in {"audit", "200"} => call'[r].op = "patch"
    BY <1>2, HandlerSteps DEF PatchWrite
  <2>2. ~Wrote(r, "delete")' /\ ~Wrote(r, "restore")'
    BY <2>1 DEF Wrote
  <2>3. QED
    BY <1>2, <2>2, DoneSteps
<1>3. ASSUME NEW r \in Requests, Handles(r), ~DeleteWrite(r), ~RestoreWrite(r)
      PROVE  tickets'[t].deleted = tickets[t].deleted
  <2>1. ~\E q \in Requests : DeleteWrite(q) \/ RestoreWrite(q)
    <3> SUFFICES ASSUME NEW q \in Requests, DeleteWrite(q) \/ RestoreWrite(q) PROVE FALSE
      OBVIOUS
    <3>1. q # r /\ pc'[q] = pc[q] /\ pc[q] = "write"
      BY <1>3, OthersStay DEF DeleteWrite, RestoreWrite
    <3>2. pc'[q] # "write"
      BY <1>0 DEF DeleteWrite, RestoreWrite, record, refuse, goto
    <3>3. QED
      BY <3>1, <3>2
  <2>2. QED
    BY <2>1, DeletedStays
<1>4. ASSUME NEW r \in Requests, DeleteWrite(r) \/ RestoreWrite(r)
      PROVE  \/ /\ ~Wrote(r, "delete")' /\ ~Wrote(r, "restore")' /\ tickets' = tickets
             \/ /\ Wrote(r, "delete")' /\ ~Wrote(r, "restore")'
                /\ ~tickets[call[r].ticket].deleted /\ tickets'[call[r].ticket].deleted
                /\ \A u \in Tickets \ {call[r].ticket} : tickets'[u] = tickets[u]
                /\ call' = call
             \/ /\ Wrote(r, "restore")' /\ ~Wrote(r, "delete")'
                /\ ~tickets'[call[r].ticket].deleted
                /\ \A u \in Tickets \ {call[r].ticket} : tickets'[u] = tickets[u]
                /\ call' = call
  <2> DEFINE u == call[r].ticket
  <2>1. u \in Tickets /\ tickets[u] \in Row
    BY <1>4, CallFacts DEF DeleteWrite, RestoreWrite, Refusals
  <2>2. \A d \in BOOLEAN : [tickets[u] EXCEPT !.deleted = d].deleted = d
    BY <2>1 DEF Row
  <2>3. CASE DeleteWrite(r)
    BY <1>0, <2>1, <2>2, <2>3 DEF DeleteWrite, SetRow, record, refuse, goto, Wrote
  <2>4. CASE RestoreWrite(r)
    BY <1>0, <2>1, <2>2, <2>4 DEF RestoreWrite, SetRow, record, goto, Wrote
  <2>5. QED
    BY <1>4, <2>3, <2>4
<1>5. ASSUME NEW r \in Requests, DeleteWrite(r) \/ RestoreWrite(r)
      PROVE  \/ /\ DoneOn("delete", t)' = DoneOn("delete", t)
                /\ DoneOn("restore", t)' = DoneOn("restore", t)
                /\ tickets'[t].deleted = tickets[t].deleted
             \/ /\ r \notin DoneOn("delete", t)
                /\ DoneOn("delete", t)' = DoneOn("delete", t) \cup {r}
                /\ DoneOn("restore", t)' = DoneOn("restore", t)
                /\ ~tickets[t].deleted /\ tickets'[t].deleted
             \/ /\ DoneOn("delete", t)' = DoneOn("delete", t)
                /\ r \notin DoneOn("restore", t)
                /\ DoneOn("restore", t)' = DoneOn("restore", t) \cup {r}
                /\ ~tickets'[t].deleted
  <2>1. Handles(r)
    BY <1>5 DEF Handles
  <2>2. QED
    BY <1>4, <1>5, <2>1, DoneSteps
<1>6. QED
  BY <1>1, <1>2, <1>3, <1>5

\* A ticket is deleted at most once more often than it is restored, and then it is
\* deleted now: of two concurrent DELETEs the row count of softDelete lets one through.
THEOREM DeletesDelete == Spec => []EachDeleteDeletes
<1> DEFINE Turns(t) ==
             Cardinality(DoneOn("delete", t)) - Cardinality(DoneOn("restore", t))
               <= IF tickets[t].deleted THEN 1 ELSE 0
           Inv == IsFiniteSet(Served) /\ \A t \in Tickets : Turns(t)
<1>1. Init => Inv
  <2> SUFFICES ASSUME Init PROVE Inv
    OBVIOUS
  <2>1. Served = {} /\ \A op, t : DoneOn(op, t) = {}
    BY DEF Init, ServiceInit, Served, DoneOn, Wrote
  <2>2. QED
    BY <2>1, FS_EmptySet
<1>2. TypeOK /\ Inv /\ [Next]_vars => Inv'
  <2> SUFFICES ASSUME TypeOK, Inv, [Next]_vars PROVE Inv'
    OBVIOUS
  <2>1. IsFiniteSet(Served)'
    BY ServedStep
  <2>2. ASSUME NEW t \in Tickets PROVE Turns(t)'
    <3> DEFINE D == DoneOn("delete", t)
               R == DoneOn("restore", t)
    <3>1. /\ IsFiniteSet(D) /\ IsFiniteSet(R)
          /\ Cardinality(D) \in Nat /\ Cardinality(R) \in Nat
      BY DoneFinite
    <3>2. Cardinality(D) - Cardinality(R) <= IF tickets[t].deleted THEN 1 ELSE 0
      OBVIOUS
    <3>3. CASE D' = D /\ R' = R /\ tickets'[t].deleted = tickets[t].deleted
      BY <3>2, <3>3
    <3>4. CASE /\ \E r : r \notin D /\ D' = D \cup {r}
               /\ R' = R /\ ~tickets[t].deleted /\ tickets'[t].deleted
      <4>1. Cardinality(D)' = Cardinality(D) + 1
        BY <3>1, <3>4, OneMore
      <4>2. Cardinality(R)' = Cardinality(R)
        BY <3>4
      <4>3. QED
        BY <3>1, <3>2, <3>4, <4>1, <4>2
    <3>5. CASE /\ D' = D /\ \E r : r \notin R /\ R' = R \cup {r}
               /\ ~tickets'[t].deleted
      <4>1. Cardinality(R)' = Cardinality(R) + 1
        BY <3>1, <3>5, OneMore
      <4>2. Cardinality(D)' = Cardinality(D)
        BY <3>5
      <4>3. QED
        BY <3>1, <3>2, <3>5, <4>1, <4>2
    <3>6. QED
      BY <3>3, <3>4, <3>5, DeletionSteps
  <2>3. QED
    BY <2>1, <2>2
<1>3. Inv => EachDeleteDeletes
  BY DEF EachDeleteDeletes, DoneOn
<1>4. QED
  BY <1>1, <1>2, <1>3, TypeCorrect, PTL DEF Spec

-----------------------------------------------------------------------------
\* How far a ticket may still be escalated: the runners that are, or may come to be, at
\* one of the lowest k + 1 rungs with it, by the row or by a snapshot; those that may yet
\* set the flag; and the weight of them all, where a promotion from one rung may put
\* every other runner back to the next.
Rung == [p \in Priorities |->
  CASE p = "LOW" -> 0 [] p = "MEDIUM" -> 1 [] p = "HIGH" -> 2 [] p = "CRITICAL" -> 3]

Low(t, k) == {w \in Runners : \/ Rung[tickets[t].priority] <= k
                              \/ \E s \in scanned[w] : s.id = t /\ Rung[s.priority] <= k}

Unflagged(t) == {w \in Runners : \/ ~tickets[t].isOverdue
                                 \/ \E s \in scanned[w] : s.id = t /\ ~s.isOverdue}

Escalations(t) == {e \in Trail : e.action = "PRIORITY_ESCALATED" /\ e.ticket = t}

Weight(t) ==
  Cardinality(Low(t, 2)) + Cardinality(Runners) *
    (Cardinality(Low(t, 1)) + Cardinality(Runners) * Cardinality(Low(t, 0)))

\* A cycle scans a ticket once.
OneEach == \A w \in Runners : \A s, o \in scanned[w] : s.id = o.id => s = o

LEMMA RungFacts ==
  \A p \in Priorities : /\ Rung[p] \in 0..3
                        /\ p # "CRITICAL" => Rung[p] \in 0..2 /\ Rung[NextPriority[p]] = Rung[p] + 1
BY DEF Rung, NextPriority, Priorities

LEMMA Horner ==
  ASSUME NEW n \in Nat, NEW a \in Int, NEW b \in Int, NEW x \in Int, NEW y \in Int
  PROVE  /\ y <= x /\ b <= a => b + n * y <= a + n * x
         /\ y <= x - 1 /\ b <= a + n - 1 => b + n * y <= a + n * x - 1
<1>1. n * x = n * y + n * (x - y) /\ n * (x - y) \in Int /\ n * y \in Int /\ n * x \in Int
  OBVIOUS
<1>2. y <= x => n * (x - y) >= 0
  OBVIOUS
<1>3. n * (x - 1) = n * x - n /\ (y <= x - 1 => n * (x - 1 - y) >= 0)
      /\ n * (x - 1) = n * y + n * (x - 1 - y) /\ n * (x - 1 - y) \in Int
  OBVIOUS
<1>4. QED
  BY <1>1, <1>2, <1>3

LEMMA LowFinite ==
  ASSUME IsFiniteSet(Runners), NEW t, NEW k
  PROVE  /\ Cardinality(Runners) \in Nat
         /\ IsFiniteSet(Low(t, k)) /\ Cardinality(Low(t, k)) \in 0..Cardinality(Runners)
         /\ IsFiniteSet(Low(t, k))' /\ Cardinality(Low(t, k))' \in 0..Cardinality(Runners)
<1>1. Low(t, k) \subseteq Runners /\ Low(t, k)' \subseteq Runners
  BY DEF Low
<1>2. QED
  BY <1>1, NoMore

\* The weight is a number, and bounded.
LEMMA WeightMax ==
  ASSUME IsFiniteSet(Runners), NEW t, NEW n, n = Cardinality(Runners)
  PROVE  /\ Weight(t) \in Nat /\ Weight(t)' \in Nat
         /\ Weight(t) <= n + n * (n + n * n) /\ Weight(t)' <= n + n * (n + n * n)
<1>1. n \in Nat
  BY LowFinite
<1>2. \A k \in 0..2 : Cardinality(Low(t, k)) \in 0..n /\ Cardinality(Low(t, k))' \in 0..n
  BY LowFinite
<1>3. ASSUME NEW a \in 0..n, NEW b \in 0..n, NEW c \in 0..n
      PROVE  c + n * (b + n * a) \in Nat /\ c + n * (b + n * a) <= n + n * (n + n * n)
  <2>1. b + n * a <= n + n * n /\ b + n * a \in Nat
    BY <1>1, Horner
  <2>2. c + n * (b + n * a) <= n + n * (n + n * n)
    BY <1>1, <2>1, Horner
  <2>3. c + n * (b + n * a) \in Nat
    BY <1>1, <2>1
  <2>4. QED
    BY <2>2, <2>3
<1>4. \E a \in 0..n, b \in 0..n, c \in 0..n : Weight(t) = c + n * (b + n * a)
  BY <1>1, <1>2 DEF Weight
<1>5. \E a \in 0..n, b \in 0..n, c \in 0..n : Weight(t)' = c + n * (b + n * a)
  BY <1>1, <1>2 DEF Weight
<1>6. QED
  BY <1>3, <1>4, <1>5

\* The weight does not grow while no runner comes lower ...
LEMMA WeightStays ==
  ASSUME IsFiniteSet(Runners), NEW t, \A k \in 0..2 : Low(t, k)' \subseteq Low(t, k)
  PROVE  Weight(t)' <= Weight(t)
<1> DEFINE n == Cardinality(Runners)
           a(k) == Cardinality(Low(t, k))
           b(k) == Cardinality(Low(t, k)')
<1>1. n \in Nat /\ \A k \in 0..2 : a(k) \in Nat /\ b(k) \in Nat
  BY LowFinite
<1>2. \A k \in 0..2 : b(k) <= a(k)
  BY LowFinite, NoMore
<1>3. Weight(t) = a(2) + n * (a(1) + n * a(0)) /\ Weight(t)' = b(2) + n * (b(1) + n * b(0))
  BY DEF Weight
<1> HIDE DEF n, a, b
<1>4. b(1) + n * b(0) <= a(1) + n * a(0)
  BY <1>1, <1>2, Horner
<1>5. b(2) + n * (b(1) + n * b(0)) <= a(2) + n * (a(1) + n * a(0))
  BY <1>1, <1>2, <1>4, Horner
<1>6. QED
  BY <1>3, <1>5

\* ... and falls when one leaves a rung, even if it takes all others to the next.
LEMMA WeightFalls ==
  ASSUME IsFiniteSet(Runners), NEW t, NEW w \in Runners, NEW j \in 0..2,
         \A k \in 0..j : Low(t, k)' \subseteq Low(t, k), w \notin Low(t, j)',
         \A k \in j..2 : w \in Low(t, k)
  PROVE  Weight(t)' <= Weight(t) - 1
<1> DEFINE n == Cardinality(Runners)
           a(k) == Cardinality(Low(t, k))
           b(k) == Cardinality(Low(t, k)')
<1>1. n \in Nat /\ \A k \in 0..2 : a(k) \in 0..n /\ b(k) \in 0..n
  BY LowFinite
<1>2. \A k \in 0..2 : k <= j => b(k) <= a(k)
  BY LowFinite, NoMore
<1>3. b(j) <= a(j) - 1
  <2> DEFINE L == Low(t, j)'
  <2>1. L \cup {w} \subseteq Low(t, j) /\ IsFiniteSet(L) /\ IsFiniteSet(Low(t, j))
    BY LowFinite
  <2>2. w \notin L
    OBVIOUS
  <2> HIDE DEF L
  <2>3. Cardinality(L \cup {w}) = Cardinality(L) + 1 /\ Cardinality(L \cup {w}) <= a(j)
    BY <2>1, <2>2, OneMore, NoMore
  <2>4. b(j) = Cardinality(L)
    BY DEF L
  <2>5. Cardinality(L) \in Nat /\ a(j) \in Nat
    BY <1>1, <2>4
  <2> HIDE DEF a, b
  <2>6. QED
    BY <2>3, <2>4, <2>5
<1>4. \A k \in 0..2 : k > j => b(k) <= a(k) + n - 1
  <2> SUFFICES ASSUME NEW k \in 0..2, k > j PROVE a(k) >= 1
    BY <1>1
  <2>1. w \in Low(t, k) /\ IsFiniteSet(Low(t, k))
    BY LowFinite
  <2>2. a(k) # 0
    BY <2>1, FS_EmptySet
  <2> HIDE DEF a, b
  <2>3. QED
    BY <1>1, <2>2
<1> DEFINE X == a(1) + n * a(0)
           Y == b(1) + n * b(0)
<1>5. Weight(t) = a(2) + n * X /\ Weight(t)' = b(2) + n * Y
  BY DEF Weight
<1> HIDE DEF n, a, b
<1>6. /\ a(0) \in Int /\ a(1) \in Int /\ a(2) \in Int /\ b(0) \in Int /\ b(1) \in Int /\ b(2) \in Int
      /\ X \in Int /\ Y \in Int
  BY <1>1
<1>7. CASE j \in {0, 1}
  <2>1. b(2) <= a(2) + n - 1
    BY <1>4, <1>7
  <2>2. Y <= X - 1
    <3>1. CASE j = 0
      <4>1. b(0) <= a(0) - 1 /\ b(1) <= a(1) + n - 1
        BY <1>3, <1>4, <3>1
      <4>2. QED
        BY SMTT(20), <1>1, <1>6, <4>1, Horner
    <3>2. CASE j = 1
      <4>1. b(0) <= a(0) /\ b(1) <= a(1) - 1
        BY <1>2, <1>3, <3>2
      <4>2. b(1) + n * b(0) <= a(1) - 1 + n * a(0)
        BY <1>1, <1>6, <4>1, Horner
      <4>3. n * b(0) \in Int /\ n * a(0) \in Int
        BY <1>1, <1>6
      <4>4. QED
        BY <1>6, <4>2, <4>3
    <3>3. QED
      BY <1>7, <3>1, <3>2
  <2> HIDE DEF X, Y
  <2>3. b(2) + n * Y <= a(2) + n * X - 1
    BY <1>1, <1>6, <2>1, <2>2, Horner
  <2>4. n * X \in Int /\ n * Y \in Int
    BY <1>1, <1>6
  <2>5. QED
    BY <1>5, <1>6, <2>3, <2>4
<1>8. CASE j = 2
  <2>1. b(0) <= a(0) /\ b(1) <= a(1) /\ b(2) <= a(2) - 1
    BY <1>2, <1>3, <1>8
  <2>2. Y <= X
    BY <1>1, <1>6, <2>1, Horner
  <2> HIDE DEF X, Y
  <2>3. b(2) + n * Y <= a(2) - 1 + n * X
    BY <1>1, <1>6, <2>1, <2>2, Horner
  <2>4. n * X \in Int /\ n * Y \in Int
    BY <1>1, <1>6
  <2>5. QED
    BY <1>5, <1>6, <2>3, <2>4
<1>9. QED
  BY <1>7, <1>8

\* A runner loses snapshots, or has scanned the rows as they are.
LEMMA ScanSteps ==
  ASSUME TypeOK, [Next]_vars, NEW w \in Runners
  PROVE  \/ scanned'[w] \subseteq scanned[w]
         \/ /\ UNCHANGED tickets
            /\ \A s \in scanned'[w] : s.id \in Tickets /\ s = SnapshotOf(s.id)
<1>0. scanned \in [Runners -> SUBSET Snapshot]
  BY DEF TypeOK, EscalationTypeOK
<1>1. ASSUME NEW v \in Runners, Scan(v)
      PROVE  \/ scanned'[w] \subseteq scanned[w]
             \/ /\ UNCHANGED tickets
                /\ \A s \in scanned'[w] : s.id \in Tickets /\ s = SnapshotOf(s.id)
  <2>1. CASE v = w
    <3>1. UNCHANGED tickets
      BY <1>1 DEF Scan, storeVars
    <3>2. \A s \in scanned'[w] : \E t \in Tickets : s = SnapshotOf(t)
      BY <1>0, <1>1, <2>1 DEF Scan
    <3>3. \A t : SnapshotOf(t).id = t
      BY DEF SnapshotOf
    <3>4. QED
      BY <3>1, <3>2, <3>3
  <2>2. CASE v # w
    BY <1>0, <1>1, <2>2 DEF Scan
  <2>3. QED
    BY <2>1, <2>2
<1>2. ASSUME NEW v \in Runners, Abort(v) \/ \E s \in scanned[v] : Consume(v, s)
      PROVE  scanned'[w] \subseteq scanned[w]
  BY <1>0, <1>2 DEF Abort, Consume
<1>3. CASE EscalationNext
  BY <1>1, <1>2, <1>3 DEF EscalationNext, Work, Promote, MarkOverdue, Skip,
     LogEscalation
<1>4. QED
  BY <1>3 DEF Next, vars, escalationVars

LEMMA OneEachStep == TypeOK /\ OneEach /\ [Next]_vars => OneEach'
<1> SUFFICES ASSUME TypeOK, OneEach, [Next]_vars,
                    NEW w \in Runners, NEW s \in scanned'[w], NEW o \in scanned'[w], s.id = o.id
             PROVE  s = o
  BY DEF OneEach
<1>1. CASE scanned'[w] \subseteq scanned[w]
  BY <1>1 DEF OneEach
<1>2. CASE s = SnapshotOf(s.id) /\ o = SnapshotOf(o.id)
  BY <1>2
<1>3. QED
  BY <1>1, <1>2, ScanSteps

\* No runner comes to a rung, or to an unflagged ticket, if the row does not.
LEMMA LowSteps ==
  ASSUME TypeOK, [Next]_vars, NEW t \in Tickets, NEW k,
         Rung[tickets'[t].priority] <= k => Rung[tickets[t].priority] <= k
  PROVE  Low(t, k)' \subseteq Low(t, k)
<1> SUFFICES ASSUME NEW w \in Runners, w \in Low(t, k)', w \notin Low(t, k) PROVE FALSE
  BY DEF Low
<1>1. ~(Rung[tickets[t].priority] <= k) /\ ~(Rung[tickets'[t].priority] <= k)
  BY DEF Low
<1>2. PICK s \in scanned'[w] : s.id = t /\ Rung[s.priority] <= k
  BY <1>1 DEF Low
<1>3. s \notin scanned[w]
  BY <1>2 DEF Low
<1>4. s = SnapshotOf(t)
  BY <1>2, <1>3, ScanSteps
<1>5. QED
  BY <1>1, <1>2, <1>4 DEF SnapshotOf

LEMMA UnflaggedSteps ==
  ASSUME TypeOK, [Next]_vars, NEW t \in Tickets,
         tickets[t].isOverdue => tickets'[t].isOverdue
  PROVE  Unflagged(t)' \subseteq Unflagged(t)
<1> SUFFICES ASSUME NEW w \in Runners, w \in Unflagged(t)', w \notin Unflagged(t) PROVE FALSE
  BY DEF Unflagged
<1>1. tickets[t].isOverdue /\ tickets'[t].isOverdue
  BY DEF Unflagged
<1>2. PICK s \in scanned'[w] : s.id = t /\ ~s.isOverdue
  BY <1>1 DEF Unflagged
<1>3. s \notin scanned[w]
  BY <1>2 DEF Unflagged
<1>4. s = SnapshotOf(t)
  BY <1>2, <1>3, ScanSteps
<1>5. QED
  BY <1>1, <1>2, <1>4 DEF SnapshotOf

\* A promotion takes its runner off the lowest rung it was at, if it writes at all.
LEMMA Promotes ==
  ASSUME TypeOK, OneEach, [Next]_vars, NEW w \in Runners, NEW s \in scanned[w],
         Promote(w, s), tickets' # tickets
  PROVE  /\ \E j \in 0..2 :
              /\ \A k \in 0..j : Low(s.id, k)' \subseteq Low(s.id, k)
              /\ w \notin Low(s.id, j)'
              /\ \A k \in j..2 : w \in Low(s.id, k)
         /\ Unflagged(s.id)' \subseteq Unflagged(s.id)
         /\ \A t \in Tickets \ {s.id} : tickets'[t] = tickets[t]
<1> DEFINE t == s.id
           up == [tickets[t] EXCEPT !.priority = NextPriority[s.priority], !.version = @ + 1]
<1>1. /\ t \in Tickets /\ s.priority \in Priorities /\ tickets[t] \in Row
      /\ s.priority # "CRITICAL" /\ tickets[t].priority \in Priorities
  BY EscalatedFacts DEF Promote, Row
<1>2. up.priority = NextPriority[s.priority] /\ up.isOverdue = tickets[t].isOverdue
  BY <1>1 DEF Row
<1>3. SetRow(t, up)
  BY DEF Promote
<1> HIDE DEF up
<1>4. tickets'[t] = up /\ \A u \in Tickets \ {t} : tickets'[u] = tickets[u]
  BY <1>1, <1>3 DEF SetRow, TypeOK, StoreTypeOK
<1>5. Unflagged(t)' \subseteq Unflagged(t)
  BY <1>1, <1>2, <1>4, UnflaggedSteps
<1>6. PICK p \in 0..2, q \in 0..3 :
        /\ p = Rung[s.priority] /\ q = Rung[tickets[t].priority]
        /\ Rung[tickets'[t].priority] = p + 1
  BY <1>1, <1>2, <1>4, RungFacts
<1> DEFINE j == IF q < p THEN q ELSE p
<1>7. j \in 0..2 /\ j <= p /\ j <= q /\ (j = p \/ j = q)
  OBVIOUS
<1> HIDE DEF j
<1>8. \A k \in 0..j : Low(t, k)' \subseteq Low(t, k)
  <2> SUFFICES ASSUME NEW k \in 0..j PROVE Low(t, k)' \subseteq Low(t, k)
    OBVIOUS
  <2>1. ~(Rung[tickets'[t].priority] <= k)
    BY <1>6, <1>7
  <2>2. QED
    BY <1>1, <2>1, LowSteps
<1>9. w \notin Low(t, j)'
  <2>1. ~(Rung[tickets'[t].priority] <= j)
    BY <1>6, <1>7
  <2>2. scanned'[w] = scanned[w] \ {s}
    BY DEF Promote, Consume, TypeOK, EscalationTypeOK
  <2>3. \A o \in scanned'[w] : o.id # t
    BY <2>2 DEF OneEach
  <2>4. QED
    BY <2>1, <2>3 DEF Low
<1>10. \A k \in j..2 : w \in Low(t, k)
  <2> SUFFICES ASSUME NEW k \in j..2 PROVE w \in Low(t, k)
    OBVIOUS
  <2>1. q <= k \/ p <= k
    BY <1>7
  <2>2. QED
    BY <1>6, <2>1 DEF Low
<1>11. QED
  BY <1>4, <1>5, <1>7, <1>8, <1>9, <1>10

\* The flag takes its runner off those that may set it.
LEMMA Flags ==
  ASSUME TypeOK, OneEach, [Next]_vars, NEW w \in Runners, NEW s \in scanned[w],
         MarkOverdue(w, s), tickets' # tickets
  PROVE  /\ \A k \in 0..2 : Low(s.id, k)' \subseteq Low(s.id, k)
         /\ Unflagged(s.id)' \subseteq Unflagged(s.id)
         /\ w \in Unflagged(s.id) /\ w \notin Unflagged(s.id)'
         /\ \A t \in Tickets \ {s.id} : tickets'[t] = tickets[t]
<1> DEFINE t == s.id
           up == [tickets[t] EXCEPT !.isOverdue = TRUE, !.version = @ + 1]
<1>1. t \in Tickets /\ tickets[t] \in Row
  BY EscalatedFacts
<1>2. up.priority = tickets[t].priority /\ up.isOverdue
  BY <1>1 DEF Row
<1>3. SetRow(t, up)
  BY DEF MarkOverdue
<1> HIDE DEF up
<1>4. tickets'[t] = up /\ \A u \in Tickets \ {t} : tickets'[u] = tickets[u]
  BY <1>1, <1>3 DEF SetRow, TypeOK, StoreTypeOK
<1>5. Unflagged(t)' \subseteq Unflagged(t)
  BY <1>1, <1>2, <1>4, UnflaggedSteps
<1>6. \A k \in 0..2 : Low(t, k)' \subseteq Low(t, k)
  BY <1>1, <1>2, <1>4, LowSteps
<1>7. w \in Unflagged(t)
  BY DEF MarkOverdue, Unflagged
<1>8. w \notin Unflagged(t)'
  <2>1. scanned'[w] = scanned[w] \ {s}
    BY DEF MarkOverdue, Consume, TypeOK, EscalationTypeOK
  <2>2. \A o \in scanned'[w] : o.id # t
    BY <2>1 DEF OneEach
  <2>3. QED
    BY <1>2, <1>4, <2>2 DEF Unflagged
<1>9. QED
  BY <1>4, <1>5, <1>6, <1>7, <1>8

\* A step that writes no escalation of a ticket.
NoClimb(t) ==
  /\ \A k \in 0..2 : Low(t, k)' \subseteq Low(t, k)
  /\ Unflagged(t)' \subseteq Unflagged(t)
  /\ Escalations(t)' \subseteq Escalations(t)

\* A step that may: by a promotion, or by the flag.
Climb(t) ==
  /\ \E e : Escalations(t)' \subseteq Escalations(t) \cup {e}
  /\ Unflagged(t)' \subseteq Unflagged(t)
  /\ \E w \in Runners :
       \/ \E j \in 0..2 :
            /\ \A k \in 0..j : Low(t, k)' \subseteq Low(t, k)
            /\ w \notin Low(t, j)'
            /\ \A k \in j..2 : w \in Low(t, k)
       \/ /\ \A k \in 0..2 : Low(t, k)' \subseteq Low(t, k)
          /\ w \in Unflagged(t) /\ w \notin Unflagged(t)'

\* An update of the ticket may start it all again.
Updated(t) ==
  /\ Escalations(t)' \subseteq Escalations(t)
  /\ \E r : r \notin DoneOn("patch", t) /\ DoneOn("patch", t)' = DoneOn("patch", t) \cup {r}

LEMMA RowStays ==
  ASSUME TypeOK, [Next]_vars, NEW t \in Tickets,
         tickets'[t].priority = tickets[t].priority, tickets'[t].isOverdue = tickets[t].isOverdue,
         Escalations(t)' \subseteq Escalations(t)
  PROVE  NoClimb(t)
BY LowSteps, UnflaggedSteps DEF NoClimb

\* Only a cycle owes the entry of an escalation; to insert or lose it adds none.
LEMMA EscalationsStay ==
  ASSUME TypeOK, [Next]_vars, NEW t,
         UNCHANGED owed \/ \E w \in Runners : LogEscalation(w) \/ Abort(w)
  PROVE  Escalations(t)' \subseteq Escalations(t)
<1> SUFFICES ASSUME NEW e \in Trail', e.action = "PRIORITY_ESCALATED" PROVE e \in Trail
  BY DEF Escalations
<1>1. e # NoEntry
  BY DEF NoEntry
<1>2. ASSUME NEW r \in Requests, e = entry'[r] PROVE FALSE
  BY <1>1, <1>2, TypeStep DEF TypeOK, ServiceTypeOK, IsEntryOf
<1>3. ASSUME NEW w \in Runners, e = owed'[w] PROVE e \in Trail
  BY <1>1, <1>3 DEF Trail, Owed, LogEscalation, Abort, Owe, TypeOK, EscalationTypeOK
<1>4. ASSUME e \in audit' PROVE e \in Trail
  <2>1. CASE e \in audit
    BY <1>1, <2>1 DEF Trail
  <2>2. ASSUME NEW r \in Requests, Audit(r), e \notin audit PROVE e \in Trail
    <3>1. e = entry[r]
      BY <1>4, <2>2 DEF Audit, Log
    <3>2. QED
      BY <1>1, <3>1 DEF Trail, Owed
  <2>3. ASSUME NEW w \in Runners, LogEscalation(w), e \notin audit PROVE e \in Trail
    <3>1. e = owed[w]
      BY <1>4, <2>3 DEF LogEscalation, Log
    <3>2. QED
      BY <1>1, <3>1 DEF Trail, Owed
  <2>4. ASSUME NEW l \in Linkers, Insert(l) \/ Remove(l), e \notin audit
        PROVE  e.action # "PRIORITY_ESCALATED"
    BY <1>4, <2>4 DEF Insert, Remove, Log, EdgeEntry
  <2>5. QED
    BY <1>4, <2>1, <2>2, <2>3, <2>4
    DEF Next, vars, storeVars, Tick, DeleteUser, ServiceNext, ReceivePatch, ReceiveOther, PatchRead,
        CountBlockers, FindAssignee, PatchWrite, DeleteRead, DeleteWrite, RestoreRead,
        RestoreWrite, EscalationNext, Scan, Work, Promote, MarkOverdue, Skip, Abort,
        LinkerNext, ReceiveAdd, FindTicket, FindBlocker, Walk, ReceiveRemove
<1>5. QED
  BY <1>2, <1>3, <1>4 DEF Trail, Owed

LEMMA EscalationClimbs ==
  ASSUME TypeOK, OneEach, [Next]_vars, NEW t \in Tickets, EscalationNext, UNCHANGED entry
  PROVE  NoClimb(t) \/ Climb(t)
<1>1. CASE UNCHANGED <<tickets, owed>>
  BY <1>1, RowStays, EscalationsStay
<1>2. CASE \E w \in Runners : LogEscalation(w) \/ Abort(w)
  <2>1. UNCHANGED tickets
    BY <1>2 DEF LogEscalation, Abort
  <2>2. QED
    BY <1>2, <2>1, RowStays, EscalationsStay
<1>3. ASSUME NEW w \in Runners, NEW s \in scanned[w], Promote(w, s) \/ MarkOverdue(w, s),
             ~UNCHANGED <<tickets, owed>>
      PROVE  NoClimb(t) \/ Climb(t)
  <2>1. tickets' # tickets
    <3> DEFINE up == [tickets[s.id] EXCEPT !.priority = NextPriority[s.priority], !.version = @ + 1]
               flag == [tickets[s.id] EXCEPT !.isOverdue = TRUE, !.version = @ + 1]
    <3>1. up.version # tickets[s.id].version /\ flag.version # tickets[s.id].version
      <4>1. tickets[s.id].version \in Nat
        BY <1>3, EscalatedFacts DEF Row
      <4>2. /\ up.version = tickets[s.id].version + 1
            /\ flag.version = tickets[s.id].version + 1
        BY <1>3, EscalatedFacts
      <4> HIDE DEF up, flag
      <4>3. QED
        BY <4>1, <4>2
    <3>2. SetRow(s.id, up) \/ SetRow(s.id, flag)
      BY <1>3 DEF Promote, MarkOverdue
    <3> HIDE DEF up, flag
    <3>3. s.id \in Tickets /\ tickets \in [Tickets -> Row]
      BY <1>3, EscalatedFacts DEF TypeOK, StoreTypeOK
    <3>4. QED
      BY <3>1, <3>2, <3>3 DEF SetRow
  <2>2. PICK e : e.ticket = s.id /\ Owe(w, e) /\ e # NoEntry
    <3>1. \A to, at : /\ EscalationEntry(s, to, at).ticket = s.id
                      /\ EscalationEntry(s, to, at).action = "PRIORITY_ESCALATED"
      BY DEF EscalationEntry
    <3>2. \A to, at : EscalationEntry(s, to, at) # NoEntry
      BY <3>1 DEF NoEntry
    <3>3. QED
      BY <1>3, <3>1, <3>2 DEF Promote, MarkOverdue
  <2>3. Trail' = Trail \cup {e}
    <3>1. audit' = audit /\ owed[w] = NoEntry
      BY <1>3 DEF Promote, MarkOverdue, First
    <3>2. QED
      BY <2>2, <3>1, OwedChanges
  <2>4. CASE t # s.id
    <3>1. tickets'[t] = tickets[t]
      BY <1>3, <2>1, <2>4, Promotes, Flags
    <3>2. Escalations(t)' \subseteq Escalations(t)
      BY <2>2, <2>3, <2>4 DEF Escalations
    <3>3. QED
      BY <3>1, <3>2, RowStays
  <2>5. CASE t = s.id
    <3>1. Escalations(t)' \subseteq Escalations(t) \cup {e}
      BY <2>3 DEF Escalations
    <3>2. CASE Promote(w, s)
      BY <1>3, <2>1, <2>5, <3>1, <3>2, Promotes DEF Climb
    <3>3. CASE MarkOverdue(w, s)
      BY <1>3, <2>1, <2>5, <3>1, <3>3, Flags DEF Climb
    <3>4. QED
      BY <1>3, <3>2, <3>3
  <2>6. QED
    BY <2>4, <2>5
<1>4. QED
  BY <1>1, <1>2, <1>3 DEF EscalationNext, Scan, Work, Skip, storeVars

LEMMA RequestClimbs ==
  ASSUME TypeOK, [Next]_vars, NEW t \in Tickets, UNCHANGED escalationVars,
         NEW r \in Requests, PatchWrite(r) \/ DeleteWrite(r) \/ RestoreWrite(r)
  PROVE  NoClimb(t) \/ Updated(t)
<1> DEFINE u == call[r].ticket
<1>1. /\ u \in Tickets /\ tickets[u] \in Row
      /\ PatchWrite(r) => call[r].dto \in Patches
  BY CallFacts DEF PatchWrite, DeleteWrite, RestoreWrite, Refusals
<1>2. Escalations(t)' \subseteq Escalations(t)
  BY EscalationsStay DEF escalationVars
<1>3. CASE tickets'[t].priority = tickets[t].priority /\ tickets'[t].isOverdue = tickets[t].isOverdue
  BY <1>2, <1>3, RowStays
<1>4. CASE DeleteWrite(r) \/ RestoreWrite(r)
  <2>1. \A d \in BOOLEAN : /\ [tickets[u] EXCEPT !.deleted = d].priority = tickets[u].priority
                           /\ [tickets[u] EXCEPT !.deleted = d].isOverdue = tickets[u].isOverdue
    BY <1>1 DEF Row
  <2>2. \/ tickets' = tickets
        \/ \E d \in BOOLEAN : SetRow(u, [tickets[u] EXCEPT !.deleted = d])
    BY <1>4 DEF DeleteWrite, RestoreWrite
  <2>3. QED
    BY <1>1, <1>3, <2>1, <2>2 DEF SetRow, TypeOK, StoreTypeOK
<1>5. CASE PatchWrite(r) /\ tickets'[t] # tickets[t]
  <2>1. u = t /\ tickets' # tickets
    BY <1>1, <1>5 DEF PatchWrite, SetRow, TypeOK, StoreTypeOK
  <2>2. pc'[r] = "audit" /\ call[r].op = "patch" /\ call' = call
    BY <1>5, <2>1 DEF PatchWrite, record, goto, TypeOK, ServiceTypeOK
  <2>3. r \notin DoneOn("patch", t) /\ DoneOn("patch", t)' = DoneOn("patch", t) \cup {r}
    BY <1>5, <2>1, <2>2, DoneSteps DEF Handles, Wrote
  <2>4. QED
    BY <1>2, <2>3 DEF Updated
<1>6. QED
  BY <1>3, <1>4, <1>5

LEMMA EscalationSteps ==
  ASSUME TypeOK, OneEach, [Next]_vars, NEW t \in Tickets
  PROVE  NoClimb(t) \/ Climb(t) \/ Updated(t)
<1>1. CASE UNCHANGED <<tickets, owed>>
  BY <1>1, RowStays, EscalationsStay
<1>2. CASE ServiceNext /\ UNCHANGED escalationVars
  <2>1. PICK r \in Requests : Handles(r) \/ Audit(r)
    BY <1>2 DEF ServiceNext, Handles
  <2>2. CASE PatchWrite(r) \/ DeleteWrite(r) \/ RestoreWrite(r)
    BY <1>2, <2>2, RequestClimbs
  <2>3. QED
    BY <1>1, <1>2, <2>1, <2>2
    DEF Handles, ReceivePatch, ReceiveOther, PatchRead, CountBlockers, FindAssignee,
        DeleteRead, RestoreRead, Audit, storeVars, escalationVars
<1>3. CASE LinkerNext /\ UNCHANGED escalationVars
  BY <1>1, <1>3 DEF LinkerNext, ReceiveAdd, FindTicket, FindBlocker, Walk, Insert, ReceiveRemove,
     Remove, storeVars, escalationVars
<1>4. CASE DeleteUser /\ UNCHANGED escalationVars
  <2>1. UNCHANGED owed
    BY <1>4 DEF escalationVars
  <2>2. QED
    BY <1>4, <2>1, UnassignFacts, RowStays, EscalationsStay DEF Kept
<1>5. CASE EscalationNext /\ UNCHANGED requestVars
  BY <1>5, EscalationClimbs DEF requestVars
<1>6. QED
  BY <1>1, <1>2, <1>3, <1>4, <1>5 DEF Next, vars, storeVars, escalationVars, Tick

\* All that may be written of a ticket between two of its updates.
AllClimbs == Cardinality(Runners) * (2 + Cardinality(Runners) * (1 + Cardinality(Runners)))

\* The escalations that were written, those who may set the flag, and the weight of the
\* runners: an escalation costs what it adds, an update pays for starting again.
Ladder(t) ==
  /\ IsFiniteSet(Escalations(t))
  /\ Cardinality(Escalations(t)) + Cardinality(Unflagged(t)) + Weight(t)
       <= AllClimbs * (1 + Cardinality(DoneOn("patch", t)))

LEMMA LadderStart ==
  ASSUME IsFiniteSet(Runners), Init, NEW t
  PROVE  Ladder(t)
<1> DEFINE n == Cardinality(Runners)
<1>1. n \in Nat /\ Cardinality(Unflagged(t)) \in 0..n
  BY NoMore DEF Unflagged
<1>2. Weight(t) \in Nat /\ Weight(t) <= n + n * (n + n * n)
  BY WeightMax
<1>3. Escalations(t) = {} /\ DoneOn("patch", t) = {}
  BY DEF Init, StoreInit, ServiceInit, EscalationInit, Escalations, Trail, Owed, DoneOn, Wrote
<1>4. Cardinality(Escalations(t)) = 0 /\ Cardinality(DoneOn("patch", t)) = 0
      /\ IsFiniteSet(Escalations(t))
  BY <1>3, FS_EmptySet
<1> HIDE DEF n
<1>5. n + (n + n * (n + n * n)) = n * (2 + n * (1 + n)) /\ n * (2 + n * (1 + n)) \in Nat
      /\ n + n * (n + n * n) \in Nat
  BY <1>1
<1>6. AllClimbs = n * (2 + n * (1 + n))
  BY DEF AllClimbs, n
<1>7. AllClimbs * (1 + 0) = AllClimbs
  BY <1>5, <1>6
<1>8. 0 + Cardinality(Unflagged(t)) + Weight(t) <= AllClimbs
  BY <1>1, <1>2, <1>5, <1>6
<1>9. QED
  BY <1>4, <1>7, <1>8 DEF Ladder

LEMMA LadderStep ==
  ASSUME IsFiniteSet(Runners), TypeOK, OneEach, IsFiniteSet(Served), [Next]_vars,
         NEW t \in Tickets, Ladder(t)
  PROVE  Ladder(t)'
<1> DEFINE n == Cardinality(Runners)
           M == AllClimbs
           E0 == Cardinality(Escalations(t))
           E1 == Cardinality(Escalations(t)')
           U0 == Cardinality(Unflagged(t))
           U1 == Cardinality(Unflagged(t)')
           W0 == Weight(t)
           W1 == Weight(t)'
           D0 == Cardinality(DoneOn("patch", t))
           D1 == Cardinality(DoneOn("patch", t)')
<1>1. n \in Nat /\ U0 \in 0..n /\ U1 \in 0..n
      /\ IsFiniteSet(Unflagged(t)) /\ IsFiniteSet(Unflagged(t)')
  <2>1. Unflagged(t) \subseteq Runners /\ Unflagged(t)' \subseteq Runners
    BY DEF Unflagged
  <2>2. QED
    BY <2>1, NoMore
<1>2. W0 \in Nat /\ W1 \in Nat /\ W1 <= n + n * (n + n * n)
  BY WeightMax
<1>3. /\ D0 \in Nat /\ D1 \in Nat /\ D0 <= D1
      /\ Updated(t) => D1 = D0 + 1
  <2>1. IsFiniteSet(DoneOn("patch", t)) /\ D0 \in Nat
    BY DoneFinite
  <2>2. IsFiniteSet(Served)'
    BY ServedStep
  <2>3. DoneOn("patch", t)' \subseteq Served'
    BY DEF DoneOn, Served, Wrote
  <2>4. IsFiniteSet(DoneOn("patch", t)')
    BY <2>2, <2>3, NoMore
  <2>5. D1 \in Nat /\ D0 <= D1
    BY <2>4, DoneGrows, NoMore
  <2>6. Updated(t) => D1 = D0 + 1
    BY <2>1, OneMore DEF Updated
  <2>7. QED
    BY <2>1, <2>5, <2>6
<1>4. M \in Nat /\ M = n + (n + n * (n + n * n))
  <2>1. M = n * (2 + n * (1 + n))
    BY DEF AllClimbs
  <2> HIDE DEF M, n
  <2>2. QED
    BY <1>1, <2>1
<1>5. IsFiniteSet(Escalations(t)) /\ E0 \in Nat /\ E0 + U0 + W0 <= M * (1 + D0)
  BY NoMore DEF Ladder
<1>6. /\ M * (1 + D0) \in Int /\ M * (1 + D1) \in Int /\ M * (1 + D0) <= M * (1 + D1)
      /\ D1 = D0 + 1 => M * (1 + D1) = M * (1 + D0) + M
  <2> HIDE DEF M, D0, D1
  <2>1. D1 - D0 \in Nat /\ M * (1 + D1) = M * (1 + D0) + M * (D1 - D0)
    BY <1>3, <1>4
  <2>2. M * (D1 - D0) \in Nat
    BY <1>4, <2>1
  <2>3. QED
    BY <1>3, <1>4, <2>1, <2>2
<1>7. SUFFICES IsFiniteSet(Escalations(t)') /\ E1 + U1 + W1 <= M * (1 + D1)
  BY DEF Ladder
<1>8. CASE NoClimb(t)
  <2>1. IsFiniteSet(Escalations(t)') /\ E1 \in Nat /\ E1 <= E0
    BY <1>5, <1>8, NoMore DEF NoClimb
  <2>2. U1 <= U0
    BY <1>1, <1>8, NoMore DEF NoClimb
  <2>3. W1 <= W0
    BY <1>8, WeightStays DEF NoClimb
  <2> HIDE DEF n, M, E0, E1, U0, U1, W0, W1, D0, D1
  <2>4. QED
    BY <1>1, <1>2, <1>5, <1>6, <2>1, <2>2, <2>3
<1>9. CASE Climb(t)
  <2>1. IsFiniteSet(Escalations(t)') /\ E1 \in Nat /\ E1 <= E0 + 1
    BY <1>5, <1>9, AtMostOneMore DEF Climb
  <2>2. U1 <= U0
    BY <1>1, <1>9, NoMore DEF Climb
  <2>3. CASE \E w \in Runners : \E j \in 0..2 :
               /\ \A k \in 0..j : Low(t, k)' \subseteq Low(t, k)
               /\ w \notin Low(t, j)'
               /\ \A k \in j..2 : w \in Low(t, k)
    <3>1. W1 <= W0 - 1
      BY <2>3, WeightFalls
    <3> HIDE DEF n, M, E0, E1, U0, U1, W0, W1, D0, D1
    <3>2. QED
      BY <1>1, <1>2, <1>5, <1>6, <2>1, <2>2, <3>1
  <2>4. CASE \E w \in Runners : /\ \A k \in 0..2 : Low(t, k)' \subseteq Low(t, k)
                                /\ w \in Unflagged(t) /\ w \notin Unflagged(t)'
    <3>1. W1 <= W0
      BY <2>4, WeightStays
    <3>2. PICK w \in Unflagged(t) : w \notin Unflagged(t)'
      BY <2>4
    <3>3. Unflagged(t)' \cup {w} \subseteq Unflagged(t)
      BY <1>9, <3>2 DEF Climb
    <3>4. U1 + 1 <= U0
      <4> DEFINE S == Unflagged(t)'
      <4>1. IsFiniteSet(S) /\ w \notin S /\ S \cup {w} \subseteq Unflagged(t)
        BY <1>1, <3>2, <3>3
      <4>2. U1 = Cardinality(S)
        OBVIOUS
      <4> HIDE DEF S
      <4>3. Cardinality(S \cup {w}) = Cardinality(S) + 1 /\ Cardinality(S \cup {w}) <= U0
        BY <1>1, <4>1, OneMore, NoMore
      <4>4. QED
        BY <4>2, <4>3
    <3> HIDE DEF n, M, E0, E1, U0, U1, W0, W1, D0, D1
    <3>5. QED
      BY <1>1, <1>2, <1>5, <1>6, <2>1, <3>1, <3>4
  <2>5. QED
    BY <1>9, <2>3, <2>4 DEF Climb
<1>10. CASE Updated(t)
  <2>1. IsFiniteSet(Escalations(t)') /\ E1 \in Nat /\ E1 <= E0
    BY <1>5, <1>10, NoMore DEF Updated
  <2>2. D1 = D0 + 1
    BY <1>3, <1>10
  <2>3. U1 + W1 <= M
    <3>1. n * (n + n * n) \in Nat
      BY <1>1
    <3> HIDE DEF n, M, U1, W1
    <3>2. QED
      BY <1>1, <1>2, <1>4, <3>1
  <2> HIDE DEF n, M, E0, E1, U0, U1, W0, W1, D0, D1
  <2>4. QED
    BY <1>1, <1>2, <1>4, <1>5, <1>6, <2>1, <2>2, <2>3
<1>11. QED
  BY <1>8, <1>9, <1>10, EscalationSteps

\* With finitely many cycles at a time, escalating a ticket comes to an end between its
\* updates, although a cycle writes the next priority up from a snapshot that others have
\* overtaken (runOnce, applyEscalation).
THEOREM EscalationsEnd == ASSUME IsFiniteSet(Runners) PROVE Spec => []EscalationsAreBounded
<1> DEFINE Inv == OneEach /\ IsFiniteSet(Served) /\ \A t \in Tickets : Ladder(t)
<1>1. Init => Inv
  <2> SUFFICES ASSUME Init PROVE Inv
    OBVIOUS
  <2>1. OneEach
    BY DEF OneEach, Init, EscalationInit
  <2>2. Served = {}
    BY DEF Init, ServiceInit, Served
  <2>3. QED
    BY <2>1, <2>2, FS_EmptySet, LadderStart
<1>2. TypeOK /\ Inv /\ [Next]_vars => Inv'
  <2> SUFFICES ASSUME TypeOK, Inv, [Next]_vars PROVE Inv'
    OBVIOUS
  <2>1. OneEach'
    BY OneEachStep
  <2>2. IsFiniteSet(Served)'
    BY ServedStep
  <2>3. ASSUME NEW t \in Tickets PROVE Ladder(t)'
    BY LadderStep
  <2>4. QED
    BY <2>1, <2>2, <2>3
<1>3. Inv => EscalationsAreBounded
  <2> SUFFICES ASSUME Inv, NEW t \in Tickets
               PROVE  Cardinality(Escalations(t)) <= AllClimbs * (1 + Cardinality(DoneOn("patch", t)))
    BY DEF EscalationsAreBounded, Escalations, AllClimbs, DoneOn
  <2>1. /\ Cardinality(Escalations(t)) \in Nat /\ Cardinality(Unflagged(t)) \in Nat
        /\ Weight(t) \in Nat
    <3>1. Unflagged(t) \subseteq Runners
      BY DEF Unflagged
    <3>2. QED
      BY <3>1, WeightMax, NoMore DEF Ladder
  <2>2. AllClimbs * (1 + Cardinality(DoneOn("patch", t))) \in Int
    <3>1. Cardinality(Runners) \in Nat /\ Cardinality(DoneOn("patch", t)) \in Nat
      BY DoneFinite, NoMore
    <3>2. QED
      BY <3>1 DEF AllClimbs
  <2>3. QED
    BY <2>1, <2>2 DEF Ladder
<1>4. QED
  BY <1>1, <1>2, <1>3, TypeCorrect, PTL DEF Spec
=============================================================================
