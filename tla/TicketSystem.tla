---------------------------- MODULE TicketSystem ----------------------------
(***************************************************************************)
(* The ticket backend: requests on tickets, requests on dependencies and   *)
(* escalation cycles, interleaved at every database call.                  *)
(***************************************************************************)
EXTENDS TicketService, Escalation, Dependencies, FiniteSets

vars == <<storeVars, requestVars, escalationVars, linkerVars>>

Init == StoreInit /\ ServiceInit /\ EscalationInit /\ LinkerInit

Next ==
  \/ ServiceNext /\ UNCHANGED <<escalationVars, linkerVars>>
  \/ EscalationNext /\ UNCHANGED <<requestVars, linkerVars>>
  \/ LinkerNext /\ UNCHANGED <<requestVars, escalationVars>>
  \/ (Tick \/ DeleteUser) /\ UNCHANGED <<requestVars, escalationVars, linkerVars>>

Spec == Init /\ [][Next]_vars

\* The cron job fires for as long as the process lives and a cycle that has
\* started awaits only its own statements, which PostgreSQL answers; the same
\* holds of a dependency walk.  Nobody owes a request, an administrator's cycle,
\* a failure or a step of the clock.
Fairness ==
  /\ \A w \in CronRunners : WF_vars(Scan(w) /\ UNCHANGED <<requestVars, linkerVars>>)
  /\ \A w \in Runners : WF_vars(Work(w) /\ UNCHANGED <<requestVars, linkerVars>>)
  /\ \A l \in Linkers : WF_vars(Walk(l) /\ UNCHANGED <<requestVars, escalationVars>>)

FairSpec == Spec /\ Fairness

-----------------------------------------------------------------------------
AuditTypeOK ==
  \A e \in audit :
    /\ e.ticket \in Tickets /\ e.at \in Nat
    /\ e.action \in {"UPDATE", "DELETE", "RESTORE", "PRIORITY_ESCALATED", "CREATE"}

\* Every variable has its type.
TypeOK ==
  /\ StoreTypeOK /\ AuditTypeOK
  /\ ServiceTypeOK /\ EscalationTypeOK /\ LinkerTypeOK

-----------------------------------------------------------------------------
(* Optimistic locking *)

\* Two clients that hold the same version of a ticket cannot both succeed with
\* an update, whatever happens between their reads and their writes
\* (updateWithVersionCheck): no update is lost under another.
OneWinnerPerVersion ==
  \A r, q \in Requests :
    r # q /\ Wrote(r, "patch") /\ Wrote(q, "patch") /\ call[r].ticket = call[q].ticket
      => call[r].token # call[q].token

\* The row as a request may have read it before, if the row's version is still the
\* same: deleting a user clears assignees and leaves the version alone.
AsReadBefore(row) ==
  {row} \cup (IF row.assigneeId = NoUser
               THEN {[row EXCEPT !.assigneeId = u] : u \in Users \ users} ELSE {})

\* The diff of an UPDATE entry, taken between a row read at the start of the request
\* and the row the UPDATE returned, is the diff of this request's own change: nothing
\* that another request or an escalation changed in between is in it, except that an
\* assignee may appear whose user was deleted meanwhile.  A request whose token was not
\* the version it had read is exempt (update, diffMetadata, ON DELETE SET NULL).
UpdateDiffIsOwn ==
  \A e \in audit : e.action = "UPDATE" /\ e.by \notin blind =>
    \E old \in AsReadBefore(e.over) :
      e.diff = diffMetadata(old, Patched(e.over, call[e.by].dto))

\* The entries inserted, and those still to be: the await of the INSERT comes after
\* the write, and a request that is never heard of again leaves its entry unwritten.
Owed == {entry[r] : r \in Requests} \cup {owed[w] : w \in Runners}

Trail == (audit \cup Owed) \ {NoEntry}

\* The versions of tickets that no entry explains.
Unexplained ==
  UNION {{<<t, v>> : v \in {x \in 2..tickets[t].version :
                            ~\E e \in Trail : e.ticket = t /\ e.at = x}} : t \in Tickets}

\* Each version of a ticket after its first has one entry, inserted or about to be
\* inserted by the handler that wrote it, and the versions that have none are no more
\* than the INSERTs that failed and the cycles that died: no writer changes a row
\* without a bump, without an entry, or with two (PATCH and both escalation branches).
EveryVersionAudited ==
  /\ \A e, f \in Trail :
       e.at # 0 /\ e.ticket = f.ticket /\ e.at = f.at => e = f
  /\ Cardinality(Unexplained) <= faults

(* Lifecycle *)

\* A request has written over a version of t that it had not read.
OverwrittenBlindly(t) == \E q \in blind : call[q].ticket = t

\* A status the service has accepted is not taken back: once a PATCH that sets a
\* status went through, the ticket stays at that status or beyond it, across stale
\* writers, escalations, deletion and restore -- unless a client guesses the version
\* another writer is about to produce: its update is checked against the row before
\* and written over the row after (assertLegalTransition, updateWithVersionCheck).
AcceptedStatusSticks ==
  \A r \in Requests :
    Wrote(r, "patch") /\ "status" \in DOMAIN call[r].dto /\ ~OverwrittenBlindly(call[r].ticket)
      => STATUS_ORDER[tickets[call[r].ticket].status] >= STATUS_ORDER[call[r].dto["status"]]

\* The blockers a request saw resolved when it was let through to DONE are still
\* resolved when it writes and afterwards, unless an update with a guessed version
\* wrote over one of them: otherwise only edges and restores after the count can
\* leave a DONE ticket blocked (countUnresolvedBlockers and the UPDATE, two awaits).
ClearedBlockersStayDone ==
  \A r \in Requests : \A b \in cleared[r] :
    ~OverwrittenBlindly(b) => tickets[b].status = "DONE"

\* Every DELETE that is answered 200 deleted a live ticket: a ticket is deleted
\* at most once more than it was restored, and then it is deleted now (softDelete's
\* row count decides between two concurrent DELETEs).
EachDeleteDeletes ==
  \A t \in Tickets :
    LET done(op) == Cardinality({r \in Requests : Wrote(r, op) /\ call[r].ticket = t})
    IN done("delete") - done("restore") <= IF tickets[t].deleted THEN 1 ELSE 0

Contract == INSTANCE TicketContract

\* Every step of the system is one atomic operation of the contract, or leaves the
\* tickets alone, or is the write of a request whose token was not the version it had
\* read: the checks made on a row read several awaits ago hold of the row written.
ImplementsContract == Contract!Init /\ [][Contract!Next \/ blind' # blind]_tickets

(* Dependencies *)

\* A cycle can only come from a linker that inserts after another one's edge
\* appeared behind its walk: without such an insert the blocker graph has none,
\* whatever adds, removes and walks interleave (wouldCreateCycle).
CycleOnlyFromStaleWalk == ~staleInsert => Acyclic(deps)

\* The answers to POST and DELETE account for the table: for each edge, the adds
\* that wrote it minus the removes that found it is 1 if it is there and else 0,
\* so an audited CREATE or DELETE is a change that happened (row counts of both).
EdgeLedger ==
  \A e \in Edges :
    LET ended(how) == Cardinality({l \in Linkers : lpc[l] = how /\ edge[l] = e})
        is(edges) == IF e \in edges THEN 1 ELSE 0
    IN ended("added") - ended("removed") = is(deps) - is(InitialDeps)

\* A walk ends, on a graph that has a cycle too and while others add edges: the
\* visited set is what guarantees it (wouldCreateCycle).
WalkEnds == \A l \in Linkers : lpc[l] = "walk" ~> lpc[l] # "walk"

(* Escalation *)

\* A ticket that is overdue and unresolved ends up CRITICAL and flagged unless it
\* is resolved, deleted or given another date, however cycles overlap, users
\* change the priority or a cycle fails (runOnce, the cron job).
OverdueIsEscalated ==
  \A t \in Tickets :
    OverdueUnresolved(t) ~>
      (~OverdueUnresolved(t) \/ (tickets[t].priority = "CRITICAL" /\ tickets[t].isOverdue))

\* Escalating comes to an end: once every rung is climbed nothing is written.  A cycle
\* that holds an old snapshot may take a ticket down again, and the others may then scan
\* it there, so with n runners the promotions from one rung can set off n times as many
\* from the next: n^3 + n^2 + n of them and n times the flag (four in all if n = 1), for
\* each time the row was created or re-prioritised.
EscalationsAreBounded ==
  LET n == Cardinality(Runners)
  IN \A t \in Tickets :
       Cardinality({e \in Trail : e.action = "PRIORITY_ESCALATED" /\ e.ticket = t})
         <= n * (2 + n * (1 + n))
              * (1 + Cardinality({r \in Requests : Wrote(r, "patch") /\ call[r].ticket = t}))

(* What the documentation says and the code does not guarantee *)

\* "is_overdue is only set true when a CRITICAL ticket is still past its dueDate
\* (auto-escalation, section 3.7)." (001_init.sql:91)
OverdueFlagIsCritical ==
  \A t \in Tickets : tickets[t].isOverdue => tickets[t].priority = "CRITICAL"

\* "DONE is terminal: once status === DONE, NO updates are allowed."
\* (tickets.service.ts:45)
DoneIsTerminal ==
  [][\A t \in Tickets :
       tickets[t].status = "DONE" => tickets'[t].version = tickets[t].version]_vars

\* "No cycles: adding the edge must not create a loop" (dependencies.service.ts:22).
NoCycles == Acyclic(deps)

\* "a ticket can't move to DONE while it has unresolved blockers"
\* (tickets.service.ts:174).
NoDoneWhileBlocked ==
  [][\A t \in Tickets :
       tickets[t].status # "DONE" /\ tickets'[t].status = "DONE"
         => UnresolvedBlockers(t) = {}]_vars

\* "409 if it exists but isn't deleted" (tickets.service.ts:334): a restore
\* answered 200 restored something.
EachRestoreRestores ==
  \A t \in Tickets :
    LET done(op) == Cardinality({r \in Requests : Wrote(r, op) /\ call[r].ticket = t})
    IN done("restore") <= done("delete")
=============================================================================
