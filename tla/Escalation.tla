----------------------------- MODULE Escalation -----------------------------
(***************************************************************************)
(* EscalationService.runOnce and its triggers.  A runner is one cycle that *)
(* the cron job or the admin endpoint started; the cron callback does not  *)
(* await the cycle and nothing excludes the endpoint, so cycles overlap.   *)
(* A cycle scans once and then works ticket by ticket from that snapshot.  *)
(***************************************************************************)
EXTENDS TicketStore

CONSTANTS Runners,       \* cycles that may be running at a time
          CronRunners    \* those that the cron job starts, again and again

ASSUME EscalationAssumption == CronRunners \subseteq Runners

VARIABLES scanned,       \* per runner: the snapshots it has not worked on yet
          owed           \* per runner: the audit entry of the row it has just written

escalationVars == <<scanned, owed>>

\* What the loop uses of a scanned row.
Snapshot == [id : Tickets, priority : Priorities, isOverdue : BOOLEAN]

SnapshotOf(t) == [id |-> t, priority |-> tickets[t].priority,
                  isOverdue |-> tickets[t].isOverdue]

\* The loop turns to s: the scan was ORDER BY id ASC, and the INSERT of the entry
\* of the ticket before s has been awaited.
First(w, s) ==
  /\ owed[w] = NoEntry
  /\ s \in scanned[w] /\ \A o \in scanned[w] : s.id <= o.id

Consume(w, s) == scanned' = [scanned EXCEPT ![w] = @ \ {s}]

Owe(w, entry) == owed' = [owed EXCEPT ![w] = entry]

-----------------------------------------------------------------------------
\* Mutant: tickets at the top of the ladder are no longer scanned.
ScanSkippingCritical(w) ==
  /\ scanned[w] = {} /\ owed[w] = NoEntry
  /\ scanned' = [scanned EXCEPT ![w] =
       {SnapshotOf(t) : t \in {u \in Tickets : OverdueUnresolved(u)
                                               /\ tickets[u].priority # "CRITICAL"}}]
  /\ UNCHANGED <<owed, storeVars>>

\* The one read of a cycle.
Scan(w) ==
  /\ scanned[w] = {} /\ owed[w] = NoEntry
  /\ scanned' = [scanned EXCEPT ![w] =
       {SnapshotOf(t) : t \in {u \in Tickets : OverdueUnresolved(u)}}]
  /\ UNCHANGED <<owed, storeVars>>

EscalationEntry(s, to, at) ==
  [action |-> "PRIORITY_ESCALATED", by |-> "SYSTEM", ticket |-> s.id, at |-> at,
   from |-> s.priority, to |-> to]

\* Mutant: the promotion leaves the version alone.
PromoteNoBump(w, s) ==
  /\ First(w, s) /\ s.priority # "CRITICAL"
  /\ \/ /\ Escalatable(s.id)
        /\ SetRow(s.id, [tickets[s.id] EXCEPT !.priority = NextPriority[s.priority]])
        /\ Owe(w, EscalationEntry(s, NextPriority[s.priority], tickets[s.id].version))
     \/ /\ ~Escalatable(s.id)
        /\ UNCHANGED <<tickets, owed>>
  /\ Consume(w, s)
  /\ UNCHANGED <<users, deps, audit, now, faults>>

\* Mutant: the promotion is not audited.
PromoteUnaudited(w, s) ==
  /\ First(w, s) /\ s.priority # "CRITICAL"
  /\ IF Escalatable(s.id)
       THEN SetRow(s.id, [tickets[s.id] EXCEPT !.priority = NextPriority[s.priority],
                                               !.version = @ + 1])
       ELSE UNCHANGED tickets
  /\ Consume(w, s)
  /\ UNCHANGED <<owed, users, deps, audit, now, faults>>

\* Below CRITICAL in the snapshot: write the next priority up from the snapshot,
\* whatever the row says now, unless it is DONE or deleted by now (skipped).
Promote(w, s) ==
  /\ First(w, s) /\ s.priority # "CRITICAL"
  /\ \/ /\ Escalatable(s.id)
        /\ SetRow(s.id, [tickets[s.id] EXCEPT !.priority = NextPriority[s.priority],
                                              !.version = @ + 1])
        /\ Owe(w, EscalationEntry(s, NextPriority[s.priority], tickets[s.id].version + 1))
     \/ /\ ~Escalatable(s.id)
        /\ UNCHANGED <<tickets, owed>>
  /\ Consume(w, s)
  /\ UNCHANGED <<users, deps, audit, now, faults>>

\* Mutant: the cycle flags a ticket, leaves the entry to itself and does not go on to
\* the next ticket.
MarkRetried(w, s) ==
  /\ First(w, s) /\ s.priority = "CRITICAL" /\ ~s.isOverdue
  /\ \/ /\ Escalatable(s.id)
        /\ SetRow(s.id, [tickets[s.id] EXCEPT !.isOverdue = TRUE, !.version = @ + 1])
        /\ audit' = audit \cup {EscalationEntry(s, "CRITICAL", tickets[s.id].version + 1)}
        /\ UNCHANGED scanned
     \/ /\ ~Escalatable(s.id)
        /\ Consume(w, s)
        /\ UNCHANGED <<tickets, audit>>
  /\ UNCHANGED <<owed, users, deps, now, faults>>

\* CRITICAL and not flagged in the snapshot: set is_overdue.
MarkOverdue(w, s) ==
  /\ First(w, s) /\ s.priority = "CRITICAL" /\ ~s.isOverdue
  /\ \/ /\ Escalatable(s.id)
        /\ SetRow(s.id, [tickets[s.id] EXCEPT !.isOverdue = TRUE, !.version = @ + 1])
        /\ Owe(w, EscalationEntry(s, "CRITICAL", tickets[s.id].version + 1))
     \/ /\ ~Escalatable(s.id)
        /\ UNCHANGED <<tickets, owed>>
  /\ Consume(w, s)
  /\ UNCHANGED <<users, deps, audit, now, faults>>

\* CRITICAL and flagged in the snapshot: nothing to do.
Skip(w, s) ==
  /\ First(w, s) /\ s.priority = "CRITICAL" /\ s.isOverdue
  /\ Consume(w, s)
  /\ UNCHANGED <<owed, storeVars>>

\* await audit.log of the row just written.
LogEscalation(w) ==
  /\ owed[w] # NoEntry
  /\ Log(owed[w])
  /\ Owe(w, NoEntry)
  /\ UNCHANGED <<scanned, tickets, users, deps, now>>

\* A statement of the cycle throws (tick logs it), or the process dies: the rest
\* of the scan is lost, and an entry not yet inserted.
Abort(w) ==
  /\ scanned[w] # {} \/ owed[w] # NoEntry
  /\ faults < MaxFaults
  /\ scanned' = [scanned EXCEPT ![w] = {}]
  /\ Owe(w, NoEntry)
  /\ faults' = faults + 1
  /\ UNCHANGED <<tickets, users, deps, audit, now>>

-----------------------------------------------------------------------------
EscalationInit ==
  /\ scanned = [w \in Runners |-> {}]
  /\ owed = [w \in Runners |-> NoEntry]

Work(w) ==
  \/ \E s \in scanned[w] : Promote(w, s) \/ MarkOverdue(w, s) \/ Skip(w, s)
  \/ LogEscalation(w)

EscalationNext == \E w \in Runners : Scan(w) \/ Work(w) \/ Abort(w)

EscalationEntries ==
  [action : {"PRIORITY_ESCALATED"}, by : {"SYSTEM"}, ticket : Tickets, at : Nat,
   from : Priorities, to : Priorities]

EscalationTypeOK ==
  /\ scanned \in [Runners -> SUBSET Snapshot]
  /\ owed \in [Runners -> EscalationEntries \cup {NoEntry}]
=============================================================================
