# A verification model of the IssueFlow ticket backend

The backend is one NestJS process in front of PostgreSQL. It keeps no state of
its own between requests: everything lives in tables, and every handler is a
chain of SQL statements with an `await` between them. So the hard behaviour is
not in any handler alone but in what happens between the statements of one while
others run: rows read and used several awaits later, conditions checked in one
statement and relied on in the next, an audit entry written after the change it
records, escalation cycles that overlap.

The modules here are TLA+. TLC checks them on small instances; TLAPS proves the
most important results for every value of the constants. Paths below are
relative to the repository (`src/...` is its `src/` directory).

## Inventory

| Component | State | Operations | What is hard | What makes it correct |
|---|---|---|---|---|
| Tickets (`src/tickets/tickets.*`) | `tickets`: status, priority, assignee, due date, overdue flag, version, soft-delete stamp | create, PATCH, DELETE, restore, lists | PATCH reads, checks, counts blockers, looks up the assignee, then writes; DELETE and restore read, then write | no lost update; the lifecycle rules hold of the row that is written, not only of the row that was read; the answers tell what happened |
| Dependencies (`src/tickets/dependencies.*`) | `ticket_dependencies` | add (a walk, one query per node, then an insert), remove, list | the graph changes under the walk | no cycles; no DONE while blocked; the walk ends |
| Escalation (`src/scheduler`) | none; a snapshot during a cycle | one cycle: scan, then one write per ticket | cycles overlap (cron callback not awaited, admin endpoint); the snapshot goes stale; a statement fails half way | overdue tickets climb to CRITICAL and are flagged; bounded; resolved tickets untouched |
| Audit (`src/audit`) | `audit_logs`, append-only | `log` (swallows failures), `logWithClient` (in the caller's transaction), find | the entry is a statement of its own | each change explained once, diffs attributed to whom they belong |
| Assignment and workload (`create`, `workloadByProject`) | assignee of a ticket | pick the least-loaded developer, insert | workload read, ticket inserted later; user deleted in between | the pick is a developer of minimal load when read; no ticket of a deleted user |
| Comments and mentions (`src/comments`) | `comments`, `comment_mentions` | create, update, delete in transactions | row locks, stale versions, mentioned users deleted, a delete during an update | mentions always those of the current content; entry and change together |
| Attachments (`src/attachments`) | `attachments`, files in the upload directory | upload (file, then row), delete (row, then file) | failure or crash between the two | every row has its file |
| Sessions (`src/auth`) | tokens in clients' hands, `token_denylist` | login, logout, check on every request | expiry on two clocks, revocations that go with their user, roles frozen in a token | a token that was logged out stays refused |
| Users, projects (`src/users`, `src/projects`) | `users`, `projects` | create, update, delete / soft-delete, restore | foreign keys, uniqueness races, no cascade | no dangling references |
| CSV (`src/tickets/csv`) | none | export, import row by row | rows fail one by one | the summary counts what was inserted |
| Database access, migrations (`src/database`) | connection pool; `schema_migrations` | query, transaction; apply pending files | rollback on failure; two runners | all or nothing |
| HTTP shell (`src/common`, `main.ts`) | none | validation, error mapping | - | - |

The components interact through the tables alone, except for direct calls:
tickets ask dependencies for unresolved blockers and users for the assignee;
dependencies read tickets; everybody calls audit; comments and attachments ask
tickets whether a ticket exists; every request passes the token check.

## Modules

```
TicketDomain        rows, update bodies, status order, priority ladder
  TicketStore       tables, clock, WHERE clauses, audit.log, deletion of users
    TicketService   PATCH, DELETE, restore as processes
    Escalation      cycles as processes
    Dependencies    add and remove as processes
      TicketSystem  the composition, fairness, all properties
        MCTicketRaces, MCEscalation, MCDependencies
        TypeProofs  type correctness, counting
          LifecycleProofs   optimistic locking, lifecycle, refinement, audit,
                            deletions, bound on escalations
          DependencyProofs  where cycles can come from, the ledger of edges
TicketContract      the abstract specification TicketSystem implements
Comments            transactions on comments, deletion of users
  CommentReads      what requests are answered, read in two statements
    MCComments
    CommentProofs       types, mentions, one edit per version, no deadlock,
                        an entry for each change
      CommentRefinement that Comments implements CommentContract
CommentContract     what the tables hold of the comments at any moment
Attachments         rows and files, failures and crashes
    MCAttachments
    AttachmentProofs    types, files of rows, deletions, damage and failures
Accounts            UsersService over the users table, one request a process
  Sessions          login, guards, logout, two clocks, with the changes of users
    MCSessions
    SessionProofs       types, revocation, stale roles, diffs of users
  Planning          projects, creation with auto-assignment, CSV import, with
    MCPlanning      the changes of users
    PlanningProofs      types, references, deleted projects, picks, imports
```

**One action is one database call and the synchronous code after it.** Node runs
a handler without interruption between awaits and PostgreSQL (READ COMMITTED)
runs a single-row statement atomically, so these are exactly the interleaving
points. A request's locals become variables indexed by the request: `pc` (where
it stands, an HTTP status once answered), `call` (what was asked), `before` (the
row `update` read). `Runners` hold the rows `runOnce` scanned and has not come to
yet; `Linkers` hold `stack` and `visited` of `wouldCreateCycle`.

What the correspondence abstracts:

- *Data.* Titles, descriptions and types are not columns of the model: an update of
  one of them only bumps the version. Assignee and due date are: deleting a user
  (`DeleteUser`) clears the assignee of that user's tickets and leaves their versions
  alone, and a due date that is set always differs from itself in a diff, because the
  driver makes a `Date` object each time it reads one and `diffMetadata` compares with
  `!==` (`Differs`). `FindAssignee` looks the user up, and the foreign key decides again in
  `PatchWrite` (`Assignable`).
- *The audit entry is inserted in a step of its own*, after the write it records, as the
  code awaits it: `Audit` of a request, `LogEscalation` of a cycle. Until then the entry
  waits in `entry` or `owed`; a request that dies there never gets to it, and a cycle that
  dies there (`Abort`) loses it. The INSERT may fail and the failure is swallowed (`Log`).
  Only the entries of dependencies, which no property reads, are written with their change.
- *`stack` is a set.* `blockerIdsOf` returns rows in no order, a node pushed
  twice is dropped when popped the second time, and the order of pops decides
  only which reads come first.
- *The version token* is any positive integer, as in the DTO, and nothing compares it
  with the row `update` has read. `Lookahead` bounds how far beyond the row's version at its
  arrival it may be: 0 is a client that sends only versions it was given, more is a
  client that guesses. `races` and `done_is_terminal` take 1, which is enough to
  hit the version that another request is about to produce; the theorems take any
  value. 0 stands for a missing token.
- *Answers* are status codes; a `null` sent for a NOT NULL column is refused by
  the database with no effect and is left out.
- *A statement of a request that fails* answers 500 and leaves what is already
  written: the request takes no further step, which every behaviour allows, since
  no request is owed one. Failures that others notice are modelled: the audit
  INSERT (`Log`) and the statements of a cycle (`Abort`).
- `cleared`, `blind` (the requests that have written over a version other than the one
  they had read and checked), `stale`, `staleInsert` and the fields `at` and `over` of
  audit entries are history: no guard reads them.
- Creation is in the initial states: every row `POST /tickets` can insert
  (version 1, not overdue, not deleted, any status and priority).

### Comments

`Comments` models `CommentsService`, `CommentsRepository` and the part of
`UsersService.delete` that reaches their tables. Here a statement of one
transaction can wait for another transaction, so rows have locks.

- *What a transaction writes shows at COMMIT* (`Apply`), as READ COMMITTED has it;
  until then only its locks (`locks`, pairs of a process and a row) are felt. A
  statement that must wait is not enabled, and looks at the row as it is when the
  wait is over: that is how the `version = $3` of an UPDATE sees the other's commit.
- *Locks.* UPDATE and DELETE exclude everyone. A foreign key takes FOR KEY SHARE on
  the row it refers to, which excludes only its deletion (`Shared`). Statements over
  several rows (the DELETE of mention rows, a cascade) take them one at a time and
  in any order (`TakeRow`). `BreakDeadlock` is PostgreSQL's detector: it fails one
  statement of a circle of waiting processes.
- *The deletion of a user* first checks RESTRICT (`comments.author_id`), then
  cascades to `comment_mentions`: the order in which PostgreSQL fires the two
  triggers.
- *Names.* A username stands for its user, so the contents of a comment are the set
  of usernames it names; registration of users is not modelled: all names
  that occur are registered at the start, users only disappear (`resolveMentions` drops a
  name of nobody, and a user who registers it later is not mentioned by what was saved
  before: `MentionsMatchContent` does not speak of such names). A comment that
  is posted is called by the request that posts it.
- *Failures.* Any statement of an open transaction may fail, and so may the answer
  to COMMIT, after which the client is told 500 of a change that is saved; at most
  `MaxFaults` times. A ROLLBACK that fails itself (`database.service.ts:122`) is left out:
  the connection is then lost, and PostgreSQL rolls back and gives up the locks by
  itself. The audit entry of a post or an edit is in its transaction; that of a deletion,
  which no property reads, is written in the deletion's own step or lost.
- *Left out:* the present version in the text of a 409.

The abstract specification is `CommentContract`: the tables joined (`Docs`) hold each
comment with the users it mentions, and every post, edit, erasure and deletion of a user
changes that in one atomic step. `Contract` is its instance and `CommentsKeepContract` says
that `Comments`, with its transactions, locks and failures, implements it.

That is a statement about what is committed and not about what one answer holds: every
endpoint reads the rows in one statement and their mentions in another, without a
transaction. `CommentReads` adds these reads to `Comments`: `view` is what a request has read
so far, `ReadRow` the first statement of a list, `Write` gives a post or an edit the row its
transaction RETURNED, `ReadMentions` is the second statement of both. An answer may
have the old content with the mentions of a newer one; `AnswersFit` says what a client may
still rely on: if the comment is at the version of the answer, its mentions are those of
its content.

### Attachments

`Attachments` is `AttachmentsService`: an upload checks, makes the directory,
writes a file, inserts a row and logs; a deletion deletes the row, removes the
file and logs. One action is one call of the file system or of the database.

- `disk` maps a storage key to `"part"` or `"whole"`: `writeFile` creates the file
  before it has written it, and what it wrote stays when it fails. The UUID of an
  upload is fresh, so a row and a file are called by the upload.
- Every call may fail (`MaxFaults`). A failed INSERT or DELETE may have been carried
  out: the answer was lost. A failed `rm` of a deletion and a failed audit INSERT are
  swallowed, as the code does it; that of the upload's clean-up is what is answered.
- `Crash` ends every request under way (`"dead"`) and leaves tables and files.
- Whether the ticket exists is a free choice of `FindTicket`. The user who uploads
  may be deleted before the INSERT (`DeleteUser`; RESTRICT keeps the user of a row).

### Users, and what refers to them

`Accounts` has the statements of `UsersService`: registration (a look-up by name,
then the INSERT under two unique indexes), update and deletion (read, write, log).
A request is handled once and a row that it inserts is called by it. Each module
that composes `Accounts` gives it the requests and the tables that refer to users;
`DeleteUser(r, restricted)` takes the RESTRICT keys as its argument, and the cascades
are in the composing module's `ForgetUser`.

`Sessions` composes it with `AuthService`, the guards and the denylist.

- A request takes its token through `Verify` (passport, the expiry against the
  server's `clock`), `Validate` (the denylist, whose expiry is compared with `NOW()`,
  `dbClock`) and, for a handler with roles, `CheckRoles`; then the handler. The two
  clocks are at most `MaxSkew` apart. A token is its payload: signatures are sound.
- `login` reads the user once (`Lookup`), compares the password (`Compare`; a name of
  nobody is compared too) and signs what it read (`Sign`). A login's token is called
  by the login.
- Names and addresses stand for their lower-case forms (the indexes are on `LOWER`).
- `ended` (the tokens whose logout was answered before the request came) and
  `changed` (when a user last changed role or went, and the logins this overtook)
  are history.

`Planning` composes it with projects, tickets and the import. Its requests come past
the guards (which `Sessions` has).

- `create` of a ticket: the project, then the assignee who was sent or the workload
  query, then the INSERT, the entry, and the AUTO_ASSIGN entry. `Before` is the
  query's ORDER BY; users have the order of their registration.
- The import takes the rows of its file in turn. A cell is valid, invalid or blank;
  parsing the file succeeds or not. A row that fails is counted and the next is
  taken, also when its INSERT went through and the answer was lost.
- `ChangeTicket` stands for what `TicketService` may do to a ticket meanwhile: other
  assignee, DONE, deleted, restored.
- Statements on a project (`OnProject`) share their shape: a row count of none is 404
  where the code looks at it, and restore does not look. Entries keep what later
  steps tell apart (`entry`, then `log`).
- `candidates`, `writes`, `gone` (what the workload read saw, the writes since then,
  the projects that were deleted when the request came) are history, as is `overlap`
  in `Accounts` (who updated the row between this request's read and its write).

## Properties and runs

| Run | Instance | Checks |
|---|---|---|
| `races` | two HIGH tickets, one blocked by the other, overdue once an update gives them a date; three requests of any kind, which may guess the next version; one cycle, one user who may be deleted | `TypeOK`, `OneWinnerPerVersion`, `UpdateDiffIsOwn`, `AcceptedStatusSticks`, `ClearedBlockersStayDone`, `EachDeleteDeletes`, `ImplementsContract` |
| `escalation` | one overdue ticket, two cycles (one of them the cron job's), one update, one failure | `EveryVersionAudited`, `EscalationsAreBounded`, `OverdueIsEscalated` (liveness) |
| `dependencies` | three tickets of one project and one of another, an edge already there, three linkers, six possible edges | `CycleOnlyFromStaleWalk`, `EdgeLedger`, `WalkEnds` (liveness) |
| `comments` | one comment by one user that names the two others, two requests (post, edit, erase), one deletion of a user, one reader, one failure | `TypeOK`, `MentionsMatchContent`, `OneEditPerVersion`, `EntryPerChange`, `NoDeadlockAmongWriters`, `AnswersFit`, `TransactionsEnd` (liveness), `CommentsKeepContract` (refinement) |
| `attachments` | one attachment and two tickets, one upload, two deletions, two users who may be deleted, two failures, one crash | `TypeOK`, `AcknowledgedRowHasFile`, `OnlyItsDeleteRemoves`, `DamageHasItsFailure`, `StrayFilesGo` (liveness) |
| `sessions` | an administrator with a token and a developer; three requests of any kind (register, login, logout, guarded request, update, deletion), one failure | `TypeOK`, `NoTwoAlike`, `DiffsBlameOverlaps`, `ValuesExplained`, `RevokedStaysOut`, `LogoutIsIdempotent`, `StaleRoleExpires` |
| `planning` | an owner and two developers, one project, one ticket; three requests (creation with and without an assignee, an import of two rows, changes of the project and of its people), one failure, one update of a ticket | `TypeOK`, `References`, `PickIsLeastLoaded`, `ImportAddsUp`, `DeletesNeedRestores`, `NoTicketIntoDeletedProject`, `AutoAssignAudited` |

Three requests are the smallest number in which one writes between the read and
the write of another and a third one depends on the outcome (delete, restore,
update under an old token). Two cycles are enough to overlap. Three tickets make
the shortest cycle that a one-level check would miss; the fourth reaches the
refusal for another project. For comments, two writers race for one version, and
with a remover they make every circle of waiting that two kinds of rows allow; two
mention rows let two wipes take them in opposite orders. The bodies in `MCTicketRaces` finish a ticket
and start one with an assignee and a due date in the past: the second is a step back if it
overtakes the first, and makes the ticket one that the cycle promotes and flags.
Tickets that are overdue from the start, and changes of priority, are in `escalation`. Two deletions and
an upload reach every order of row and file, with both kinds of stray. In `sessions` a
token lives two ticks (`TTL`), the clocks run to 3 (`MaxTime`), so that tokens issued
before and during the run expire, and may differ by one tick (`MaxSkew`), so that a
denylist row lapses before or after its token; three requests are a login, the change
that overtakes it and one that uses what it was given, or a logout, its repetition and
a request behind them. In `planning` the third request is the one that undoes what the
second checked (a restore behind two deletions, a deletion of the developer who was
picked). Bounds: `MaxNow`, `MaxTime` (clocks), `MaxSkew`, `MaxFaults` (failed
statements), `MaxCrashes`, `MaxChanges` (updates of tickets in `planning`); versions,
audit entries and walks are bounded by the number of processes. Requests are
symmetric where no liveness is checked. Deadlock is not checked: requests are
handled once each, so the system may rightly stop.

What the passing runs show, in words: two updates with one version never both
succeed, guessed or not. An update that wrote over the version it had read is as good as an
atomic one: its diff holds its own change (but for an assignee whose user was deleted
meanwhile) and it obeys the lifecycle at the moment it is written. An accepted
status is not taken back, and blockers seen resolved stay resolved, but on tickets that an
update with a guessed version has written over. Every version has one entry, inserted or
about to be, except for as many as there were failed INSERTs and dead cycles. A DELETE
answered 200 deleted something; escalation reaches the top
and stops. The mention rows are those of the
saved content at every commit, whoever is deleted between the lookup of the names
and the commit; two edits of one version are never both saved; each saved change of
a comment has its entry, failures or not; requests on comments never wait for each
other in a circle; every transaction ends; the tables show what atomic steps would have
made of them, and an answer that mixes two of these steps gives itself away by its version.

An attachment that was acknowledged keeps its file until its own deletion; stray
files, rows without a file and missing entries are at most as many as the failures and
the requests that died, and what the server refuses it clears away. No two users are
alike. The diffs of users, who have no version, may blame a request for an update that
overlapped it, and nothing else (`DiffsBlameOverlaps`); two overlapping diffs may
miss a change, but the way to every value is in the log (`ValuesExplained`). A request
behind an answered logout is refused, up to the two exceptions that the property names;
a repeated logout does no harm; a stale role ends with its token. Nothing refers to
what is gone; the developer who is picked is the least loaded up to the writes since
the query; the counts of an import are those of its rows up to lost answers; no two
deletions of a project are confirmed without a restore between them.

`EscalationsAreBounded` has a bound that is cubic in the number of overlapping cycles,
and not the product of rungs and cycles one would expect: `applyEscalation` writes the
priority above the one that was *scanned*, so a cycle with an old snapshot takes a ticket
down again (CRITICAL to MEDIUM, say), where other cycles may scan it and climb anew. With
`n` cycles the bound is `n^3 + n^2 + 2n` entries for each time the ticket was created or
updated; a lone cycle needs four. TLC finds eleven (of sixteen) with two cycles and
no update when `MCSeeds` starts at LOW; in `escalation`, which starts at HIGH, the update takes
the ticket down to LOW.

A deletion of a user and an edit *can* wait for each other: the edit has wiped the
mention of a user and is about to share the row of that same user, whom the content
still names, while the deletion holds that row and waits for the mention. PostgreSQL
fails one of the two and its client reads a 500. Nothing documented says otherwise,
and `TransactionsEnd` shows that nothing worse comes of it.

### Disagreements between documentation and code

Five runs check a sentence of the documentation and TLC finds it violated:

- `cycle` (`NoCycles`, `dependencies.service.ts:22`): two linkers walk first and
  insert afterwards.
- `done_while_blocked` (`NoDoneWhileBlocked`, `tickets.service.ts:174`): a blocker
  is linked between the count and the UPDATE.
- `double_restore` (`EachRestoreRestores`, `tickets.service.ts:334`): two restores
  of one deletion are both answered 200 and audited. The restore of a project
  (`projects.service.ts:196`) ignores its row count in the same way.
- `done_is_terminal` (`DoneIsTerminal`, `tickets.service.ts:45`): one request sets a ticket
  DONE; another, which carries the version this is going to produce, has read the ticket
  before and writes after. Neither the DTO nor `update` refuses such a version.
- `overdue_flag` (`OverdueFlagIsCritical`, `001_init.sql:91`): a ticket lowered
  after the scan is flagged all the same.

`CycleOnlyFromStaleWalk`, `ClearedBlockersStayDone` and `AcceptedStatusSticks` are the other
side of `cycle`, `done_while_blocked` and `done_is_terminal`: they say what is needed for the
sentence to fail.

### Fairness

`Spec` has none. `FairSpec` asks weak fairness of `Scan` for the cron job's
cycles (`onModuleInit` starts a job that fires for as long as the process lives,
and `tick` catches every failure), of `Work` for every cycle that has scanned and
of `Walk` for every walk that has started (both only await statements that
PostgreSQL answers). A request, an administrator's cycle, a failure and a step of
the clock are owed to nobody. `Work` includes the INSERT of the entry a cycle owes. `OverdueIsEscalated` relies on failures ending
(`MaxFaults`); the user's updates are bounded by the requests.

`FairSpec` of `Comments` asks it of the steps of open transactions, of taking a row
and of breaking a deadlock: the function given to `db.transaction` awaits nothing but
its statements, and PostgreSQL carries out what need not wait and looks for deadlocks
(`deadlock_timeout`). A request that has no transaction open is owed nothing.

`FairSpec` of `Attachments` asks it of the steps of uploads and deletions that have
begun: a handler awaits only calls that PostgreSQL and the file system answer, if only
with a failure. Crashes, deletions of users and new requests are owed to nobody.

## Proofs

The assumptions are those named in the modules (`DomainAssumption`,
`StoreAssumption`, `ServiceAssumption`, `EscalationAssumption`,
`LinkerAssumption`): ids and dates are numbers, rows are inserted as the table's
defaults say, bodies are what the DTO lets through, the edges at the start have
no cycle. Tickets, requests, linkers, users and the rest may be infinite, with one
exception: `EscalationsEnd` assumes finitely many `Runners`, since its bound is a number
of cycles and a process has only finitely many under way.

Sums over unbounded sets of rows or requests cannot be defined without induction over
data. The theorems that count do without: a step changes one row and moves one process, so
each set that is counted gains or loses at most one element (`AtMostOneMore`, `OneMore`,
`NoMore` in `TypeProofs` and their like), and what was served so far is finite (`Served`,
`Come`).

- `TypeCorrect` (`TypeProofs`): `Spec => []TypeOK`, one lemma per service.
- `OneWinner` (`LifecycleProofs`): `Spec => []OneWinnerPerVersion`, for clients
  that guess versions too. `OneWinnerPerVersion` is not inductive alone: a winner
  must be known to have left the row *beyond* its version (`WonInv`), and no step
  takes a version back (`VersionsGrow`).
- `Implements`: `Spec => ImplementsContract`, for any `Lookahead`. The contract
  (`TicketContract`) has one atomic step per operation; the service checks on one
  row and writes on another. The row a request has read (`ReadInv`) has at most the
  present version, and at equal versions the two agree but for a deletion stamp and an
  assignee; so an UPDATE whose token is the version that was read writes over the row
  that was checked. The other UPDATEs are those that change `blind`, which the
  statement excepts.
- `HonestImplements`: with `Lookahead = 0`, `Spec => Contract!Spec`, without exception. The
  token is then at most the version that was read (`HonestInv`), which is at most the
  present one, and the UPDATE makes all three equal: `blind` stays empty.
- `AcceptedSticks` and `ClearedStayDone`, for any `Lookahead`: a step of the contract takes no
  status back, and a blind write enters its request in `blind`, which excuses that
  ticket for good (`BlindInv`).
- `DiffIsOwn`: `Spec => []UpdateDiffIsOwn`, for any `Lookahead`. By `ReadInv` the row that
  was read is the row that is written over, but for an assignee whose user is gone by then
  (`OwnInv`), and an entry keeps its diff from the UPDATE through its INSERT to the table.
- `VersionsAudited`: `Spec => []EveryVersionAudited`. `AuditInv`: every entry, inserted or
  owed, has a version its ticket has reached and no two have the same; a step that bumps a
  version owes its entry, and an entry is lost only in a step that counts a failure, so the
  versions without one grow by at most one with each.
- `DeletesDelete`: `Spec => []EachDeleteDeletes`. For each ticket the DELETEs that were
  done, less the restores, are at most 1 if it is deleted now and at most 0 if not
  (`DeletionSteps`): the row count lets one DELETE through, and no restore comes undone.
- `EscalationsEnd`: with finitely many `Runners`, `Spec => []EscalationsAreBounded`. A
  potential argument (`Ladder`): `Low(t, k)` are the cycles that may yet write `t` from rung
  `k` or below, because the row is there or their snapshot says so; `Unflagged(t)` those that
  may yet set the flag. A promotion from rung `k` takes one cycle out of `Low(t, k)` and may put
  all `n` into `Low(t, k + 1)`, so `Low(t, 2) + n (Low(t, 1) + n Low(t, 0))` (`Weight`)
  pays for it. Entries so far, `Weight` and `Unflagged` together never exceed the bound;
  only an update of a user raises it (`EscalationSteps`, `LadderStep`).
- `CyclesNeedAStaleWalk` (`DependencyProofs`): `Spec => []CycleOnlyFromStaleWalk`.
  The invariant says that whatever is reachable from a walk's blocker is reached
  by way of its stack or was missed, and that a set with no way back stays one
  when an edge out of it is added.
- `LedgerBalances`: `Spec => []EdgeLedger`. For each edge, adds less removes equal the change of
  the table, since the insert and the delete answer by their row counts (`LedgerSteps`).
- `CommentTypes`, `MentionsMatch`, `OneEdit`, `NoDeadlock` (`CommentProofs`), from
  `CommentAssumption` (names of processes and comments differ, versions start at 1).
  One invariant serves the four: `TypeOK`, where a process stands fits what it was
  asked (`CallsFit`), what it holds fits where it stands and no two hold what they
  cannot share (`LocksFit`), a token that was used up is behind its comment
  (`VersionInv`), and `MatchInv`: whoever is about to commit has shared the row of
  every user it will mention, and whom it will not mention does not exist. The locks
  carry the argument: without the share on a user, the deletion could come between
  the check and the commit. `NoDeadlock` is a consequence of `LocksFit`: whoever waits for
  a mention row already holds that comment, and so would the one it waits for.
- `EntriesFollowVersions`: `Spec => []EntryPerChange`. `TrailInv` adds to that invariant that a
  CREATE entry has a post that is done, so that no commit can write an entry that is there.
- `ContractKept` (`CommentRefinement`): `Spec => CommentsKeepContract`. Beyond the
  invariant of `CommentProofs` it needs `AuthorInv`: the author of every comment, and of
  every post about to commit, exists, because the post shares the author's row and the
  deletion of a user that has come to its cascade has found nothing authored.
- `AttachmentTypes`, `RowsHaveFiles`, `OnlyItsDelete` (`AttachmentProofs`): one invariant
  `Inv`. An upload that has come to its INSERT has its whole file (`FilesFit`); a
  deletion that removes a file has removed the row before, of the ticket that was named
  (`DeletesFit`), so no file is taken from under a row.
- `DamageIsPaid`: `Spec => []DamageHasItsFailure`. Not inductive alone: an INSERT that failed may
  have inserted its row, and then the clean-up, which does not fail, leaves a row without a file.
  So the uploads at their clean-up (`Unsettled`) keep their failure in hand, and `Damage`,
  which counts them too, is what never exceeds failures and deaths. A step changes
  it at one attachment (`DamageAt`), by no more than the step failed; a crash turns whoever was
  at work on a file into the dead.
- `SessionTypes`, `UsersDiffer`, `RevokedOut`, `LogoutRepeats`, `StaleRolesEnd`
  (`SessionProofs`). `Types` says of each request how far it can be with what it was
  asked. `RevokedStaysOut` needs three more: a token's user, once gone, never comes back
  (`Known`); a denylist row has its token's expiry and a logout behind it (`Denied`);
  an answered logout leaves its row, or its user is gone (`Ended`). `StaleRoleExpires`
  needs `Fresh`: no token outlives its time, and a login whose user changed under it was
  noted. Clocks, skew and failures are arbitrary.
- `DiffsAreHonest`, `EveryValueIsTraced`. The row a request read and the row now differ only
  in what overlapping updates sent (`Reading`), so a diff taken of the two has only that and
  the request's own (`Written`). `Accounted` says that each value in a row, *and each that
  a request read and may yet diff against*, is the original, in the log, or in an entry that
  is to be written or was lost; without the second half an update that changes nothing it knows of
  could leave a value behind.
- `PlanningTypes`, `NothingDangles`, `DeletedStaysClosed` (`PlanningProofs`). `References` is
  inductive with the types, once a project that a request has found is known to stay
  (`Routed`). `NoTicketIntoDeletedProject` needs that what was deleted when a request
  came is deleted still or was restored (`Dropped`), so that finding it active means a
  restore (`Checked`).
- `PicksAudited`: `Assigned` follows the pick from the workload to its entry, and every
  entry back to its request. `DeletionsConfirmedOnce`: confirmed deletions less restores
  are at most 1, and 0 while the project is active (`Alternate`). `ImportsAddUp`: while an
  import is at row `s.row`, each row before it is one of created and failed, and the tickets
  it has are those it counted and those whose answer was lost, which no other request can
  have inserted (`Importing`).
- `PicksTheLeastLoaded`: the query's ORDER BY leaves nobody before the pick (`Before`), so
  its load was the least; each write since moves the load of anybody by at most as much as
  `writes` grew (`Least`). A load is the size of a set of tickets, so the table must be finite.

The assumptions of the later modules (`CommentAssumption`, `AttachmentAssumption`,
`AccountAssumption`, `SessionAssumption`, `PlanningAssumption`) say of the initial rows what
the schema says (foreign keys hold, names differ), and of what is asked what the DTOs
let through.

`PlanningAssumption` also says that the tickets at the start are finitely many, as rows of a
table are, and that none of them is called by a request, ids being serial.

Only model-checked: the liveness properties `OverdueIsEscalated`, `WalkEnds`,
`TransactionsEnd` and `StrayFilesGo`, which rest on fairness and ENABLED and so are out of the
prover's reach; `AnswersFit`, which was stated last; that `NoCycles`,
`NoDoneWhileBlocked`, `DoneIsTerminal`, `EachRestoreRestores` and `OverdueFlagIsCritical` are
violated. Every other property of the runs, safety or action property, has a theorem.

## Also noticed

- The comment at `src/src/users/users.repository.ts:155` says that the 23503 of a deletion
  becomes a 409; the filter answers 400 (`Accounts.DeleteUser` does as the filter).
- The comment at `src/src/audit/audit.service.ts:23` says that escalations write their
  entries in a transaction with `logWithClient`; `runOnce` uses `log`, after an UPDATE that is
  already committed, so an escalation can stay without its entry
  (`EveryVersionAudited` counts these).
- `diffMetadata` promises "only the fields that actually changed" (`diff-metadata.ts:2`);
  of a ticket with a due date every diff lists `due_date`, changed or not, since two
  `Date` objects are never `===`. A user deleted between the read and the UPDATE shows in
  the diff as a change of assignee that the request did not make.
- A diff of a user or of a project is taken between a row read earlier and the row the
  UPDATE returns, with no version to tie them (`users.service.ts:131`,
  `projects.service.ts:116`): overlapping updates blame each other, or a change that one
  makes and the other unmakes goes unmentioned.
- A second logout that is sent after the first was answered is refused with 401 by the
  guard, and only overlapping ones reach `ON CONFLICT DO NOTHING`.
- The denylist row of a token goes with its user (`001_init.sql:207`), so after the
  deletion of a user the token's expiry alone ends it.

## Not modelled

- Endpoints that only read: lists, the feed of mentions, `me`, the audit log's filters,
  the workload endpoint (its query is modelled in `create`). What an answer says beyond
  its status is left out, except for the mentions of a comment.
- The CSV export, and the text of CSV: quoting, headers, the parser.
- The HTTP shell: pipes, Swagger, logging; of the exception filter only the status it
  maps a database error to. Password hashing and signatures are taken as sound.
- The migration runner (`src/database/migrate.ts`), a command-line tool that runs before
  the server; two of them at a time are listed as a hazard without a property.
- The connection pool: no handler asks for a second client while it holds one.
- Idle corners of a request: a statement that fails in `TicketService` is left out, for
  the reason given under *Modules*.

What may follow: a module for the migration runner, a proof of `AnswersFit`, and properties for the
other two hazards that have none (an escalation that overwrites the priority a user has
just lowered, two deletions of one comment).
