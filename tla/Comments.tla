------------------------------ MODULE Comments ------------------------------
(***************************************************************************)
(* CommentsService with the transactions of CommentsRepository, and the    *)
(* deletion of users, which reaches the same rows through foreign keys.    *)
(* One action is one database call; a call that must wait for a row is     *)
(* not enabled.  What a transaction writes shows when it commits.          *)
(***************************************************************************)
EXTENDS Naturals, FiniteSets, Functions

CONSTANTS Writers,        \* requests on /tickets/:id/comments, each handled once
          Removers,       \* requests DELETE /users/:id, each handled once
          Users,          \* the users at the start; a username stands for its user
          InitialIds,     \* the comments at the start
          InitialComments,\* their rows
          Calls,          \* what writers ask for
          MaxFaults       \* how many statements may fail

Ids == InitialIds \cup Writers   \* a comment that is posted is called by its request

Rows == [ticket : Nat, author : Users, names : SUBSET Users, version : Nat]

Posts  == [op : {"post"}, ticket : Nat, author : Users, names : SUBSET Users]
Edits  == [op : {"edit"}, ticket : Nat, comment : Ids, names : SUBSET Users]
Erases == [op : {"erase"}, ticket : Nat, comment : Ids]

ASSUME CommentAssumption ==
  /\ Writers \cap Removers = {} /\ Writers \cap InitialIds = {}
  /\ InitialComments \in [InitialIds -> Rows]
  /\ \A c \in InitialIds : InitialComments[c].version = 1
  /\ Calls \subseteq Posts \cup Edits \cup Erases
  /\ MaxFaults \in Nat

VARIABLES comments,       \* comments, the committed rows
          mentions,       \* comment_mentions, the committed <<comment, user>>
          users,          \* users
          log,            \* audit_logs
          locks,          \* <<process, row>>: row locks of open transactions
          pc,             \* where each process stands; its answer at the end
          call,           \* what each process was asked
          token,          \* dto.version of an edit; 0 when it is missing
          ids,            \* mentionedUserIds of a post or an edit
          todo,           \* rows the current statement has not come to yet
          faults          \* statements that have failed

vars == <<comments, mentions, users, log, locks, pc, call, token, ids, todo, faults>>
dbVars == <<comments, mentions, users, log>>

Processes == Writers \cup Removers

CommentRow(c) == <<"comment", c>>
MentionRow(c, u) == <<"mention", c, u>>
UserRow(u) == <<"user", u>>

LockRows == {CommentRow(c) : c \in Ids} \cup {MentionRow(c, u) : c \in Ids, u \in Users}
              \cup {UserRow(u) : u \in Users}

goto(p, where) == pc' = [pc EXCEPT ![p] = where]

-----------------------------------------------------------------------------
\* Foreign keys take FOR KEY SHARE on the row they refer to: that excludes only the
\* deletion of the row, never another such share or an update of other columns.
Shared(p, q, row) ==
  \/ row[1] = "user" /\ p \in Writers /\ q \in Writers
  \/ row[1] = "comment" /\ p \in Removers /\ call[q].op # "erase"

Holders(p, row) == {q \in Processes \ {p} : <<q, row>> \in locks /\ ~Shared(p, q, row)}

Free(p, row) == Holders(p, row) = {}

Lock(p, row) == locks' = locks \cup {<<p, row>>}

\* COMMIT and ROLLBACK release what the transaction holds.
Unlock(p) == locks' = {l \in locks : l[1] # p}

\* Mutant: the client goes back to the pool with its transaction open.
RollbackForgotten(p, answer) ==
  /\ goto(p, answer)
  /\ todo' = [todo EXCEPT ![p] = {}] /\ UNCHANGED locks

\* ROLLBACK: nothing that was written stays.
Rollback(p, answer) ==
  /\ Unlock(p) /\ goto(p, answer)
  /\ todo' = [todo EXCEPT ![p] = {}]

MentionsOf(c) == {u \in Users : <<c, u>> \in mentions}
AuthoredBy(u) == {c \in DOMAIN comments : comments[c].author = u}

\* Mutant: performedBy is given the id of the entity.
EntrySwapped(p, action, id) == [action |-> action, id |-> id, by |-> id]

Entry(p, action, id) == [action |-> action, id |-> id, by |-> p]

\* audit.log after a deletion: a failed INSERT is swallowed.
LogOrLose(entry) ==
  \/ log' = log \cup {entry} /\ UNCHANGED faults
  \/ faults < MaxFaults /\ faults' = faults + 1 /\ UNCHANGED log

-----------------------------------------------------------------------------
Receive(r) ==
  /\ pc[r] = "new"
  /\ \E c \in Calls :
       /\ call' = [call EXCEPT ![r] = c]
       /\ \/ c.op = "post"  /\ goto(r, "ticket") /\ UNCHANGED token
          \/ c.op = "erase" /\ goto(r, "comment") /\ UNCHANGED token
          \/ /\ c.op = "edit"
             /\ \E v \in 0..(IF c.comment \in DOMAIN comments
                             THEN comments[c.comment].version ELSE 1) :
                  /\ token' = [token EXCEPT ![r] = v]
                  /\ goto(r, IF v = 0 THEN "400" ELSE "comment")
  /\ UNCHANGED <<dbVars, locks, ids, todo, faults>>

\* create: assertExistsAndGet; the tickets service owns the answer.
FindTicket(r) ==
  /\ pc[r] = "ticket"
  /\ goto(r, "author") \/ goto(r, "404")
  /\ UNCHANGED <<dbVars, locks, call, token, ids, todo, faults>>

FindAuthor(r) ==
  /\ pc[r] = "author"
  /\ goto(r, IF call[r].author \in users THEN "resolve" ELSE "404")
  /\ UNCHANGED <<dbVars, locks, call, token, ids, todo, faults>>

\* update, delete: the comment exists and is on the ticket of the URL.
FindComment(r) ==
  /\ pc[r] = "comment"
  /\ LET c == call[r].comment
     IN  IF c \in DOMAIN comments /\ comments[c].ticket = call[r].ticket
         THEN goto(r, IF call[r].op = "edit" THEN "resolve" ELSE "delete")
         ELSE goto(r, "404")
  /\ UNCHANGED <<dbVars, locks, call, token, ids, todo, faults>>

\* resolveMentions: unknown usernames are dropped.
Resolve(r) ==
  /\ pc[r] = "resolve"
  /\ ids' = [ids EXCEPT ![r] = call[r].names \cap users]
  /\ goto(r, IF call[r].op = "post" THEN "insert" ELSE "update")
  /\ UNCHANGED <<dbVars, locks, call, token, todo, faults>>

-----------------------------------------------------------------------------
\* createWithMentions: BEGIN and the INSERT, with the foreign key on the author.
InsertComment(r) ==
  /\ pc[r] = "insert" /\ Free(r, UserRow(call[r].author))
  /\ \/ /\ call[r].author \in users
        /\ Lock(r, UserRow(call[r].author)) /\ goto(r, "mentions")
        /\ todo' = [todo EXCEPT ![r] = {UserRow(u) : u \in ids[r]}]
     \/ call[r].author \notin users /\ Rollback(r, "400")
  /\ UNCHANGED <<dbVars, call, token, ids, faults>>

\* Mutant: the version is not in the WHERE clause.
UpdateUnchecked(r) ==
  /\ pc[r] = "update" /\ Free(r, CommentRow(call[r].comment))
  /\ LET c == call[r].comment
     IN  \/ /\ c \in DOMAIN comments
            /\ Lock(r, CommentRow(c)) /\ goto(r, "wipe")
            /\ todo' = [todo EXCEPT ![r] = {MentionRow(c, u) : u \in MentionsOf(c)}]
         \/ /\ c \notin DOMAIN comments
            /\ goto(r, "409") /\ UNCHANGED <<locks, todo>>
  /\ UNCHANGED <<dbVars, call, token, ids, faults>>

\* updateContentAndMentions: BEGIN and the UPDATE, which waits for the row and looks
\* at the version that is then committed.  No row: the transaction ends, 409.
UpdateComment(r) ==
  /\ pc[r] = "update" /\ Free(r, CommentRow(call[r].comment))
  /\ LET c == call[r].comment
     IN  \/ /\ c \in DOMAIN comments /\ comments[c].version = token[r]
            /\ Lock(r, CommentRow(c)) /\ goto(r, "wipe")
            /\ todo' = [todo EXCEPT ![r] = {MentionRow(c, u) : u \in MentionsOf(c)}]
         \/ /\ ~(c \in DOMAIN comments /\ comments[c].version = token[r])
            /\ goto(r, "409") /\ UNCHANGED <<locks, todo>>
  /\ UNCHANGED <<dbVars, call, token, ids, faults>>

\* A DELETE of mention rows, or the cascade of one, comes to one row: it waits for
\* the row, and locks it.
TakeRow(p) ==
  /\ pc[p] \in {"wipe", "cascade"}
  /\ \E row \in todo[p] :
       /\ Free(p, row) /\ Lock(p, row)
       /\ todo' = [todo EXCEPT ![p] = @ \ {row}]
  /\ UNCHANGED <<dbVars, pc, call, token, ids, faults>>

\* The mention rows are wiped: INSERT INTO comment_mentions.
InsertMentions(r) ==
  /\ pc[r] = "wipe" /\ todo[r] = {}
  /\ todo' = [todo EXCEPT ![r] = {UserRow(u) : u \in ids[r]}]
  /\ goto(r, "mentions")
  /\ UNCHANGED <<dbVars, locks, call, token, ids, faults>>

\* The foreign key of one inserted row: its user still exists, and stays.
CheckUser(r) ==
  /\ pc[r] = "mentions"
  /\ \E u \in Users :
       /\ UserRow(u) \in todo[r] /\ Free(r, UserRow(u))
       /\ \/ /\ u \in users /\ Lock(r, UserRow(u))
             /\ todo' = [todo EXCEPT ![r] = @ \ {UserRow(u)}]
             /\ UNCHANGED pc
          \/ u \notin users /\ Rollback(r, "400")
  /\ UNCHANGED <<dbVars, call, token, ids, faults>>

\* onCommitting: logWithClient, in the transaction.
LogChange(r) ==
  /\ pc[r] = "mentions" /\ todo[r] = {}
  /\ goto(r, "commit")
  /\ UNCHANGED <<dbVars, locks, call, token, ids, todo, faults>>

\* What the transaction of r leaves at its comment.
Target(r) == IF call[r].op = "post" THEN r ELSE call[r].comment

Written(r) ==
  IF call[r].op = "post"
  THEN [ticket |-> call[r].ticket, author |-> call[r].author,
        names |-> call[r].names, version |-> 1]
  ELSE [comments[call[r].comment] EXCEPT !.names = call[r].names,
                                         !.version = @ + 1]

\* Mutant: mentions are added to those of the former content.
ApplyUnwiped(r) ==
  LET c == Target(r)
  IN  /\ comments' = [x \in DOMAIN comments \cup {c} |->
                        IF x = c THEN Written(r) ELSE comments[x]]
      /\ mentions' = mentions \cup ({c} \X ids[r])
      /\ log' = log \cup {Entry(r, IF call[r].op = "post" THEN "CREATE" ELSE "UPDATE", c)}

Apply(r) ==
  LET c == Target(r)
  IN  /\ comments' = [x \in DOMAIN comments \cup {c} |->
                        IF x = c THEN Written(r) ELSE comments[x]]
      /\ mentions' = {m \in mentions : m[1] # c} \cup ({c} \X ids[r])
      /\ log' = log \cup {Entry(r, IF call[r].op = "post" THEN "CREATE" ELSE "UPDATE", c)}

\* Mutant: audit.log after the COMMIT instead of logWithClient before it.
CommitThenLog(r) ==
  /\ pc[r] = "commit" /\ Unlock(r) /\ goto(r, "200")
  /\ LET c == Target(r)
     IN  /\ comments' = [x \in DOMAIN comments \cup {c} |->
                           IF x = c THEN Written(r) ELSE comments[x]]
         /\ mentions' = {m \in mentions : m[1] # c} \cup ({c} \X ids[r])
         /\ LogOrLose(Entry(r, IF call[r].op = "post" THEN "CREATE" ELSE "UPDATE", c))
  /\ UNCHANGED <<users, call, token, ids, todo>>

\* COMMIT.  If the connection breaks after it, the client is told 500 all the same.
Commit(r) ==
  /\ pc[r] = "commit"
  /\ Apply(r) /\ Unlock(r)
  /\ \/ goto(r, "200") /\ UNCHANGED faults
     \/ faults < MaxFaults /\ faults' = faults + 1 /\ goto(r, "500")
  /\ UNCHANGED <<users, call, token, ids, todo>>

-----------------------------------------------------------------------------
\* Mutant: the mention rows are deleted by a statement of its own, before the comment.
DeleteMentionsFirst(r) ==
  /\ pc[r] = "delete" /\ goto(r, "cascade")
  /\ todo' = [todo EXCEPT ![r] = {MentionRow(call[r].comment, u) :
                                     u \in MentionsOf(call[r].comment)}]
  /\ UNCHANGED <<dbVars, locks, call, token, ids, faults>>

\* delete: the DELETE waits for the row.  That it is gone meanwhile is not noticed.
DeleteComment(r) ==
  /\ pc[r] = "delete" /\ Free(r, CommentRow(call[r].comment))
  /\ LET c == call[r].comment
     IN  \/ /\ c \in DOMAIN comments
            /\ Lock(r, CommentRow(c)) /\ goto(r, "cascade")
            /\ todo' = [todo EXCEPT ![r] = {MentionRow(c, u) : u \in MentionsOf(c)}]
            /\ UNCHANGED <<log, faults>>
         \/ /\ c \notin DOMAIN comments
            /\ goto(r, "200") /\ LogOrLose(Entry(r, "DELETE", c))
            /\ UNCHANGED <<locks, todo>>
  /\ UNCHANGED <<comments, mentions, users, call, token, ids>>

\* The DELETE is done, and audited.
CommentGone(r) ==
  /\ r \in Writers /\ pc[r] = "cascade" /\ todo[r] = {}
  /\ LET c == call[r].comment
     IN  /\ comments' = Restrict(comments, DOMAIN comments \ {c})
         /\ mentions' = {m \in mentions : m[1] # c}
         /\ LogOrLose(Entry(r, "DELETE", c))
  /\ Unlock(r) /\ goto(r, "200")
  /\ UNCHANGED <<users, call, token, ids, todo>>

-----------------------------------------------------------------------------
\* UsersService.delete.
ReceiveRemove(d) ==
  /\ pc[d] = "new"
  /\ \E u \in Users : call' = [call EXCEPT ![d] = [op |-> "remove", user |-> u]]
  /\ goto(d, "user")
  /\ UNCHANGED <<dbVars, locks, token, ids, todo, faults>>

FindUser(d) ==
  /\ pc[d] = "user"
  /\ goto(d, IF call[d].user \in users THEN "remove" ELSE "404")
  /\ UNCHANGED <<dbVars, locks, call, token, ids, todo, faults>>

\* DELETE FROM users, which waits for every share of the row.
DeleteUser(d) ==
  /\ pc[d] = "remove" /\ Free(d, UserRow(call[d].user))
  /\ \/ /\ call[d].user \in users
        /\ Lock(d, UserRow(call[d].user)) /\ goto(d, "restrict")
     \/ call[d].user \notin users /\ goto(d, "404") /\ UNCHANGED locks
  /\ UNCHANGED <<dbVars, call, token, ids, todo, faults>>

\* Mutant: author_id is ON DELETE SET NULL.
AuthoredIgnored(d) ==
  /\ pc[d] = "restrict" /\ goto(d, "cascade") /\ UNCHANGED locks
  /\ todo' = [todo EXCEPT ![d] = {MentionRow(c, call[d].user) :
                                    c \in {x \in DOMAIN comments :
                                             call[d].user \in MentionsOf(x)}}]
  /\ UNCHANGED <<dbVars, call, token, ids, faults>>

\* ON DELETE RESTRICT of comments.author_id: it waits for comments being deleted.
CheckAuthored(d) ==
  /\ pc[d] = "restrict"
  /\ \/ /\ \E c \in AuthoredBy(call[d].user) : Free(d, CommentRow(c))
        /\ Rollback(d, "400")
     \/ /\ AuthoredBy(call[d].user) = {}
        /\ todo' = [todo EXCEPT ![d] = {MentionRow(c, call[d].user) :
                                          c \in {x \in DOMAIN comments :
                                                   call[d].user \in MentionsOf(x)}}]
        /\ goto(d, "cascade") /\ UNCHANGED locks
  /\ UNCHANGED <<dbVars, call, token, ids, faults>>

\* ON DELETE CASCADE of comment_mentions is done; the user is gone, and audited.
UserGone(d) ==
  /\ d \in Removers /\ pc[d] = "cascade" /\ todo[d] = {}
  /\ users' = users \ {call[d].user}
  /\ mentions' = {m \in mentions : m[2] # call[d].user}
  /\ LogOrLose(Entry(d, "DELETE", call[d].user))
  /\ Unlock(d) /\ goto(d, "200")
  /\ UNCHANGED <<comments, call, token, ids, todo>>

-----------------------------------------------------------------------------
Open(p) == pc[p] \in {"wipe", "mentions", "commit", "cascade", "restrict"}

\* A statement of an open transaction fails, or its process dies.
Fail(p) ==
  /\ Open(p) /\ faults < MaxFaults
  /\ faults' = faults + 1
  /\ Rollback(p, "500")
  /\ UNCHANGED <<dbVars, call, token, ids>>

\* The rows whose locks p's statement may be waiting for.
Wanted(p) ==
  CASE pc[p] = "insert"               -> {UserRow(call[p].author)}
    [] pc[p] \in {"update", "delete"} -> {CommentRow(call[p].comment)}
    [] pc[p] = "remove"               -> {UserRow(call[p].user)}
    [] pc[p] = "restrict"             -> {CommentRow(c) : c \in AuthoredBy(call[p].user)}
    [] OTHER                          -> todo[p]

WaitsFor(p, q) == \E row \in Wanted(p) : q \in Holders(p, row)

\* Everyone in group waits for someone in it and is waited for.
Deadlocked(group) ==
  group # {} /\ \A p \in group : /\ \E q \in group : WaitsFor(p, q)
                                 /\ \E q \in group : WaitsFor(q, p)

\* PostgreSQL breaks a deadlock by failing one statement: 40P01, a 500.
BreakDeadlock(p) ==
  /\ Open(p) /\ \E group \in SUBSET Processes : p \in group /\ Deadlocked(group)
  /\ Rollback(p, "500")
  /\ UNCHANGED <<dbVars, call, token, ids, faults>>

WriterStep(r) ==
  \/ FindTicket(r) \/ FindAuthor(r) \/ FindComment(r) \/ Resolve(r)
  \/ InsertComment(r) \/ UpdateComment(r) \/ InsertMentions(r) \/ CheckUser(r)
  \/ LogChange(r) \/ Commit(r) \/ DeleteComment(r) \/ CommentGone(r)

RemoverStep(d) == FindUser(d) \/ DeleteUser(d) \/ CheckAuthored(d) \/ UserGone(d)

Init ==
  /\ comments = InitialComments
  /\ mentions = {m \in InitialIds \X Users : m[2] \in InitialComments[m[1]].names}
  /\ users = Users /\ log = {} /\ locks = {} /\ faults = 0
  /\ pc = [p \in Processes |-> "new"] /\ call = [p \in Processes |-> [op |-> "none"]]
  /\ token = [r \in Writers |-> 0] /\ ids = [r \in Writers |-> {}]
  /\ todo = [p \in Processes |-> {}]

Next ==
  \/ \E r \in Writers : Receive(r) \/ WriterStep(r)
  \/ \E d \in Removers : ReceiveRemove(d) \/ RemoverStep(d)
  \/ \E p \in Processes : TakeRow(p) \/ Fail(p) \/ BreakDeadlock(p)

Spec == Init /\ [][Next]_vars

\* PostgreSQL carries out statements that need not wait and breaks deadlocks, and
\* a transaction's function awaits nothing but its statements.
Fairness ==
  /\ \A r \in Writers : WF_vars(WriterStep(r) /\ Open(r))
  /\ \A d \in Removers : WF_vars(RemoverStep(d) /\ Open(d))
  /\ \A p \in Processes : WF_vars(TakeRow(p)) /\ WF_vars(BreakDeadlock(p))

FairSpec == Spec /\ Fairness

-----------------------------------------------------------------------------
TypeOK ==
  /\ DOMAIN comments \subseteq Ids /\ comments \in [DOMAIN comments -> Rows]
  /\ mentions \subseteq Ids \X Users
  /\ users \subseteq Users
  /\ log \subseteq [action : {"CREATE", "UPDATE", "DELETE"}, id : Ids \cup Users,
                    by : Processes]
  /\ locks \subseteq Processes \X LockRows /\ todo \in [Processes -> SUBSET LockRows]
  /\ call \in [Processes -> Calls \cup {[op |-> "none"]} \cup [op : {"remove"}, user : Users]]
  /\ pc \in [Processes -> {"new", "ticket", "author", "comment", "resolve", "insert",
                           "update", "wipe", "mentions", "commit", "delete", "cascade",
                           "user", "remove", "restrict",
                           "200", "400", "404", "409", "500"}]
  /\ token \in [Writers -> Nat] /\ ids \in [Writers -> SUBSET Users]
  /\ faults \in 0..MaxFaults

\* A comment's mention rows are the users its content names, those that still exist:
\* whatever was deleted or edited between resolveMentions and the commit.
MentionsMatchContent ==
  mentions = {m \in (DOMAIN comments) \X users : m[2] \in comments[m[1]].names}

\* Of the edits sent with one version of a comment at most one is ever saved, the
\* ones whose sender was told 500 included (UPDATE ... WHERE version = $3).
OneEditPerVersion ==
  \A e, f \in log :
    e.action = "UPDATE" /\ f.action = "UPDATE" /\ e.id = f.id /\ token[e.by] = token[f.by]
      => e = f

Entries(c, action) == Cardinality({e \in log : e.id = c /\ e.action = action})

\* Every version of a comment has its audit entry and no entry is without its
\* version, though statements fail (logWithClient inside the transaction).
EntryPerChange ==
  \A c \in DOMAIN comments :
    /\ Entries(c, "UPDATE") = comments[c].version - 1
    /\ Entries(c, "CREATE") = IF c \in Writers THEN 1 ELSE 0

\* Requests on comments never deadlock among themselves: each takes the comment's
\* row before its mention rows, and shares the users it names.
NoDeadlockAmongWriters == \A group \in SUBSET Writers : ~Deadlocked(group)

\* Every transaction ends, and with it the wait for its rows, whatever fails and
\* whoever waits for whom (db.transaction commits or rolls back).
TransactionsEnd == \A p \in Processes : Open(p) ~> ~Open(p)

\* A comment with its mentions, as they are committed.  Requests read the two in two
\* statements: what they may be given is the matter of module CommentReads.
Doc(c) ==
  [ticket |-> comments[c].ticket, author |-> comments[c].author, names |-> comments[c].names,
   version |-> comments[c].version, mentioned |-> MentionsOf(c)]

Docs == [c \in DOMAIN comments |-> Doc(c)]

Contract == INSTANCE CommentContract WITH docs <- Docs

\* Statements and locks, failures and cascades come to what the contract says of the
\* tables: every change is committed at once and whole, with the mentions that fit it.
CommentsKeepContract == Contract!Spec
=============================================================================
