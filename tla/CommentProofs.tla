--------------------------- MODULE CommentProofs ---------------------------
(***************************************************************************)
(* Comments, their mentions and their locks, for any number of comments,   *)
(* users and requests.                                                     *)
(*                                                                         *)
(* The argument is about locks: an edit that has passed the version check  *)
(* holds the comment's row until it commits, and the users it names are    *)
(* shared before it commits, so neither the version nor those users can    *)
(* change under it.  That every change has its entry is a count: a version *)
(* is one commit, and a commit writes both.                                *)
(***************************************************************************)
EXTENDS Comments, FiniteSetTheorems, TLAPS

Held(p) == {row \in LockRows : <<p, row>> \in locks}

WriterPCs == {"new", "ticket", "author", "comment", "resolve", "insert", "update",
              "wipe", "mentions", "commit", "delete", "cascade",
              "200", "400", "404", "409", "500"}
RemoverPCs == {"new", "user", "remove", "restrict", "cascade",
               "200", "400", "404", "500"}

\* Where a process stands fits what it was asked.
WriterCall(r) ==
  /\ pc[r] \in WriterPCs
  /\ pc[r] # "new" => call[r] \in Calls
  /\ pc[r] \in {"ticket", "author", "insert"} => call[r].op = "post"
  /\ pc[r] \in {"update", "wipe"} => call[r].op = "edit"
  /\ pc[r] \in {"delete", "cascade"} => call[r].op = "erase"
  /\ pc[r] = "comment" => call[r].op \in {"edit", "erase"}
  /\ pc[r] \in {"resolve", "mentions", "commit"} => call[r].op \in {"post", "edit"}

RemoverCall(d) ==
  /\ pc[d] \in RemoverPCs
  /\ pc[d] # "new" => call[d] \in [op : {"remove"}, user : Users]

CallsFit ==
  /\ \A r \in Writers : WriterCall(r)
  /\ \A d \in Removers : RemoverCall(d)

-----------------------------------------------------------------------------
\* The three kinds of rows, and what a row of each kind determines.
LEMMA RowFacts ==
  /\ \A c \in Ids : CommentRow(c) \in LockRows /\ CommentRow(c)[1] = "comment"
  /\ \A u \in Users : UserRow(u) \in LockRows /\ UserRow(u)[1] = "user"
  /\ \A c \in Ids, u \in Users : MentionRow(c, u) \in LockRows /\ MentionRow(c, u)[1] = "mention"
  /\ \A c, d : CommentRow(c) = CommentRow(d) => c = d
  /\ \A u, v : UserRow(u) = UserRow(v) => u = v
  /\ \A c, d, u, v : MentionRow(c, u) = MentionRow(d, v) => c = d /\ u = v
BY DEF LockRows, CommentRow, UserRow, MentionRow

LEMMA MentionLocks ==
  ASSUME NEW c \in Ids
  PROVE  {MentionRow(c, u) : u \in MentionsOf(c)} \in SUBSET LockRows
<1>1. \A u \in Users : MentionRow(c, u) \in LockRows
  BY RowFacts
<1>2. MentionsOf(c) \subseteq Users
  BY DEF MentionsOf
<1>3. QED
  BY <1>1, <1>2

\* What a call is made of.
LEMMA CallShapes ==
  ASSUME NEW c \in Calls
  PROVE  /\ c.op \in {"post", "edit", "erase"} /\ c.ticket \in Nat
         /\ c.op = "post" => c.author \in Users
         /\ c.op \in {"post", "edit"} => c.names \in SUBSET Users
         /\ c.op \in {"edit", "erase"} => c.comment \in Ids
BY CommentAssumption DEF Posts, Edits, Erases

\* A step of one process leaves the others where they are, with what they asked.
LEMMA CallsFitFrame ==
  ASSUME TypeOK, CallsFit, NEW p \in Processes,
         \A q \in Processes : q # p => pc'[q] = pc[q] /\ call'[q] = call[q],
         p \in Writers => WriterCall(p)', p \in Removers => RemoverCall(p)'
  PROVE  CallsFit'
BY DEF CallsFit, WriterCall, RemoverCall, Processes

LEMMA CallsFitStep ==
  ASSUME TypeOK, CallsFit, [Next]_vars
  PROVE  CallsFit'
<1>1. CASE UNCHANGED vars
  BY <1>1 DEF vars, CallsFit, WriterCall, RemoverCall
<1>2. ASSUME NEW r \in Writers, Receive(r) \/ WriterStep(r)
      PROVE  CallsFit'
  <2> r \in Processes /\ r \notin Removers /\ WriterCall(r)
    BY CommentAssumption DEF Processes, CallsFit
  <2>1. CASE Receive(r)
    BY <2>1, CallShapes, CallsFitFrame DEF Receive, goto, WriterCall, WriterPCs, TypeOK
  <2>2. CASE FindTicket(r) \/ FindAuthor(r) \/ FindComment(r) \/ Resolve(r)
    BY <2>2, CallShapes, CallsFitFrame
    DEF FindTicket, FindAuthor, FindComment, Resolve, goto, WriterCall, WriterPCs, TypeOK
  <2>3. CASE InsertComment(r) \/ UpdateComment(r) \/ InsertMentions(r) \/ CheckUser(r)
    BY <2>3, CallShapes, CallsFitFrame
    DEF InsertComment, UpdateComment, InsertMentions, CheckUser, Rollback, goto,
        WriterCall, WriterPCs, TypeOK
  <2>4. CASE LogChange(r) \/ Commit(r) \/ DeleteComment(r) \/ CommentGone(r)
    BY <2>4, CallShapes, CallsFitFrame
    DEF LogChange, Commit, DeleteComment, CommentGone, goto, WriterCall, WriterPCs, TypeOK
  <2>5. QED
    BY <1>2, <2>1, <2>2, <2>3, <2>4 DEF WriterStep
<1>3. ASSUME NEW d \in Removers, ReceiveRemove(d) \/ RemoverStep(d)
      PROVE  CallsFit'
  <2> d \in Processes /\ d \notin Writers /\ RemoverCall(d)
    BY CommentAssumption DEF Processes, CallsFit
  <2>1. CASE ReceiveRemove(d)
    BY <2>1, CallsFitFrame DEF ReceiveRemove, goto, RemoverCall, RemoverPCs, TypeOK
  <2>2. CASE RemoverStep(d)
    BY <2>2, CallsFitFrame
    DEF RemoverStep, FindUser, DeleteUser, CheckAuthored, UserGone, Rollback, goto,
        RemoverCall, RemoverPCs, TypeOK
  <2>3. QED
    BY <1>3, <2>1, <2>2
<1>4. ASSUME NEW p \in Processes, TakeRow(p) \/ Fail(p) \/ BreakDeadlock(p)
      PROVE  CallsFit'
  <2>1. CASE TakeRow(p)
    BY <2>1 DEF TakeRow, CallsFit, WriterCall, RemoverCall
  <2>2. CASE Fail(p) \/ BreakDeadlock(p)
    <3>1. pc' = [pc EXCEPT ![p] = "500"] /\ call' = call /\ pc[p] # "new"
      BY <2>2 DEF Fail, BreakDeadlock, Rollback, goto, Open
    <3>2. p \in Writers => WriterCall(p)'
      BY <3>1 DEF CallsFit, WriterCall, WriterPCs, TypeOK
    <3>3. p \in Removers => RemoverCall(p)'
      BY <3>1 DEF CallsFit, RemoverCall, RemoverPCs, TypeOK
    <3>4. QED
      BY <3>1, <3>2, <3>3, CallsFitFrame DEF TypeOK
  <2>3. QED
    BY <1>4, <2>1, <2>2
<1>5. QED
  BY <1>1, <1>2, <1>3, <1>4 DEF Next

-----------------------------------------------------------------------------
\* What is taken from locks or added to them is a lock.
LEMMA LockTypes ==
  ASSUME TypeOK, NEW p \in Processes
  PROVE  /\ Unlock(p) => locks' \subseteq Processes \X LockRows
         /\ \A row \in LockRows : Lock(p, row) => locks' \subseteq Processes \X LockRows
BY DEF TypeOK, Unlock, Lock

LogTyped ==
  /\ log \subseteq [action : {"CREATE", "UPDATE", "DELETE"}, id : Ids \cup Users, by : Processes]
  /\ faults \in 0..MaxFaults

LEMMA LogTypes ==
  ASSUME TypeOK, NEW p \in Processes, NEW id \in Ids \cup Users,
         LogOrLose(Entry(p, "DELETE", id))
  PROVE  LogTyped'
BY CommentAssumption DEF TypeOK, LogTyped, LogOrLose, Entry

\* What an edit or a post writes is a comment.
LEMMA WrittenFacts ==
  ASSUME TypeOK, NEW r \in Writers, call[r] \in Calls, call[r].op \in {"post", "edit"},
         call[r].op = "edit" => call[r].comment \in DOMAIN comments
  PROVE  /\ Target(r) \in Ids /\ Written(r) \in Rows
         /\ Written(r).names = call[r].names
         /\ call[r].op = "edit" => /\ Target(r) = call[r].comment
                                   /\ Written(r).version = comments[call[r].comment].version + 1
         /\ call[r].op = "post" => Target(r) = r
<1>1. CASE call[r].op = "post"
  BY <1>1, CallShapes DEF Target, Written, Rows, Ids
<1>2. CASE call[r].op = "edit"
  <2>1. comments[call[r].comment] \in Rows /\ call[r].names \in SUBSET Users
        /\ call[r].comment \in Ids
    BY <1>2, CallShapes DEF TypeOK
  <2>2. ASSUME NEW row \in Rows, NEW n \in SUBSET Users
        PROVE  /\ [row EXCEPT !.names = n, !.version = row.version + 1] \in Rows
               /\ [row EXCEPT !.names = n, !.version = row.version + 1].names = n
               /\ [row EXCEPT !.names = n, !.version = row.version + 1].version = row.version + 1
    <3>1. row.version + 1 \in Nat
      BY DEF Rows
    <3>2. ASSUME NEW v \in Nat
          PROVE  /\ [row EXCEPT !.names = n, !.version = v] \in Rows
                 /\ [row EXCEPT !.names = n, !.version = v].names = n
                 /\ [row EXCEPT !.names = n, !.version = v].version = v
      BY DEF Rows
    <3>3. QED
      BY <3>1, <3>2
  <2>3. QED
    BY <1>2, <2>1, <2>2 DEF Target, Written
<1>3. QED
  BY <1>1, <1>2

\* An edit that is about to commit still has its comment (the row is locked).
EditHasComment ==
  \A r \in Writers :
    pc[r] \in {"wipe", "mentions", "commit"} /\ call[r].op = "edit"
      => call[r].comment \in DOMAIN comments

LEMMA TypeStep ==
  ASSUME TypeOK, CallsFit, EditHasComment, [Next]_vars
  PROVE  TypeOK'
<1> USE RowFacts
<1>1. CASE UNCHANGED vars
  BY <1>1 DEF vars, TypeOK
<1>2. ASSUME NEW r \in Writers, Receive(r) \/ WriterStep(r)
      PROVE  TypeOK'
  <2> r \in Processes /\ WriterCall(r)
    BY DEF Processes, CallsFit
  <2>1. CASE Receive(r)
    BY <2>1, CallShapes DEF Receive, goto, TypeOK, dbVars, Rows
  <2>2. CASE FindTicket(r) \/ FindAuthor(r) \/ FindComment(r) \/ Resolve(r)
    <3>1. CASE FindTicket(r) \/ FindAuthor(r) \/ FindComment(r)
      BY <2>2, <3>1 DEF FindTicket, FindAuthor, FindComment, goto, TypeOK, dbVars
    <3>2. CASE Resolve(r)
      <4>1. call[r].names \in SUBSET Users
        BY <3>2, CallShapes DEF Resolve, WriterCall
      <4>2. QED
        BY <3>2, <4>1 DEF Resolve, goto, TypeOK, dbVars
    <3>3. QED
      BY <2>2, <3>1, <3>2
  <2>3. CASE InsertComment(r)
    <3>1. UserRow(call[r].author) \in LockRows
      BY <2>3, CallShapes DEF InsertComment, WriterCall
    <3>2. {UserRow(u) : u \in ids[r]} \in SUBSET LockRows
      BY DEF TypeOK
    <3>3. locks' \subseteq Processes \X LockRows /\ todo' \in [Processes -> SUBSET LockRows]
      BY <2>3, <3>1, <3>2, LockTypes DEF InsertComment, Rollback, TypeOK
    <3>4. QED
      BY <2>3, <3>3 DEF InsertComment, Rollback, goto, TypeOK, dbVars
  <2>4. CASE UpdateComment(r)
    <3>1. call[r].comment \in Ids
      BY <2>4, CallShapes DEF UpdateComment, WriterCall
    <3>2. {MentionRow(call[r].comment, u) : u \in MentionsOf(call[r].comment)} \in SUBSET LockRows
      BY <3>1, MentionLocks
    <3>3. locks' \subseteq Processes \X LockRows /\ todo' \in [Processes -> SUBSET LockRows]
      BY <2>4, <3>1, <3>2, LockTypes DEF UpdateComment, TypeOK
    <3>4. QED
      BY <2>4, <3>3 DEF UpdateComment, goto, TypeOK, dbVars
  <2>5. CASE InsertMentions(r) \/ CheckUser(r) \/ LogChange(r)
    <3>1. CASE InsertMentions(r)
      BY <3>1, LockTypes DEF InsertMentions, Rollback, goto, TypeOK, dbVars
    <3>2. CASE CheckUser(r)
      BY <3>2, LockTypes DEF CheckUser, Rollback, goto, TypeOK, dbVars
    <3>3. CASE LogChange(r)
      BY <3>3, LockTypes DEF LogChange, Rollback, goto, TypeOK, dbVars
    <3>4. QED
      BY <2>5, <3>1, <3>2, <3>3
  <2>6. CASE Commit(r)
    <3>1. Target(r) \in Ids /\ Written(r) \in Rows
      BY <2>6, WrittenFacts DEF Commit, WriterCall, EditHasComment
    <3>2. DOMAIN comments' \subseteq Ids /\ comments' \in [DOMAIN comments' -> Rows]
      BY <2>6, <3>1 DEF Commit, Apply, TypeOK
    <3>3. mentions' \subseteq Ids \X Users
      BY <2>6, <3>1 DEF Commit, Apply, TypeOK
    <3>4. log' \subseteq [action : {"CREATE", "UPDATE", "DELETE"}, id : Ids \cup Users,
                          by : Processes]
      BY <2>6, <3>1 DEF Commit, Apply, TypeOK, Entry
    <3>5. faults' \in 0..MaxFaults
      BY <2>6, CommentAssumption DEF Commit, TypeOK
    <3>6. locks' \subseteq Processes \X LockRows
      BY <2>6, LockTypes DEF Commit
    <3>7. QED
      BY <2>6, <3>2, <3>3, <3>4, <3>5, <3>6 DEF Commit, goto, TypeOK
  <2>7. CASE DeleteComment(r)
    <3>1. call[r].comment \in Ids
      BY <2>7, CallShapes DEF DeleteComment, WriterCall
    <3>2. {MentionRow(call[r].comment, u) : u \in MentionsOf(call[r].comment)} \in SUBSET LockRows
      BY <3>1, MentionLocks
    <3>3. locks' \subseteq Processes \X LockRows /\ todo' \in [Processes -> SUBSET LockRows]
      BY <2>7, <3>1, <3>2, LockTypes DEF DeleteComment, TypeOK
    <3>4. LogTyped'
      BY <2>7, <3>1, LogTypes DEF DeleteComment, TypeOK, LogTyped
    <3>5. QED
      BY <2>7, <3>3, <3>4 DEF DeleteComment, goto, TypeOK, LogTyped
  <2>8. CASE CommentGone(r)
    <3>1. DOMAIN comments' \subseteq Ids /\ comments' \in [DOMAIN comments' -> Rows]
      BY <2>8 DEF CommentGone, Restrict, TypeOK
    <3>2. LogTyped'
      BY <2>8, CallShapes, LogTypes DEF CommentGone, WriterCall
    <3>3. locks' \subseteq Processes \X LockRows
      BY <2>8, LockTypes DEF CommentGone
    <3>4. QED
      BY <2>8, <3>1, <3>2, <3>3 DEF CommentGone, goto, TypeOK, LogTyped
  <2>9. QED
    BY <1>2, <2>1, <2>2, <2>3, <2>4, <2>5, <2>6, <2>7, <2>8 DEF WriterStep
<1>3. ASSUME NEW d \in Removers, ReceiveRemove(d) \/ RemoverStep(d)
      PROVE  TypeOK'
  <2> d \in Processes /\ RemoverCall(d)
    BY DEF Processes, CallsFit
  <2>1. CASE ReceiveRemove(d) \/ FindUser(d)
    BY <2>1 DEF ReceiveRemove, FindUser, goto, TypeOK, dbVars
  <2>2. CASE DeleteUser(d)
    BY <2>2, LockTypes DEF DeleteUser, goto, TypeOK, dbVars, RemoverCall
  <2>3. CASE CheckAuthored(d)
    BY SMTT(20), <2>3, LockTypes DEF CheckAuthored, Rollback, goto, TypeOK, dbVars, RemoverCall
  <2>4. CASE UserGone(d)
    <3>1. LogTyped'
      BY <2>4, LogTypes DEF UserGone, RemoverCall
    <3>2. locks' \subseteq Processes \X LockRows
      BY <2>4, LockTypes DEF UserGone
    <3>3. QED
      BY <2>4, <3>1, <3>2 DEF UserGone, goto, TypeOK, LogTyped
  <2>5. QED
    BY <1>3, <2>1, <2>2, <2>3, <2>4 DEF RemoverStep
<1>4. ASSUME NEW p \in Processes, TakeRow(p) \/ Fail(p) \/ BreakDeadlock(p)
      PROVE  TypeOK'
  <2>1. CASE TakeRow(p)
    BY <2>1, LockTypes DEF TakeRow, TypeOK, dbVars
  <2>2. CASE Fail(p) \/ BreakDeadlock(p)
    <3>1. locks' \subseteq Processes \X LockRows
      BY <2>2, LockTypes DEF Fail, BreakDeadlock, Rollback
    <3>2. faults' \in 0..MaxFaults
      BY <2>2, CommentAssumption DEF Fail, BreakDeadlock, TypeOK
    <3>3. QED
      BY <2>2, <3>1, <3>2 DEF Fail, BreakDeadlock, Rollback, goto, TypeOK, dbVars
  <2>3. QED
    BY <1>4, <2>1, <2>2
<1>5. QED
  BY <1>1, <1>2, <1>3, <1>4 DEF Next

-----------------------------------------------------------------------------
\* A row has one holder, except that writers share users.
Exclusive ==
  \A p, q \in Processes : \A row \in Held(p) \cap Held(q) :
    p = q \/ (row[1] = "user" /\ p \in Writers /\ q \in Writers)

\* What a writer holds and is about to ask for, phase by phase.
WriterLocks(r) ==
  LET c == call[r].comment
  IN  /\ pc[r] \in {"wipe", "cascade"} =>
           CommentRow(c) \in Held(r) /\ todo[r] \subseteq {MentionRow(c, u) : u \in Users}
      /\ pc[r] \in {"mentions", "commit"} /\ call[r].op = "edit" => CommentRow(c) \in Held(r)
      /\ pc[r] = "mentions" => todo[r] \subseteq {UserRow(u) : u \in Users}
      /\ pc[r] = "commit" => todo[r] = {}
      /\ \A row \in Held(r) : row[1] = "mention" =>
           /\ CommentRow(c) \in Held(r)
           /\ \E u \in Users : row = MentionRow(c, u)

RemoverLocks(d) ==
  LET u == call[d].user
  IN  /\ \A row \in Held(d) : row[1] # "comment"
      /\ pc[d] \in {"restrict", "cascade"} => UserRow(u) \in Held(d)
      /\ pc[d] = "cascade" => todo[d] \subseteq {MentionRow(c, u) : c \in Ids}

LocksFit ==
  /\ Exclusive
  /\ \A p \in Processes : Held(p) # {} => Open(p)
  /\ \A r \in Writers : WriterLocks(r)
  /\ \A d \in Removers : RemoverLocks(d)

\* What locking and releasing do to the rows a process holds.
LEMMA HeldFacts ==
  ASSUME NEW p \in Processes
  PROVE  /\ locks' = locks => \A q \in Processes : Held(q)' = Held(q)
         /\ Unlock(p) => Held(p)' = {} /\ \A q \in Processes \ {p} : Held(q)' \subseteq Held(q)
                                                     /\ Held(q) \subseteq Held(q)'
         /\ \A row \in LockRows : Lock(p, row) =>
              /\ Held(p)' = Held(p) \cup {row}
              /\ \A q \in Processes \ {p} : Held(q)' = Held(q)
BY DEF Held, Unlock, Lock

\* A lock that need not wait leaves one holder.
LEMMA ExclusiveLock ==
  ASSUME Exclusive, NEW p \in Processes, NEW row \in LockRows, Lock(p, row), Free(p, row),
         p \in Removers => row[1] # "comment"
  PROVE  Exclusive'
<1>1. \A q \in Processes \ {p} : row \in Held(q) => row[1] = "user" /\ p \in Writers /\ q \in Writers
  BY DEF Free, Holders, Shared, Held
<1>2. Held(p)' = Held(p) \cup {row} /\ \A q \in Processes \ {p} : Held(q)' = Held(q)
  BY HeldFacts
<1>3. QED
  BY <1>1, <1>2 DEF Exclusive

\* A step of one process keeps the locks of the others in order.
LEMMA LocksFrame ==
  ASSUME LocksFit, NEW p \in Processes,
         \A q \in Processes \ {p} : pc'[q] = pc[q] /\ call'[q] = call[q] /\ todo'[q] = todo[q],
         \/ locks' = locks
         \/ Unlock(p)
         \/ \E row \in LockRows : /\ Lock(p, row) /\ Free(p, row)
                                  /\ p \in Removers => row[1] # "comment",
         Held(p)' # {} => Open(p)',
         p \in Writers => WriterLocks(p)', p \in Removers => RemoverLocks(p)'
  PROVE  LocksFit'
<1>1. \A q \in Processes \ {p} : Held(q)' = Held(q)
  BY HeldFacts
<1>2. Exclusive'
  <2>1. CASE locks' = locks
    BY <2>1, HeldFacts DEF LocksFit, Exclusive
  <2>2. CASE Unlock(p)
    BY <1>1, <2>2, HeldFacts DEF LocksFit, Exclusive
  <2>3. QED
    BY <2>1, <2>2, ExclusiveLock DEF LocksFit
<1>3. \A q \in Processes : (Held(q) # {} => Open(q))'
  BY <1>1 DEF LocksFit, Open
<1>4. \A r \in Writers : WriterLocks(r)'
  BY <1>1 DEF LocksFit, WriterLocks, Processes
<1>5. \A d \in Removers : RemoverLocks(d)'
  BY <1>1 DEF LocksFit, RemoverLocks, Processes
<1>6. QED
  BY <1>2, <1>3, <1>4, <1>5 DEF LocksFit

LEMMA WriterLocksStep ==
  ASSUME TypeOK, CallsFit, LocksFit, NEW r \in Writers, Receive(r) \/ WriterStep(r)
  PROVE  LocksFit'
<1> r \in Processes /\ r \notin Removers /\ WriterCall(r) /\ WriterLocks(r)
    /\ (Held(r) # {} => Open(r))
  BY CommentAssumption DEF Processes, CallsFit, LocksFit
<1> DEFINE c == call[r].comment
<1>1. CASE Receive(r)
  <2>1. Held(r) = {} /\ locks' = locks /\ pc'[r] \notin {"wipe", "cascade", "mentions", "commit"}
    BY <1>1 DEF Receive, Open, goto, TypeOK
  <2>2. Held(r)' = {}
    BY <2>1, HeldFacts
  <2>3. WriterLocks(r)'
    BY <2>1, <2>2 DEF WriterLocks
  <2>4. QED
    BY <1>1, <2>1, <2>2, <2>3, LocksFrame DEF Receive, goto, TypeOK
<1>2. CASE FindTicket(r) \/ FindAuthor(r) \/ FindComment(r) \/ Resolve(r)
  <2>1. Held(r) = {} /\ locks' = locks /\ pc'[r] \notin {"wipe", "cascade", "mentions", "commit"}
    BY <1>2 DEF FindTicket, FindAuthor, FindComment, Resolve, Open, goto, TypeOK
  <2>2. Held(r)' = {}
    BY <2>1, HeldFacts
  <2>3. WriterLocks(r)'
    BY <2>1, <2>2 DEF WriterLocks
  <2>4. QED
    BY <1>2, <2>1, <2>2, <2>3, LocksFrame
    DEF FindTicket, FindAuthor, FindComment, Resolve, goto, TypeOK
<1>3. ASSUME Rollback(r, "400"), call' = call
      PROVE  LocksFit'
  <2>1. Held(r)' = {} /\ pc' = [pc EXCEPT ![r] = "400"] /\ todo' = [todo EXCEPT ![r] = {}]
    BY <1>3, HeldFacts DEF Rollback, goto
  <2>2. WriterLocks(r)'
    BY <2>1 DEF WriterLocks, TypeOK
  <2>3. QED
    BY <1>3, <2>1, <2>2, LocksFrame DEF Rollback, TypeOK
<1>4. CASE InsertComment(r)
  <2> DEFINE row == UserRow(call[r].author)
  <2>1. CASE Lock(r, row) /\ goto(r, "mentions")
             /\ todo' = [todo EXCEPT ![r] = {UserRow(u) : u \in ids[r]}]
    <3>1. row \in LockRows /\ row[1] = "user" /\ call[r].op = "post"
      BY <1>4, CallShapes, RowFacts DEF InsertComment, WriterCall
    <3>2. Held(r) = {} /\ Held(r)' = {row}
      BY <1>4, <2>1, <3>1, HeldFacts DEF InsertComment, Open
    <3>3. WriterLocks(r)'
      BY <1>4, <2>1, <3>1, <3>2 DEF InsertComment, WriterLocks, goto, TypeOK
    <3>4. Open(r)'
      BY <2>1 DEF Open, goto, TypeOK
    <3>5. QED
      BY <1>4, <2>1, <3>1, <3>3, <3>4, LocksFrame DEF InsertComment, goto, TypeOK
  <2>2. QED
    BY <1>3, <1>4, <2>1 DEF InsertComment
<1>5. ASSUME c \in Ids, Free(r, CommentRow(c)), Lock(r, CommentRow(c)), call' = call,
             NEW w \in {"wipe", "cascade"}, goto(r, w), Held(r) = {},
             todo' = [todo EXCEPT ![r] = {MentionRow(c, u) : u \in MentionsOf(c)}]
      PROVE  LocksFit'
  <2>1. Held(r)' = {CommentRow(c)} /\ CommentRow(c) \in LockRows
    BY <1>5, HeldFacts, RowFacts
  <2>2. WriterLocks(r)'
    <3>1. /\ pc'[r] \notin {"mentions", "commit"} /\ call'[r].comment = c
          /\ todo'[r] = {MentionRow(c, u) : u \in MentionsOf(c)}
      BY <1>5 DEF goto, TypeOK
    <3>2. todo'[r] \subseteq {MentionRow(c, u) : u \in Users}
      BY <3>1, RowFacts DEF MentionsOf
    <3>3. \A row \in Held(r)' : row[1] # "mention"
      BY <1>5, <2>1, RowFacts
    <3>4. QED
      BY <2>1, <3>1, <3>2, <3>3 DEF WriterLocks
  <2>3. Open(r)'
    BY <1>5 DEF Open, goto, TypeOK
  <2>4. QED
    BY <1>5, <2>1, <2>2, <2>3, LocksFrame DEF goto, TypeOK
<1>6. ASSUME locks' = locks, Held(r) = {}, call' = call, UNCHANGED todo,
             NEW w \in {"200", "409"}, goto(r, w)
      PROVE  LocksFit'
  <2>1. Held(r)' = {}
    BY <1>6, HeldFacts
  <2>2. WriterLocks(r)'
    BY <1>6, <2>1 DEF WriterLocks, goto, TypeOK
  <2>3. QED
    BY <1>6, <2>1, <2>2, LocksFrame DEF goto, TypeOK
<1>7. CASE UpdateComment(r)
  <2>1. c \in Ids /\ Held(r) = {}
    BY <1>7, CallShapes DEF UpdateComment, WriterCall, Open
  <2>2. QED
    BY <1>5, <1>6, <1>7, <2>1 DEF UpdateComment
<1>8. CASE DeleteComment(r)
  <2>1. c \in Ids /\ Held(r) = {}
    BY <1>8, CallShapes DEF DeleteComment, WriterCall, Open
  <2>2. QED
    BY <1>5, <1>6, <1>8, <2>1 DEF DeleteComment
<1>9. CASE InsertMentions(r) \/ LogChange(r)
  <2>1. Held(r)' = Held(r) /\ Open(r)'
    BY <1>9, HeldFacts DEF InsertMentions, LogChange, Open, goto, TypeOK
  <2>2. WriterLocks(r)'
    BY <1>9, <2>1 DEF InsertMentions, LogChange, WriterLocks, goto, TypeOK
  <2>3. QED
    BY <1>9, <2>1, <2>2, LocksFrame DEF InsertMentions, LogChange, goto, TypeOK
<1>10. CASE CheckUser(r)
  <2>1. PICK u \in Users : /\ UserRow(u) \in todo[r] /\ Free(r, UserRow(u))
                           /\ \/ /\ Lock(r, UserRow(u))
                                 /\ todo' = [todo EXCEPT ![r] = todo[r] \ {UserRow(u)}]
                                 /\ UNCHANGED pc
                              \/ Rollback(r, "400")
    BY <1>10 DEF CheckUser
  <2>2. CASE Lock(r, UserRow(u)) /\ todo' = [todo EXCEPT ![r] = todo[r] \ {UserRow(u)}]
             /\ UNCHANGED pc
    <3>1. UserRow(u) \in LockRows /\ UserRow(u)[1] = "user" /\ Open(r)'
      BY <1>10, <2>2, RowFacts DEF CheckUser, Open
    <3>2. Held(r)' = Held(r) \cup {UserRow(u)}
      BY <2>2, <3>1, HeldFacts
    <3>3. WriterLocks(r)'
      BY <1>10, <2>2, <3>1, <3>2 DEF CheckUser, WriterLocks, TypeOK
    <3>4. QED
      BY <1>10, <2>1, <2>2, <3>1, <3>3, LocksFrame DEF CheckUser, TypeOK
  <2>3. QED
    BY <1>3, <1>10, <2>1, <2>2 DEF CheckUser
<1>11. CASE Commit(r) \/ CommentGone(r)
  <2>1. Unlock(r) /\ call' = call /\ UNCHANGED todo
        /\ \E w \in {"200", "500"} : goto(r, w)
    BY <1>11 DEF Commit, CommentGone
  <2>2. Held(r)' = {}
    BY <2>1, HeldFacts
  <2>3. WriterLocks(r)'
    BY <2>1, <2>2 DEF WriterLocks, goto, TypeOK
  <2>4. QED
    BY <2>1, <2>2, <2>3, LocksFrame DEF goto, TypeOK
<1>12. QED
  BY <1>1, <1>2, <1>4, <1>7, <1>8, <1>9, <1>10, <1>11 DEF WriterStep

LEMMA RemoverLocksStep ==
  ASSUME TypeOK, CallsFit, LocksFit, NEW d \in Removers, ReceiveRemove(d) \/ RemoverStep(d)
  PROVE  LocksFit'
<1> d \in Processes /\ d \notin Writers /\ RemoverCall(d) /\ RemoverLocks(d)
    /\ (Held(d) # {} => Open(d))
  BY CommentAssumption DEF Processes, CallsFit, LocksFit
<1>1. CASE ReceiveRemove(d) \/ FindUser(d)
  <2>1. Held(d) = {} /\ locks' = locks /\ pc'[d] \notin {"restrict", "cascade"}
    BY <1>1 DEF ReceiveRemove, FindUser, Open, goto, TypeOK
  <2>2. Held(d)' = {}
    BY <2>1, HeldFacts
  <2>3. RemoverLocks(d)'
    BY <2>1, <2>2 DEF RemoverLocks
  <2>4. QED
    BY <1>1, <2>1, <2>2, <2>3, LocksFrame DEF ReceiveRemove, FindUser, goto, TypeOK
<1>2. CASE DeleteUser(d)
  <2> DEFINE row == UserRow(call[d].user)
  <2>1. row \in LockRows /\ row[1] = "user" /\ Held(d) = {}
    BY <1>2, RowFacts DEF DeleteUser, RemoverCall, Open
  <2>2. CASE Lock(d, row) /\ goto(d, "restrict")
    <3>1. Held(d)' = {row} /\ Open(d)'
      BY <2>1, <2>2, HeldFacts DEF Open, goto, TypeOK
    <3>2. RemoverLocks(d)'
      BY <1>2, <2>1, <2>2, <3>1 DEF DeleteUser, RemoverLocks, goto, TypeOK
    <3>3. QED
      BY <1>2, <2>1, <2>2, <3>1, <3>2, LocksFrame DEF DeleteUser, goto, TypeOK
  <2>3. CASE goto(d, "404") /\ UNCHANGED locks
    <3>1. Held(d)' = {}
      BY <2>1, <2>3, HeldFacts
    <3>2. RemoverLocks(d)'
      BY <1>2, <2>3, <3>1 DEF DeleteUser, RemoverLocks, goto, TypeOK
    <3>3. QED
      BY <1>2, <2>3, <3>1, <3>2, LocksFrame DEF DeleteUser, goto, TypeOK
  <2>4. QED
    BY <1>2, <2>2, <2>3 DEF DeleteUser
<1>3. CASE CheckAuthored(d)
  <2>1. CASE Rollback(d, "400")
    <3>1. Held(d)' = {}
      BY <2>1, HeldFacts DEF Rollback
    <3>2. RemoverLocks(d)'
      BY <1>3, <2>1, <3>1 DEF CheckAuthored, Rollback, RemoverLocks, goto, TypeOK
    <3>3. QED
      BY <1>3, <2>1, <3>1, <3>2, LocksFrame DEF CheckAuthored, Rollback, goto, TypeOK
  <2>2. CASE goto(d, "cascade") /\ UNCHANGED locks
    <3>1. Held(d)' = Held(d) /\ Open(d)'
      BY <2>2, HeldFacts DEF Open, goto, TypeOK
    <3>2. RemoverLocks(d)'
      BY <1>3, <2>2, <3>1 DEF CheckAuthored, Rollback, RemoverLocks, goto, TypeOK
    <3>3. QED
      BY <1>3, <2>2, <3>1, <3>2, LocksFrame DEF CheckAuthored, Rollback, goto, TypeOK
  <2>3. QED
    BY <1>3, <2>1, <2>2 DEF CheckAuthored
<1>4. CASE UserGone(d)
  <2>1. Unlock(d) /\ call' = call /\ UNCHANGED todo /\ goto(d, "200")
    BY <1>4 DEF UserGone
  <2>2. Held(d)' = {}
    BY <2>1, HeldFacts
  <2>3. RemoverLocks(d)'
    BY <2>1, <2>2 DEF RemoverLocks, goto, TypeOK
  <2>4. QED
    BY <2>1, <2>2, <2>3, LocksFrame DEF goto, TypeOK
<1>5. QED
  BY <1>1, <1>2, <1>3, <1>4 DEF RemoverStep

LEMMA LocksStep ==
  ASSUME TypeOK, CallsFit, LocksFit, [Next]_vars
  PROVE  LocksFit'
<1>1. CASE UNCHANGED vars
  <2>1. \A q \in Processes : Held(q)' = Held(q)
    BY <1>1, HeldFacts DEF vars
  <2>2. QED
    BY <1>1, <2>1
    DEF vars, LocksFit, Exclusive, Open, WriterLocks, RemoverLocks, Processes
<1>2. ASSUME NEW p \in Processes, TakeRow(p)
      PROVE  LocksFit'
  <2>1. PICK row \in todo[p] : /\ Free(p, row) /\ Lock(p, row)
                               /\ todo' = [todo EXCEPT ![p] = todo[p] \ {row}]
    BY <1>2 DEF TakeRow
  <2>2. row \in LockRows /\ Open(p)'
    BY <1>2, <2>1 DEF TakeRow, Open, TypeOK
  <2>3. Held(p)' = Held(p) \cup {row}
    BY <2>1, <2>2, HeldFacts
  <2>4. p \in Writers => WriterLocks(p)'
    <3> SUFFICES ASSUME p \in Writers PROVE WriterLocks(p)'
      OBVIOUS
    <3>1. WriterLocks(p)
      BY DEF LocksFit
    <3>2. row \in {MentionRow(call[p].comment, u) : u \in Users}
      BY <1>2, <2>1, <3>1 DEF TakeRow, WriterLocks
    <3>3. QED
      BY <1>2, <2>1, <2>3, <3>1, <3>2 DEF TakeRow, WriterLocks, TypeOK
  <2>5. p \in Removers => RemoverLocks(p)' /\ row[1] # "comment"
    <3> SUFFICES ASSUME p \in Removers PROVE RemoverLocks(p)' /\ row[1] # "comment"
      OBVIOUS
    <3>1. RemoverLocks(p) /\ RemoverCall(p) /\ pc[p] = "cascade"
      BY <1>2 DEF LocksFit, CallsFit, RemoverCall, RemoverPCs, TakeRow
    <3>2. \E c \in Ids : row = MentionRow(c, call[p].user)
      BY <2>1, <3>1 DEF RemoverLocks
    <3>3. row[1] = "mention"
      BY <3>1, <3>2, RowFacts DEF RemoverCall
    <3>4. QED
      BY <1>2, <2>1, <2>3, <3>1, <3>3 DEF TakeRow, RemoverLocks, TypeOK
  <2>6. QED
    BY <1>2, <2>1, <2>2, <2>4, <2>5, LocksFrame DEF TakeRow, TypeOK
<1>3. ASSUME NEW p \in Processes, Fail(p) \/ BreakDeadlock(p)
      PROVE  LocksFit'
  <2>1. Unlock(p) /\ pc' = [pc EXCEPT ![p] = "500"] /\ todo' = [todo EXCEPT ![p] = {}]
        /\ call' = call
    BY <1>3 DEF Fail, BreakDeadlock, Rollback, goto
  <2>2. Held(p)' = {}
    BY <2>1, HeldFacts
  <2>3. WriterLocks(p)' /\ RemoverLocks(p)'
    BY <2>1, <2>2 DEF WriterLocks, RemoverLocks, TypeOK
  <2>4. QED
    BY <2>1, <2>2, <2>3, LocksFrame DEF TypeOK
<1>4. QED
  BY <1>1, <1>2, <1>3, WriterLocksStep, RemoverLocksStep DEF Next

-----------------------------------------------------------------------------
Done == {"200", "500"}

\* An edit that passed the version check still has its comment at that version; the
\* edits that were saved were sent with versions the comment has left behind.
VersionInv ==
  /\ \A r \in Writers : r \in DOMAIN comments => pc[r] \in Done
  /\ \A r \in Writers :
       pc[r] \in {"wipe", "mentions", "commit"} /\ call[r].op = "edit" =>
         /\ call[r].comment \in DOMAIN comments
         /\ comments[call[r].comment].version = token[r]
  /\ \A e \in log : e.action = "UPDATE" =>
       /\ e.by \in Writers /\ pc[e.by] \in Done
       /\ e.id \in Writers => pc[e.id] \in Done
       /\ e.id \in DOMAIN comments => token[e.by] < comments[e.id].version

\* Steps that leave the comments and the UPDATE entries alone.
LEMMA VersionFrame ==
  ASSUME TypeOK, VersionInv, comments' = comments, NEW p \in Processes, pc[p] \notin Done,
         \A e \in log' : e.action = "UPDATE" => e \in log,
         \A q \in Processes \ {p} : pc'[q] = pc[q] /\ call'[q] = call[q],
         \A r \in Writers \ {p} : token'[r] = token[r],
         p \in Writers /\ pc'[p] \in {"wipe", "mentions", "commit"} /\ call'[p].op = "edit" =>
           /\ call'[p].comment \in DOMAIN comments
           /\ comments[call'[p].comment].version = token'[p]
  PROVE  VersionInv'
<1> USE DEF VersionInv, Processes
<1>1. \A r \in Writers : (r \in DOMAIN comments => pc[r] \in Done)'
  OBVIOUS
<1>2. \A r \in Writers :
        (pc[r] \in {"wipe", "mentions", "commit"} /\ call[r].op = "edit" =>
           /\ call[r].comment \in DOMAIN comments
           /\ comments[call[r].comment].version = token[r])'
  OBVIOUS
<1>3. \A e \in log' : e.action = "UPDATE" =>
        /\ e.by \in Writers /\ pc'[e.by] \in Done
        /\ e.id \in Writers => pc'[e.id] \in Done
        /\ e.id \in DOMAIN comments' => token'[e.by] < comments'[e.id].version
  OBVIOUS
<1>4. QED
  BY <1>1, <1>2, <1>3

\* Nobody else holds the row of a comment that a writer holds.
LEMMA OneEditor ==
  ASSUME LocksFit, CallsFit, NEW r \in Writers, NEW q \in Writers,
         call[r].op = "edit", call[q].op \in {"edit", "erase"},
         pc[r] \in {"wipe", "mentions", "commit"}, pc[q] \in {"commit", "cascade"},
         call[r].comment = call[q].comment, call[q].comment \in Ids
  PROVE  r = q
<1>1. CommentRow(call[r].comment) \in Held(r)
  BY DEF LocksFit, WriterLocks
<1>2. CommentRow(call[q].comment) \in Held(q)
  <2>1. pc[q] = "cascade" \/ call[q].op = "edit"
    BY DEF CallsFit, WriterCall
  <2>2. QED
    BY <2>1 DEF LocksFit, WriterLocks
<1>3. CommentRow(call[q].comment)[1] = "comment"
  BY RowFacts
<1>4. QED
  BY <1>1, <1>2, <1>3 DEF LocksFit, Exclusive, Processes

LEMMA VersionCommit ==
  ASSUME TypeOK, CallsFit, LocksFit, VersionInv, NEW r \in Writers, Commit(r)
  PROVE  VersionInv'
<1> DEFINE c == Target(r)
<1>1. /\ pc[r] = "commit" /\ call[r] \in Calls /\ call[r].op \in {"post", "edit"}
      /\ call[r].op = "edit" => call[r].comment \in DOMAIN comments
      /\ call[r].op = "edit" => comments[call[r].comment].version = token[r]
      /\ r \in Processes /\ r \notin InitialIds
  BY CommentAssumption DEF Commit, CallsFit, WriterCall, VersionInv, Processes
<1>2. /\ c \in Ids
      /\ call[r].op = "post" => c = r
      /\ call[r].op = "edit" => /\ c = call[r].comment
                                /\ Written(r).version = token[r] + 1
  BY <1>1, WrittenFacts
<1>3. /\ DOMAIN comments' = DOMAIN comments \cup {c}
      /\ comments'[c] = Written(r)
      /\ \A x \in DOMAIN comments \ {c} : comments'[x] = comments[x]
  BY DEF Commit, Apply
<1>4. /\ pc'[r] \in Done /\ call' = call /\ token' = token
      /\ \A q \in Writers \ {r} : pc'[q] = pc[q]
  BY DEF Commit, Done, goto, TypeOK, Processes
<1>5. token[r] \in Nat /\ r \notin DOMAIN comments
  BY <1>1 DEF VersionInv, TypeOK, Done
<1>6. ASSUME NEW q \in Writers, q \in DOMAIN comments'
      PROVE  pc'[q] \in Done
  <2>1. CASE q \in DOMAIN comments
    <3>1. pc[q] \in Done
      BY <2>1 DEF VersionInv
    <3>2. QED
      BY <1>4, <3>1
  <2>2. CASE q = c
    <3>1. CASE call[r].op = "post"
      BY <1>2, <1>4, <2>2, <3>1
    <3>2. CASE call[r].op = "edit"
      BY <1>1, <1>2, <2>1, <2>2, <3>2
    <3>3. QED
      BY <1>1, <3>1, <3>2
  <2>3. QED
    BY <1>3, <1>6, <2>1, <2>2
<1>7. ASSUME NEW q \in Writers, pc'[q] \in {"wipe", "mentions", "commit"}, call[q].op = "edit"
      PROVE  /\ call[q].comment \in DOMAIN comments'
             /\ comments'[call[q].comment].version = token[q]
  <2>1. q # r /\ pc[q] = pc'[q]
    BY <1>4, <1>7 DEF Done
  <2>2. /\ call[q].comment \in DOMAIN comments
        /\ comments[call[q].comment].version = token[q]
    BY <1>7, <2>1 DEF VersionInv
  <2>3. call[q].comment # c
    <3>1. CASE call[r].op = "post"
      BY <1>2, <1>5, <2>2, <3>1
    <3>2. CASE call[r].op = "edit"
      <4>1. pc[q] \in {"wipe", "mentions", "commit"} /\ call[r].comment \in Ids
        BY <1>2, <1>7, <2>1, <3>2
      <4>2. call[q].comment = call[r].comment => q = r
        BY <1>1, <1>7, <3>2, <4>1, OneEditor
      <4>3. QED
        BY <1>2, <2>1, <3>2, <4>2
    <3>3. QED
      BY <1>1, <3>1, <3>2
  <2>4. QED
    BY <1>3, <2>2, <2>3
<1>8. ASSUME NEW e \in log', e.action = "UPDATE"
      PROVE  /\ e.by \in Writers /\ pc'[e.by] \in Done
             /\ e.id \in Writers => pc'[e.id] \in Done
             /\ e.id \in DOMAIN comments' => token[e.by] < comments'[e.id].version
  <2>1. CASE e \in log
    <3>1. /\ e.by \in Writers /\ pc[e.by] \in Done /\ token[e.by] \in Nat
          /\ e.id \in Writers => pc[e.id] \in Done
          /\ e.id \in DOMAIN comments => token[e.by] < comments[e.id].version
      BY <1>8, <2>1 DEF VersionInv, TypeOK
    <3>2. e.by # r /\ e.id # r
      BY <1>1, <3>1 DEF Done
    <3>3. e.id = c => token[e.by] < comments'[c].version
      <4> SUFFICES ASSUME e.id = c PROVE token[e.by] < comments'[c].version
        OBVIOUS
      <4>1. call[r].op = "edit"
        BY <1>1, <1>2, <3>2
      <4>2. comments[e.id].version = token[r] /\ e.id \in DOMAIN comments
        BY <1>1, <1>2, <4>1
      <4>3. token[e.by] < token[r] /\ comments'[c].version = token[r] + 1
        BY <1>2, <1>3, <3>1, <4>1, <4>2
      <4>4. QED
        BY <1>5, <3>1, <4>3
    <3>4. QED
      BY <1>3, <1>4, <3>1, <3>2, <3>3
  <2>2. CASE e \notin log
    <3>1. e.id = c /\ e.by = r /\ call[r].op = "edit"
      BY <1>1, <1>8, <2>2 DEF Commit, Apply, Entry
    <3>2. token[r] < comments'[c].version
      BY <1>2, <1>3, <1>5, <3>1
    <3>3. c \in Writers => pc'[c] \in Done
      BY <1>1, <1>2, <1>3, <1>6, <3>1
    <3>4. QED
      BY <1>4, <3>1, <3>2, <3>3
  <2>3. QED
    BY <2>1, <2>2
<1>9. QED
  BY <1>4, <1>6, <1>7, <1>8 DEF VersionInv

LEMMA VersionGone ==
  ASSUME TypeOK, CallsFit, LocksFit, VersionInv, NEW r \in Writers, CommentGone(r)
  PROVE  VersionInv'
<1> DEFINE c == call[r].comment
<1>1. /\ pc[r] = "cascade" /\ call[r].op = "erase" /\ c \in Ids /\ r \in Processes
  BY CallShapes DEF CommentGone, CallsFit, WriterCall, Processes
<1>2. /\ DOMAIN comments' = DOMAIN comments \ {c}
      /\ \A x \in DOMAIN comments' : comments'[x] = comments[x]
  BY DEF CommentGone, Restrict
<1>3. /\ pc'[r] = "200" /\ call' = call /\ token' = token
      /\ \A q \in Processes \ {r} : pc'[q] = pc[q]
      /\ \A e \in log' : e.action = "UPDATE" => e \in log
  BY DEF CommentGone, LogOrLose, Entry, goto, TypeOK, Processes
<1>4. ASSUME NEW q \in Writers, q \in DOMAIN comments'
      PROVE  pc'[q] \in Done
  BY <1>2, <1>3, <1>4 DEF VersionInv, Processes, Done
<1>5. ASSUME NEW q \in Writers, pc'[q] \in {"wipe", "mentions", "commit"}, call[q].op = "edit"
      PROVE  /\ call[q].comment \in DOMAIN comments'
             /\ comments'[call[q].comment].version = token[q]
  <2>1. q # r /\ pc[q] = pc'[q]
    BY <1>3, <1>5 DEF Processes
  <2>2. /\ call[q].comment \in DOMAIN comments
        /\ comments[call[q].comment].version = token[q]
    BY <1>5, <2>1 DEF VersionInv
  <2>3. call[q].comment # c
    BY <1>1, <1>5, <2>1, OneEditor
  <2>4. QED
    BY <1>2, <2>2, <2>3
<1>6. ASSUME NEW e \in log', e.action = "UPDATE"
      PROVE  /\ e.by \in Writers /\ pc'[e.by] \in Done
             /\ e.id \in Writers => pc'[e.id] \in Done
             /\ e.id \in DOMAIN comments' => token[e.by] < comments'[e.id].version
  <2>1. /\ e.by \in Writers /\ pc[e.by] \in Done
        /\ e.id \in Writers => pc[e.id] \in Done
        /\ e.id \in DOMAIN comments => token[e.by] < comments[e.id].version
    BY <1>3, <1>6 DEF VersionInv
  <2>2. QED
    BY <1>2, <1>3, <2>1 DEF Processes, Done
<1>7. QED
  BY <1>3, <1>4, <1>5, <1>6 DEF VersionInv

LEMMA VersionStep ==
  ASSUME TypeOK, CallsFit, LocksFit, VersionInv, [Next]_vars
  PROVE  VersionInv'
<1>1. CASE UNCHANGED vars
  BY <1>1 DEF vars, VersionInv
<1>2. ASSUME NEW r \in Writers, Receive(r) \/ WriterStep(r)
      PROVE  VersionInv'
  <2> r \in Processes /\ WriterCall(r)
    BY DEF Processes, CallsFit
  <2>1. CASE Receive(r)
    BY <2>1, VersionFrame DEF Receive, goto, dbVars, TypeOK, Done
  <2>2. CASE FindTicket(r) \/ FindAuthor(r) \/ FindComment(r) \/ Resolve(r)
    BY <2>2, VersionFrame
    DEF FindTicket, FindAuthor, FindComment, Resolve, goto, dbVars, TypeOK, Done
  <2>3. CASE InsertComment(r)
    BY <2>3, VersionFrame DEF InsertComment, WriterCall, Rollback, goto, dbVars, TypeOK, Done
  <2>4. CASE UpdateComment(r)
    BY <2>4, VersionFrame DEF UpdateComment, goto, dbVars, TypeOK, Done
  <2>5. CASE InsertMentions(r) \/ CheckUser(r) \/ LogChange(r)
    <3>1. /\ comments' = comments /\ log' = log /\ call' = call /\ token' = token
          /\ pc[r] \in {"wipe", "mentions"}
      BY <2>5 DEF InsertMentions, CheckUser, LogChange, dbVars
    <3>2. \A q \in Processes \ {r} : pc'[q] = pc[q]
      BY <2>5 DEF InsertMentions, CheckUser, LogChange, Rollback, goto, TypeOK
    <3>3. call[r].op = "edit" => /\ call[r].comment \in DOMAIN comments
                                 /\ comments[call[r].comment].version = token[r]
      BY <3>1 DEF VersionInv
    <3>4. QED
      BY <3>1, <3>2, <3>3, VersionFrame DEF Done
  <2>6. CASE Commit(r)
    BY <2>6, VersionCommit
  <2>7. CASE DeleteComment(r)
    BY <2>7, VersionFrame
    DEF DeleteComment, LogOrLose, Entry, goto, TypeOK, Done
  <2>8. CASE CommentGone(r)
    BY <2>8, VersionGone
  <2>9. QED
    BY <1>2, <2>1, <2>2, <2>3, <2>4, <2>5, <2>6, <2>7, <2>8 DEF WriterStep
<1>3. ASSUME NEW d \in Removers, ReceiveRemove(d) \/ RemoverStep(d)
      PROVE  VersionInv'
  <2> d \in Processes /\ d \notin Writers
    BY CommentAssumption DEF Processes
  <2>1. /\ comments' = comments /\ token' = token /\ pc[d] \notin Done
        /\ \A q \in Processes \ {d} : pc'[q] = pc[q] /\ call'[q] = call[q]
    BY <1>3
    DEF ReceiveRemove, RemoverStep, FindUser, DeleteUser, CheckAuthored, UserGone, Rollback,
        goto, dbVars, TypeOK, Done
  <2>2. \A e \in log' : e.action = "UPDATE" => e \in log
    BY <1>3
    DEF ReceiveRemove, RemoverStep, FindUser, DeleteUser, CheckAuthored, UserGone,
        LogOrLose, Entry, dbVars
  <2>3. QED
    BY <2>1, <2>2, VersionFrame
<1>4. ASSUME NEW p \in Processes, TakeRow(p) \/ Fail(p) \/ BreakDeadlock(p)
      PROVE  VersionInv'
  <2>1. CASE TakeRow(p)
    BY <2>1 DEF TakeRow, dbVars, VersionInv
  <2>2. CASE Fail(p) \/ BreakDeadlock(p)
    BY <2>2, VersionFrame
    DEF Fail, BreakDeadlock, Open, Rollback, goto, dbVars, TypeOK, Done
  <2>3. QED
    BY <1>4, <2>1, <2>2
<1>5. QED
  BY <1>1, <1>2, <1>3, <1>4 DEF Next

-----------------------------------------------------------------------------
\* The users that r resolved are those its content names, but for users deleted since.
Resolved(r) ==
  pc[r] \in {"insert", "update", "wipe", "mentions", "commit"} =>
    ids[r] \subseteq call[r].names /\ call[r].names \cap users \subseteq ids[r]

\* Once its foreign key is checked, a mentioned user stays.
Secured(r) ==
  pc[r] \in {"mentions", "commit"} =>
    \A u \in ids[r] : UserRow(u) \in todo[r] \/ (u \in users /\ UserRow(u) \in Held(r))

MatchInv ==
  /\ MentionsMatchContent
  /\ \A r \in Writers : Resolved(r) /\ Secured(r)

\* Steps that leave the tables alone.
LEMMA MatchFrame ==
  ASSUME MatchInv, comments' = comments, mentions' = mentions, users' = users,
         NEW p \in Processes,
         locks' = locks \/ Unlock(p) \/ \E row \in LockRows : Lock(p, row),
         \A q \in Processes \ {p} : pc'[q] = pc[q] /\ call'[q] = call[q] /\ todo'[q] = todo[q],
         \A r \in Writers \ {p} : ids'[r] = ids[r],
         p \in Writers => Resolved(p)' /\ Secured(p)'
  PROVE  MatchInv'
<1>1. \A q \in Processes \ {p} : Held(q) \subseteq Held(q)'
  BY HeldFacts
<1>2. \A r \in Writers : Resolved(r)' /\ Secured(r)'
  BY <1>1 DEF MatchInv, Resolved, Secured, Processes
<1>3. QED
  BY <1>2 DEF MatchInv, MentionsMatchContent

\* What is committed names users that are there and shared.
LEMMA MatchCommit ==
  ASSUME TypeOK, CallsFit, LocksFit, VersionInv, MatchInv, NEW r \in Writers, Commit(r)
  PROVE  MatchInv'
<1> DEFINE c == Target(r)
<1>1. /\ pc[r] = "commit" /\ call[r] \in Calls /\ call[r].op \in {"post", "edit"}
      /\ call[r].op = "edit" => call[r].comment \in DOMAIN comments
      /\ todo[r] = {} /\ r \in Processes
  BY DEF Commit, CallsFit, WriterCall, VersionInv, LocksFit, WriterLocks, Processes
<1>2. c \in Ids /\ Written(r).names = call[r].names
  BY <1>1, WrittenFacts
<1>3. ids[r] = call[r].names \cap users
  BY <1>1 DEF MatchInv, Resolved, Secured
<1>4. /\ DOMAIN comments' = DOMAIN comments \cup {c}
      /\ comments'[c] = Written(r)
      /\ \A x \in DOMAIN comments \ {c} : comments'[x] = comments[x]
      /\ mentions' = {m \in mentions : m[1] # c} \cup ({c} \X ids[r])
      /\ users' = users
  BY DEF Commit, Apply
<1>5. MentionsMatchContent'
  <2>1. mentions = {m \in (DOMAIN comments) \X users : m[2] \in comments[m[1]].names}
    BY DEF MatchInv, MentionsMatchContent
  <2>2. \A x, u : <<x, u>> \in mentions' <=>
                    /\ x \in DOMAIN comments' /\ u \in users'
                    /\ u \in comments'[x].names
    BY <1>2, <1>3, <1>4, <2>1
  <2>3. \A m \in mentions' : m = <<m[1], m[2]>>
    BY <1>4, <2>1
  <2>4. QED
    BY <2>2, <2>3 DEF MentionsMatchContent
<1>6. ASSUME NEW q \in Writers
      PROVE  Resolved(q)' /\ Secured(q)'
  <2>1. CASE q = r
    BY <2>1 DEF Commit, goto, Resolved, Secured, TypeOK, Processes
  <2>2. CASE q # r
    <3>1. Held(q) \subseteq Held(q)'
      BY <1>1, <2>2, HeldFacts DEF Commit, Processes
    <3>2. pc'[q] = pc[q] /\ UNCHANGED <<call, ids, todo, users>>
      BY <2>2 DEF Commit, goto, Apply, TypeOK, Processes
    <3>3. Resolved(q) /\ Secured(q)
      BY DEF MatchInv
    <3>4. QED
      BY <3>1, <3>2, <3>3 DEF Resolved, Secured
  <2>3. QED
    BY <2>1, <2>2
<1>7. QED
  BY <1>5, <1>6 DEF MatchInv

LEMMA MatchGone ==
  ASSUME TypeOK, CallsFit, LocksFit, MatchInv, NEW r \in Writers, CommentGone(r)
  PROVE  MatchInv'
<1> DEFINE c == call[r].comment
<1>1. /\ DOMAIN comments' = DOMAIN comments \ {c}
      /\ \A x \in DOMAIN comments' : comments'[x] = comments[x]
      /\ mentions' = {m \in mentions : m[1] # c} /\ users' = users
  BY DEF CommentGone, Restrict
<1>2. MentionsMatchContent'
  BY <1>1 DEF MatchInv, MentionsMatchContent
<1>3. ASSUME NEW q \in Writers
      PROVE  Resolved(q)' /\ Secured(q)'
  <2>1. CASE q = r
    BY <2>1 DEF CommentGone, goto, Resolved, Secured, TypeOK, Processes
  <2>2. CASE q # r
    <3>1. Held(q) \subseteq Held(q)'
      BY <2>2, HeldFacts DEF CommentGone, Processes
    <3>2. pc'[q] = pc[q] /\ UNCHANGED <<call, ids, todo, users>>
      BY <2>2 DEF CommentGone, goto, TypeOK, Processes
    <3>3. Resolved(q) /\ Secured(q)
      BY DEF MatchInv
    <3>4. QED
      BY <3>1, <3>2, <3>3 DEF Resolved, Secured
  <2>3. QED
    BY <2>1, <2>2
<1>4. QED
  BY <1>2, <1>3 DEF MatchInv

\* A user who is shared is not deleted.
LEMMA MatchUserGone ==
  ASSUME TypeOK, CallsFit, LocksFit, MatchInv, NEW d \in Removers, UserGone(d)
  PROVE  MatchInv'
<1> DEFINE u == call[d].user
<1>1. /\ d \in Processes /\ d \notin Writers /\ u \in Users /\ UserRow(u) \in Held(d)
      /\ pc[d] = "cascade"
  BY CommentAssumption
  DEF UserGone, CallsFit, RemoverCall, LocksFit, RemoverLocks, Processes
<1>2. /\ comments' = comments /\ users' = users \ {u}
      /\ mentions' = {m \in mentions : m[2] # u}
  BY DEF UserGone
<1>3. MentionsMatchContent'
  BY <1>2 DEF MatchInv, MentionsMatchContent
<1>4. ASSUME NEW q \in Writers
      PROVE  Resolved(q)' /\ Secured(q)'
  <2>1. q \in Processes /\ q # d
    BY <1>1 DEF Processes
  <2>2. Held(q) \subseteq Held(q)'
    BY <1>1, <2>1, HeldFacts DEF UserGone
  <2>3. pc'[q] = pc[q] /\ UNCHANGED <<call, ids, todo>>
    BY <2>1 DEF UserGone, goto, TypeOK
  <2>4. UserRow(u) \notin Held(q)
    BY <1>1, <2>1 DEF LocksFit, Exclusive
  <2>5. Resolved(q) /\ Secured(q)
    BY DEF MatchInv
  <2>6. QED
    BY <1>2, <2>2, <2>3, <2>4, <2>5 DEF Resolved, Secured
<1>5. QED
  BY <1>3, <1>4 DEF MatchInv

LEMMA MatchStep ==
  ASSUME TypeOK, CallsFit, LocksFit, VersionInv, MatchInv, [Next]_vars
  PROVE  MatchInv'
<1>1. CASE UNCHANGED vars
  BY <1>1 DEF vars, MatchInv, MentionsMatchContent, Resolved, Secured, Held
<1>2. ASSUME NEW r \in Writers, Receive(r) \/ WriterStep(r)
      PROVE  MatchInv'
  <2> r \in Processes /\ WriterCall(r) /\ Resolved(r) /\ Secured(r)
    BY DEF Processes, CallsFit, MatchInv
  <2>1. CASE Receive(r) \/ FindTicket(r) \/ FindAuthor(r) \/ FindComment(r)
    <3>1. pc'[r] \notin {"insert", "update", "wipe", "mentions", "commit"}
      BY <2>1 DEF Receive, FindTicket, FindAuthor, FindComment, goto, TypeOK
    <3>2. QED
      BY <2>1, <3>1, MatchFrame
      DEF Receive, FindTicket, FindAuthor, FindComment, goto, dbVars, TypeOK, Resolved, Secured
  <2>2. CASE Resolve(r)
    BY <2>2, MatchFrame DEF Resolve, goto, dbVars, TypeOK, Resolved, Secured
  <2>3. ASSUME Rollback(r, "400"), UNCHANGED <<dbVars, call, ids>>
        PROVE  MatchInv'
    BY <2>3, MatchFrame DEF Rollback, goto, dbVars, TypeOK, Resolved, Secured
  <2>4. CASE InsertComment(r)
    <3>1. UserRow(call[r].author) \in LockRows
      BY <2>4, CallShapes, RowFacts DEF InsertComment, WriterCall
    <3>2. CASE /\ Lock(r, UserRow(call[r].author)) /\ goto(r, "mentions")
               /\ todo' = [todo EXCEPT ![r] = {UserRow(u) : u \in ids[r]}]
      <4>1. Resolved(r)' /\ Secured(r)'
        BY <2>4, <3>2 DEF InsertComment, goto, dbVars, TypeOK, Resolved, Secured
      <4>2. QED
        BY <2>4, <3>1, <3>2, <4>1, MatchFrame DEF InsertComment, goto, dbVars, TypeOK
    <3>3. QED
      BY <2>3, <2>4, <3>2 DEF InsertComment, dbVars
  <2>5. CASE UpdateComment(r)
    <3>1. CommentRow(call[r].comment) \in LockRows
      BY <2>5, CallShapes, RowFacts DEF UpdateComment, WriterCall
    <3>2. Resolved(r)' /\ Secured(r)'
      BY <2>5 DEF UpdateComment, goto, dbVars, TypeOK, Resolved, Secured
    <3>3. QED
      BY <2>5, <3>1, <3>2, MatchFrame DEF UpdateComment, goto, dbVars, TypeOK
  <2>6. CASE InsertMentions(r)
    <3>1. Resolved(r)' /\ Secured(r)'
      BY <2>6 DEF InsertMentions, goto, dbVars, TypeOK, Resolved, Secured
    <3>2. QED
      BY <2>6, <3>1, MatchFrame DEF InsertMentions, goto, dbVars, TypeOK
  <2>7. CASE CheckUser(r)
    <3>1. PICK u \in Users : /\ UserRow(u) \in todo[r]
                             /\ \/ /\ u \in users /\ Lock(r, UserRow(u))
                                   /\ todo' = [todo EXCEPT ![r] = todo[r] \ {UserRow(u)}]
                                   /\ UNCHANGED pc
                                \/ Rollback(r, "400")
      BY <2>7 DEF CheckUser
    <3>2. CASE /\ u \in users /\ Lock(r, UserRow(u)) /\ UNCHANGED pc
               /\ todo' = [todo EXCEPT ![r] = todo[r] \ {UserRow(u)}]
      <4>1. Held(r)' = Held(r) \cup {UserRow(u)} /\ UserRow(u) \in LockRows
        BY <3>2, HeldFacts, RowFacts
      <4>2. Resolved(r)'
        BY <2>7, <3>2 DEF CheckUser, dbVars, Resolved
      <4>3. Secured(r)'
        <5> SUFFICES ASSUME pc[r] \in {"mentions", "commit"}, NEW v \in ids[r]
                     PROVE  UserRow(v) \in todo'[r] \/ (v \in users /\ UserRow(v) \in Held(r)')
          BY <2>7, <3>2 DEF CheckUser, dbVars, Secured
        <5>1. UserRow(v) = UserRow(u) => v = u
          BY RowFacts
        <5>2. QED
          BY <3>2, <4>1, <5>1 DEF Secured, TypeOK
      <4>4. QED
        BY <2>7, <3>2, <4>1, <4>2, <4>3, MatchFrame DEF CheckUser, dbVars, TypeOK
    <3>3. QED
      BY <2>3, <2>7, <3>1, <3>2 DEF CheckUser, dbVars
  <2>8. CASE LogChange(r)
    <3>1. Held(r)' = Held(r)
      BY <2>8, HeldFacts DEF LogChange
    <3>2. Resolved(r)' /\ Secured(r)'
      BY <2>8, <3>1 DEF LogChange, goto, dbVars, TypeOK, Resolved, Secured
    <3>3. QED
      BY <2>8, <3>2, MatchFrame DEF LogChange, goto, dbVars, TypeOK
  <2>9. CASE DeleteComment(r)
    <3>1. CommentRow(call[r].comment) \in LockRows
      BY <2>9, CallShapes, RowFacts DEF DeleteComment, WriterCall
    <3>2. Resolved(r)' /\ Secured(r)'
      BY <2>9 DEF DeleteComment, goto, TypeOK, Resolved, Secured
    <3>3. QED
      BY <2>9, <3>1, <3>2, MatchFrame DEF DeleteComment, goto, TypeOK
  <2>10. QED
    BY <1>2, <2>1, <2>2, <2>4, <2>5, <2>6, <2>7, <2>8, <2>9, MatchCommit, MatchGone
    DEF WriterStep
<1>3. ASSUME NEW d \in Removers, ReceiveRemove(d) \/ RemoverStep(d)
      PROVE  MatchInv'
  <2> d \in Processes /\ d \notin Writers /\ RemoverCall(d)
    BY CommentAssumption DEF Processes, CallsFit
  <2>1. CASE ReceiveRemove(d) \/ FindUser(d) \/ CheckAuthored(d)
    BY <2>1, MatchFrame
    DEF ReceiveRemove, FindUser, CheckAuthored, Rollback, goto, dbVars, TypeOK
  <2>2. CASE DeleteUser(d)
    <3>1. UserRow(call[d].user) \in LockRows
      BY <2>2, RowFacts DEF DeleteUser, RemoverCall
    <3>2. QED
      BY <2>2, <3>1, MatchFrame DEF DeleteUser, goto, dbVars, TypeOK
  <2>3. QED
    BY <1>3, <2>1, <2>2, MatchUserGone DEF RemoverStep
<1>4. ASSUME NEW p \in Processes, TakeRow(p) \/ Fail(p) \/ BreakDeadlock(p)
      PROVE  MatchInv'
  <2>1. CASE TakeRow(p)
    <3>1. PICK row \in LockRows : Lock(p, row)
      BY <2>1 DEF TakeRow, TypeOK
    <3>2. p \in Writers => Resolved(p)' /\ Secured(p)'
      BY <2>1 DEF TakeRow, dbVars, MatchInv, Resolved, Secured
    <3>3. QED
      BY <2>1, <3>1, <3>2, MatchFrame DEF TakeRow, dbVars, TypeOK
  <2>2. CASE Fail(p) \/ BreakDeadlock(p)
    <3>1. Rollback(p, "500") /\ UNCHANGED <<dbVars, call, ids>>
      BY <2>2 DEF Fail, BreakDeadlock
    <3>2. QED
      BY <3>1, MatchFrame DEF Rollback, goto, dbVars, TypeOK, Resolved, Secured
  <2>3. QED
    BY <1>4, <2>1, <2>2
<1>5. QED
  BY <1>1, <1>2, <1>3, <1>4 DEF Next

-----------------------------------------------------------------------------
IInv == TypeOK /\ CallsFit /\ LocksFit /\ VersionInv /\ MatchInv

LEMMA InitInv == Init => IInv
<1> SUFFICES ASSUME Init PROVE IInv
  OBVIOUS
<1> USE DEF Init
<1>1. TypeOK
  BY CommentAssumption DEF TypeOK, Ids, Rows
<1>2. CallsFit
  BY DEF CallsFit, WriterCall, RemoverCall, WriterPCs, RemoverPCs, Processes
<1>3. LocksFit
  BY DEF LocksFit, Exclusive, WriterLocks, RemoverLocks, Held, Processes
<1>4. VersionInv
  BY CommentAssumption DEF VersionInv, Processes
<1>5. MatchInv
  BY CommentAssumption DEF MatchInv, MentionsMatchContent, Resolved, Secured, Processes, Rows
<1>6. QED
  BY <1>1, <1>2, <1>3, <1>4, <1>5 DEF IInv

\* The lock discipline, and what it protects, is kept by every step.
THEOREM Invariance == Spec => []IInv
<1>1. ASSUME IInv, [Next]_vars PROVE IInv'
  <2>1. EditHasComment
    BY <1>1 DEF IInv, VersionInv, EditHasComment
  <2>2. QED
    BY <1>1, <2>1, TypeStep, CallsFitStep, LocksStep, VersionStep, MatchStep DEF IInv
<1>2. QED
  BY <1>1, InitInv, PTL DEF Spec

\* The tables and every request keep their types.
THEOREM CommentTypes == Spec => []TypeOK
<1>1. IInv => TypeOK
  BY DEF IInv
<1>2. QED
  BY <1>1, Invariance, PTL

\* The mention rows of a comment are the users its content names, whatever was edited
\* or deleted while they were resolved (resolveMentions, updateContentAndMentions).
THEOREM MentionsMatch == Spec => []MentionsMatchContent
<1>1. IInv => MentionsMatchContent
  BY DEF IInv, MatchInv
<1>2. QED
  BY <1>1, Invariance, PTL

\* Two edits sent with one version of a comment are never both saved, and whoever is
\* told 500 counts (UPDATE comments ... WHERE id = $2 AND version = $3).
THEOREM OneEdit == Spec => []OneEditPerVersion
<1>1. Init => OneEditPerVersion
  BY DEF Init, OneEditPerVersion
<1>2. ASSUME IInv, OneEditPerVersion, [Next]_vars
      PROVE  OneEditPerVersion'
  <2>1. ASSUME NEW r \in Writers, Commit(r)
        PROVE  OneEditPerVersion'
    <3>1. /\ pc[r] = "commit" /\ token' = token /\ call[r].op \in {"post", "edit"}
          /\ log' = log \cup {Entry(r, IF call[r].op = "post" THEN "CREATE" ELSE "UPDATE",
                                    Target(r))}
      BY <1>2, <2>1 DEF Commit, Apply, IInv, CallsFit, WriterCall
    <3>2. ASSUME NEW f \in log, f.action = "UPDATE", f.id = Target(r), call[r].op = "edit"
          PROVE  token[f.by] # token[r]
      <4>1. /\ Target(r) \in DOMAIN comments
            /\ comments[Target(r)].version = token[r]
        BY <1>2, <3>1, <3>2 DEF IInv, VersionInv, Target
      <4>2. token[f.by] < token[r] /\ f.by \in Writers
        BY <1>2, <3>2, <4>1 DEF IInv, VersionInv
      <4>3. token[r] \in Nat /\ token[f.by] \in Nat
        BY <1>2, <4>2 DEF IInv, TypeOK
      <4>4. QED
        BY <4>2, <4>3
    <3>3. QED
      BY <1>2, <3>1, <3>2 DEF OneEditPerVersion, Entry
  <2>2. ASSUME \A e \in log' : e.action = "UPDATE" => e \in log /\ token'[e.by] = token[e.by]
        PROVE  OneEditPerVersion'
    BY <1>2, <2>2 DEF OneEditPerVersion
  <2>3. ASSUME NEW r \in Writers, Receive(r)
        PROVE  OneEditPerVersion'
    <3>1. \A e \in log : e.action = "UPDATE" => e.by # r /\ e.by \in Writers
      BY <1>2, <2>3 DEF IInv, VersionInv, Done, Receive
    <3>2. log' = log /\ \A q \in Writers \ {r} : token'[q] = token[q]
      BY <1>2, <2>3 DEF Receive, dbVars, IInv, TypeOK
    <3>3. QED
      BY <2>2, <3>1, <3>2
  <2>4. ASSUME NEW r \in Writers, WriterStep(r), ~Commit(r)
        PROVE  OneEditPerVersion'
    BY <2>2, <2>4
    DEF WriterStep, FindTicket, FindAuthor, FindComment, Resolve, InsertComment, UpdateComment,
        InsertMentions, CheckUser, LogChange, DeleteComment, CommentGone, LogOrLose, Entry, dbVars
  <2>5. ASSUME NEW d \in Removers, ReceiveRemove(d) \/ RemoverStep(d)
        PROVE  OneEditPerVersion'
    BY <2>2, <2>5
    DEF ReceiveRemove, RemoverStep, FindUser, DeleteUser, CheckAuthored, UserGone, LogOrLose,
        Entry, dbVars
  <2>6. ASSUME NEW p \in Processes, TakeRow(p) \/ Fail(p) \/ BreakDeadlock(p)
        PROVE  OneEditPerVersion'
    BY <2>2, <2>6 DEF TakeRow, Fail, BreakDeadlock, dbVars
  <2>7. CASE UNCHANGED vars
    BY <2>2, <2>7 DEF vars
  <2>8. QED
    BY <1>2, <2>1, <2>3, <2>4, <2>5, <2>6, <2>7 DEF Next
<1>3. QED
  BY <1>1, <1>2, Invariance, PTL DEF Spec

\* Requests on comments never deadlock among themselves: whoever waits for a mention
\* row holds its comment, and so does whoever is waited for (the order of statements
\* in createWithMentions, updateContentAndMentions and delete).
THEOREM NoDeadlock == Spec => []NoDeadlockAmongWriters
<1>1. ASSUME IInv, NEW group \in SUBSET Writers, Deadlocked(group)
      PROVE  FALSE
  <2>1. PICK p \in group : TRUE
    BY <1>1 DEF Deadlocked
  <2>2. PICK q \in group : WaitsFor(p, q)
    BY <1>1, <2>1 DEF Deadlocked
  <2>3. PICK s \in group : WaitsFor(s, p)
    BY <1>1, <2>1 DEF Deadlocked
  <2>4. PICK row \in Wanted(p) : q \in Holders(p, row)
    BY <2>2 DEF WaitsFor
  <2> p \in Processes /\ q \in Processes /\ p \in Writers /\ q \in Writers
      /\ p \notin Removers /\ WriterCall(p) /\ WriterLocks(p) /\ WriterLocks(q)
    BY <1>1, CommentAssumption DEF Processes, IInv, CallsFit, LocksFit
  <2>5. q # p /\ <<q, row>> \in locks /\ row[1] # "user"
    BY <2>4 DEF Holders, Shared
  <2>6. Open(p)
    <3>1. PICK mine \in Wanted(s) : <<p, mine>> \in locks
      BY <2>3 DEF WaitsFor, Holders
    <3>2. mine \in Held(p)
      BY <1>1, <3>1 DEF Held, IInv, TypeOK
    <3>3. QED
      BY <1>1, <3>2 DEF IInv, LocksFit
  <2>7. pc[p] \in {"wipe", "mentions", "commit", "cascade"} /\ row \in todo[p]
    BY <2>4, <2>6 DEF Open, Wanted, WriterCall, WriterPCs
  <2>8. pc[p] \in {"wipe", "cascade"}
    BY <2>5, <2>7, RowFacts DEF WriterLocks
  <2>9. /\ CommentRow(call[p].comment) \in Held(p) /\ call[p].comment \in Ids
        /\ \E u \in Users : row = MentionRow(call[p].comment, u)
    BY <2>7, <2>8, CallShapes DEF WriterLocks, WriterCall
  <2>10. row \in Held(q) /\ row[1] = "mention"
    BY <1>1, <2>5, <2>9, RowFacts DEF Held, IInv, TypeOK
  <2>11. CommentRow(call[q].comment) \in Held(q) /\ \E u \in Users : row = MentionRow(call[q].comment, u)
    BY <2>10 DEF WriterLocks
  <2>12. call[q].comment = call[p].comment
    <3>1. PICK u \in Users : row = MentionRow(call[p].comment, u)
      BY <2>9
    <3>2. PICK v \in Users : row = MentionRow(call[q].comment, v)
      BY <2>11
    <3>3. QED
      BY <3>1, <3>2 DEF MentionRow
  <2>13. CommentRow(call[p].comment)[1] = "comment"
    BY <2>9, RowFacts
  <2>14. QED
    BY <1>1, <2>5, <2>9, <2>11, <2>12, <2>13 DEF IInv, LocksFit, Exclusive
<1>2. IInv => NoDeadlockAmongWriters
  BY <1>1 DEF NoDeadlockAmongWriters
<1>3. QED
  BY <1>2, Invariance, PTL

-----------------------------------------------------------------------------
\* The audit entries of one kind on a comment.
Trail(c, action) == {e \in log : e.id = c /\ e.action = action}

\* A comment's UPDATE entries are as many as the versions that followed its first, and
\* a posted comment has its one CREATE entry, which its own request wrote.
TrailInv ==
  /\ \A e \in log : e.action = "CREATE" => e.by \in Writers /\ e.id = e.by /\ pc[e.by] \in Done
  /\ \A c \in DOMAIN comments :
       /\ IsFiniteSet(Trail(c, "UPDATE"))
       /\ Cardinality(Trail(c, "UPDATE")) = comments[c].version - 1
       /\ Trail(c, "CREATE") = IF c \in Writers THEN {Entry(c, "CREATE", c)} ELSE {}

\* Steps that write no comment, and at most a DELETE entry.
LEMMA TrailFrame ==
  ASSUME TrailInv, DOMAIN comments' \subseteq DOMAIN comments,
         \A c \in DOMAIN comments' : comments'[c] = comments[c],
         log \subseteq log', \A e \in log' : e \in log \/ e.action = "DELETE",
         \A r \in Writers : pc[r] \in Done => pc'[r] \in Done
  PROVE  TrailInv'
<1>1. \A c : /\ Trail(c, "UPDATE")' = Trail(c, "UPDATE")
             /\ Trail(c, "CREATE")' = Trail(c, "CREATE")
  BY DEF Trail
<1>2. \A e \in log' : e.action = "CREATE" => e.by \in Writers /\ e.id = e.by /\ pc'[e.by] \in Done
  BY DEF TrailInv
<1>3. \A c \in DOMAIN comments' :
        /\ IsFiniteSet(Trail(c, "UPDATE")')
        /\ Cardinality(Trail(c, "UPDATE")') = comments'[c].version - 1
        /\ Trail(c, "CREATE")' = IF c \in Writers THEN {Entry(c, "CREATE", c)} ELSE {}
  BY <1>1 DEF TrailInv
<1>4. QED
  BY <1>2, <1>3 DEF TrailInv, Entry

LEMMA TrailCommit ==
  ASSUME IInv, TrailInv, NEW r \in Writers, Commit(r)
  PROVE  TrailInv'
<1> PICK c : c = Target(r)
  OBVIOUS
<1> DEFINE new == Entry(r, IF call[r].op = "post" THEN "CREATE" ELSE "UPDATE", c)
<1>1. /\ pc[r] = "commit" /\ call[r] \in Calls /\ call[r].op \in {"post", "edit"}
      /\ call[r].op = "edit" => call[r].comment \in DOMAIN comments
      /\ r \notin DOMAIN comments
  BY DEF Commit, IInv, CallsFit, WriterCall, VersionInv, Done
<1>2. /\ call[r].op = "post" => c = r /\ Written(r).version = 1
      /\ call[r].op = "edit" => /\ c = call[r].comment /\ c \in DOMAIN comments
                                /\ Written(r).version = comments[c].version + 1
  BY <1>1, WrittenFacts DEF IInv, Written
<1>3. /\ DOMAIN comments' = DOMAIN comments \cup {c}
      /\ comments'[c] = Written(r)
      /\ \A x \in DOMAIN comments \ {c} : comments'[x] = comments[x]
      /\ log' = log \cup {new}
  BY DEF Commit, Apply
<1>4. pc'[r] \in Done /\ \A q \in Writers \ {r} : pc'[q] = pc[q]
  BY DEF Commit, Done, goto, IInv, TypeOK, Processes
<1>5. /\ new.by = r /\ new.id = c
      /\ call[r].op = "post" => new.action = "CREATE" /\ new = Entry(r, "CREATE", r)
      /\ call[r].op = "edit" => new.action = "UPDATE"
  BY <1>2 DEF Entry
<1> HIDE DEF new
<1>6. \A e \in log : e.action \in {"CREATE", "UPDATE"} =>
        e.by # r /\ (e.id \in Writers => e.id # r)
  BY <1>1 DEF TrailInv, IInv, VersionInv, Done
<1>7. new \notin log
  BY <1>1, <1>5, <1>6
<1>8. \A e \in log' : e.action = "CREATE" => e.by \in Writers /\ e.id = e.by /\ pc'[e.by] \in Done
  <2>1. \A e \in log : e.action = "CREATE" => e.by \in Writers /\ e.id = e.by /\ pc'[e.by] \in Done
    BY <1>4 DEF TrailInv
  <2>2. new.action = "CREATE" => new.by \in Writers /\ new.id = new.by /\ pc'[new.by] \in Done
    BY <1>1, <1>2, <1>4, <1>5
  <2>3. QED
    BY <1>3, <2>1, <2>2
<1>9. ASSUME NEW x \in DOMAIN comments', x # c
      PROVE  /\ IsFiniteSet(Trail(x, "UPDATE")')
             /\ Cardinality(Trail(x, "UPDATE")') = comments'[x].version - 1
             /\ Trail(x, "CREATE")' = IF x \in Writers THEN {Entry(x, "CREATE", x)} ELSE {}
  <2>1. Trail(x, "UPDATE")' = Trail(x, "UPDATE") /\ Trail(x, "CREATE")' = Trail(x, "CREATE")
    BY <1>3, <1>5, <1>9 DEF Trail
  <2>2. x \in DOMAIN comments /\ comments'[x] = comments[x]
    BY <1>3, <1>9
  <2>3. QED
    BY <2>1, <2>2 DEF TrailInv
<1>10. CASE call[r].op = "post"
  <2>1. Trail(c, "UPDATE")' = {} /\ Trail(c, "CREATE")' = {new}
    <3>1. \A e \in log : e.id = c => e.action \notin {"CREATE", "UPDATE"}
      BY <1>2, <1>6, <1>10
    <3>2. QED
      BY <1>3, <1>5, <1>10, <3>1 DEF Trail
  <2>2. comments'[c].version = 1 /\ c \in Writers /\ new = Entry(c, "CREATE", c)
    BY <1>2, <1>3, <1>5, <1>10
  <2>3. /\ IsFiniteSet(Trail(c, "UPDATE")')
        /\ Cardinality(Trail(c, "UPDATE")') = comments'[c].version - 1
    BY <2>1, <2>2, FS_EmptySet
  <2>4. QED
    BY <1>3, <1>8, <1>9, <2>1, <2>2, <2>3 DEF TrailInv, Entry
<1>11. CASE call[r].op = "edit"
  <2>1. Trail(c, "UPDATE")' = Trail(c, "UPDATE") \cup {new} /\ new \notin Trail(c, "UPDATE")
    BY <1>3, <1>5, <1>7, <1>11 DEF Trail
  <2>2. Trail(c, "CREATE")' = Trail(c, "CREATE")
    BY <1>3, <1>5, <1>11 DEF Trail
  <2>3. /\ IsFiniteSet(Trail(c, "UPDATE"))
        /\ Cardinality(Trail(c, "UPDATE")) = comments[c].version - 1
        /\ Trail(c, "CREATE") = IF c \in Writers THEN {Entry(c, "CREATE", c)} ELSE {}
    BY <1>2, <1>11 DEF TrailInv
  <2>4. comments[c].version \in Nat /\ comments'[c].version = comments[c].version + 1
    BY <1>2, <1>3, <1>11 DEF IInv, TypeOK, Rows
  <2>5. /\ IsFiniteSet(Trail(c, "UPDATE") \cup {new})
        /\ Cardinality(Trail(c, "UPDATE") \cup {new}) = Cardinality(Trail(c, "UPDATE")) + 1
    BY <2>1, <2>3, FS_AddElement
  <2>6. /\ IsFiniteSet(Trail(c, "UPDATE")')
        /\ Cardinality(Trail(c, "UPDATE")') = comments'[c].version - 1
    <3>1. /\ IsFiniteSet(Trail(c, "UPDATE")')
          /\ Cardinality(Trail(c, "UPDATE")') = Cardinality(Trail(c, "UPDATE")) + 1
      BY <2>1, <2>5
    <3>2. comments'[c].version - 1 = comments[c].version - 1 + 1
      BY <2>4
    <3>3. QED
      BY <2>3, <3>1, <3>2
  <2>7. QED
    BY <1>3, <1>8, <1>9, <2>2, <2>3, <2>6 DEF TrailInv, Entry
<1>12. QED
  BY <1>1, <1>10, <1>11

LEMMA TrailStep ==
  ASSUME IInv, TrailInv, [Next]_vars
  PROVE  TrailInv'
<1>1. CASE UNCHANGED vars
  BY <1>1, TrailFrame DEF vars
<1>2. ASSUME NEW r \in Writers, Receive(r) \/ WriterStep(r)
      PROVE  TrailInv'
  <2>0. r \in Processes /\ Writers \subseteq Processes
    BY DEF Processes
  <2>1. CASE Commit(r)
    BY <2>1, TrailCommit
  <2>2. CASE CommentGone(r)
    <3>1. /\ DOMAIN comments' \subseteq DOMAIN comments
          /\ \A x \in DOMAIN comments' : comments'[x] = comments[x]
      BY <2>2 DEF CommentGone, Restrict
    <3>2. log \subseteq log' /\ \A e \in log' : e \in log \/ e.action = "DELETE"
      BY <2>2 DEF CommentGone, LogOrLose, Entry
    <3>3. \A q \in Writers : pc[q] \in Done => pc'[q] \in Done
      BY <2>0, <2>2 DEF CommentGone, goto, Done, IInv, TypeOK
    <3>4. QED
      BY <3>1, <3>2, <3>3, TrailFrame
  <2>3. CASE Receive(r) \/ (WriterStep(r) /\ ~Commit(r) /\ ~CommentGone(r))
    <3>1. comments' = comments
      BY <2>3
      DEF Receive, WriterStep, FindTicket, FindAuthor, FindComment, Resolve, InsertComment,
          UpdateComment, InsertMentions, CheckUser, LogChange, DeleteComment, dbVars
    <3>2. log \subseteq log' /\ \A e \in log' : e \in log \/ e.action = "DELETE"
      BY <2>3
      DEF Receive, WriterStep, FindTicket, FindAuthor, FindComment, Resolve, InsertComment,
          UpdateComment, InsertMentions, CheckUser, LogChange, DeleteComment, LogOrLose, Entry, dbVars
    <3>3. pc[r] \notin Done /\ \A q \in Writers \ {r} : pc'[q] = pc[q]
      BY <2>0, <2>3
      DEF Receive, WriterStep, FindTicket, FindAuthor, FindComment, Resolve, InsertComment,
          UpdateComment, InsertMentions, CheckUser, LogChange, DeleteComment, Rollback, goto, Done,
          IInv, TypeOK
    <3>4. QED
      BY <3>1, <3>2, <3>3, TrailFrame
  <2>4. QED
    BY <1>2, <2>1, <2>2, <2>3
<1>3. ASSUME NEW d \in Removers, ReceiveRemove(d) \/ RemoverStep(d)
      PROVE  TrailInv'
  <2>1. comments' = comments
    BY <1>3 DEF ReceiveRemove, RemoverStep, FindUser, DeleteUser, CheckAuthored, UserGone, dbVars
  <2>2. log \subseteq log' /\ \A e \in log' : e \in log \/ e.action = "DELETE"
    BY <1>3
    DEF ReceiveRemove, RemoverStep, FindUser, DeleteUser, CheckAuthored, UserGone, LogOrLose,
        Entry, dbVars
  <2>3. \A q \in Writers : pc'[q] = pc[q]
    BY <1>3, CommentAssumption
    DEF ReceiveRemove, RemoverStep, FindUser, DeleteUser, CheckAuthored, UserGone, Rollback, goto,
        IInv, TypeOK, Processes
  <2>4. QED
    BY <2>1, <2>2, <2>3, TrailFrame
<1>4. ASSUME NEW p \in Processes, TakeRow(p) \/ Fail(p) \/ BreakDeadlock(p)
      PROVE  TrailInv'
  <2>1. comments' = comments /\ log' = log
    BY <1>4 DEF TakeRow, Fail, BreakDeadlock, dbVars
  <2>2. \A q \in Writers : pc[q] \in Done => pc'[q] \in Done
    BY <1>4 DEF TakeRow, Fail, BreakDeadlock, Rollback, goto, Open, Done, IInv, TypeOK, Processes
  <2>3. QED
    BY <2>1, <2>2, TrailFrame
<1>5. QED
  BY <1>1, <1>2, <1>3, <1>4 DEF Next

\* Every version of a comment has its audit entry and no entry is without its version,
\* though statements fail and comments are deleted under others (logWithClient).
THEOREM EntriesFollowVersions == Spec => []EntryPerChange
<1>1. Init => TrailInv
  <2> SUFFICES ASSUME Init PROVE TrailInv
    OBVIOUS
  <2>1. log = {} /\ comments = InitialComments
    BY DEF Init
  <2>2. \A c, action : Trail(c, action) = {}
    BY <2>1 DEF Trail
  <2>3. \A c \in DOMAIN comments : comments[c].version = 1 /\ c \notin Writers
    BY <2>1, CommentAssumption
  <2>4. QED
    BY <2>1, <2>2, <2>3, FS_EmptySet DEF TrailInv
<1>2. IInv /\ TrailInv => EntryPerChange
  <2> SUFFICES ASSUME TrailInv, NEW c \in DOMAIN comments
               PROVE  /\ Cardinality(Trail(c, "UPDATE")) = comments[c].version - 1
                      /\ Cardinality(Trail(c, "CREATE")) = IF c \in Writers THEN 1 ELSE 0
    BY DEF EntryPerChange, Entries, Trail
  <2>1. Cardinality({Entry(c, "CREATE", c)}) = 1 /\ Cardinality({}) = 0
    BY FS_Singleton, FS_EmptySet
  <2>2. QED
    BY <2>1 DEF TrailInv
<1>3. QED
  BY <1>1, <1>2, TrailStep, Invariance, PTL DEF Spec
=============================================================================
