-------------------------- MODULE CommentRefinement --------------------------
(***************************************************************************)
(* Comments implements CommentContract, for any number of comments, users  *)
(* and requests.                                                           *)
(*                                                                         *)
(* What the invariant of CommentProofs does not say yet is about authors:  *)
(* a post shares its author until it commits, and who has passed the check *)
(* of ON DELETE RESTRICT holds the user, so no comment of theirs can come. *)
(***************************************************************************)
EXTENDS CommentProofs

\* A post that is about to commit shares its author, who is there.
AuthorShared(r) ==
  pc[r] \in {"mentions", "commit"} /\ call[r].op = "post" =>
    call[r].author \in users /\ UserRow(call[r].author) \in Held(r)

\* Who passed the check of ON DELETE RESTRICT has no comments.
NothingAuthored(d) == pc[d] = "cascade" => AuthoredBy(call[d].user) = {}

AuthorInv ==
  /\ \A c \in DOMAIN comments : comments[c].author \in users
  /\ \A r \in Writers : AuthorShared(r)
  /\ \A d \in Removers : NothingAuthored(d)

\* Steps that leave the tables alone.
LEMMA AuthorFrame ==
  ASSUME AuthorInv, comments' = comments, users' = users, NEW p \in Processes,
         locks' = locks \/ Unlock(p) \/ \E row \in LockRows : Lock(p, row),
         \A q \in Processes \ {p} : pc'[q] = pc[q] /\ call'[q] = call[q],
         p \in Writers => AuthorShared(p)', p \in Removers => NothingAuthored(p)'
  PROVE  AuthorInv'
<1>1. \A q \in Processes \ {p} : Held(q) \subseteq Held(q)'
  BY HeldFacts
<1>2. \A r \in Writers : AuthorShared(r)'
  BY <1>1 DEF AuthorInv, AuthorShared, Processes
<1>3. \A d \in Removers : NothingAuthored(d)'
  BY DEF AuthorInv, NothingAuthored, AuthoredBy, Processes
<1>4. QED
  BY <1>2, <1>3 DEF AuthorInv

\* An edit keeps the ticket and the author of its comment.
LEMMA WrittenKeeps ==
  ASSUME TypeOK, NEW r \in Writers, call[r] \in Calls, call[r].op \in {"post", "edit"},
         call[r].op = "edit" => call[r].comment \in DOMAIN comments
  PROVE  /\ call[r].op = "post" => Written(r).author = call[r].author /\ Written(r).version = 1
         /\ call[r].op = "edit" => /\ Written(r).author = comments[call[r].comment].author
                                   /\ Written(r).ticket = comments[call[r].comment].ticket
<1>1. CASE call[r].op = "post"
  BY <1>1 DEF Written
<1>2. CASE call[r].op = "edit"
  <2>1. comments[call[r].comment] \in Rows
    BY <1>2 DEF TypeOK
  <2>2. ASSUME NEW row \in Rows, NEW n, NEW v
        PROVE  /\ [row EXCEPT !.names = n, !.version = v].author = row.author
               /\ [row EXCEPT !.names = n, !.version = v].ticket = row.ticket
    BY DEF Rows
  <2>3. QED
    BY <1>2, <2>1, <2>2 DEF Written
<1>3. QED
  BY <1>1, <1>2

\* What a COMMIT finds: of a post that its comment is new, of an edit its comment.
LEMMA CommitFacts ==
  ASSUME IInv, NEW r \in Writers, Commit(r)
  PROVE  /\ call[r] \in Calls /\ call[r].op \in {"post", "edit"} /\ r \in Processes
         /\ pc[r] = "commit" /\ Target(r) \in Ids
         /\ call[r].op = "post" => Target(r) = r /\ r \notin DOMAIN comments
         /\ call[r].op = "edit" => /\ Target(r) = call[r].comment
                                   /\ call[r].comment \in DOMAIN comments
         /\ DOMAIN comments' = DOMAIN comments \cup {Target(r)}
         /\ comments'[Target(r)] = Written(r)
         /\ \A x \in DOMAIN comments \ {Target(r)} : comments'[x] = comments[x]
         /\ mentions' = {m \in mentions : m[1] # Target(r)} \cup ({Target(r)} \X ids[r])
         /\ users' = users /\ call' = call /\ Unlock(r)
         /\ pc'[r] \in {"200", "500"}
         /\ \A q \in Processes \ {r} : pc'[q] = pc[q]
<1>1. /\ pc[r] = "commit" /\ call[r] \in Calls /\ call[r].op \in {"post", "edit"}
      /\ r \in Processes
      /\ r \in DOMAIN comments => pc[r] \in Done
      /\ call[r].op = "edit" => call[r].comment \in DOMAIN comments
  BY DEF Commit, IInv, CallsFit, WriterCall, VersionInv, Processes
<1>2. /\ Target(r) \in Ids /\ r \notin DOMAIN comments
      /\ call[r].op = "post" => Target(r) = r
      /\ call[r].op = "edit" => Target(r) = call[r].comment
  BY <1>1, WrittenFacts DEF IInv, Done
<1>3. /\ DOMAIN comments' = DOMAIN comments \cup {Target(r)}
      /\ comments'[Target(r)] = Written(r)
      /\ \A x \in DOMAIN comments \ {Target(r)} : comments'[x] = comments[x]
  BY DEF Commit, Apply
<1>4. pc'[r] \in {"200", "500"} /\ \A q \in Processes \ {r} : pc'[q] = pc[q]
  BY <1>1 DEF Commit, goto, IInv, TypeOK
<1>5. QED
  BY <1>1, <1>2, <1>3, <1>4 DEF Commit, Apply

LEMMA AuthorCommit ==
  ASSUME IInv, AuthorInv, NEW r \in Writers, Commit(r)
  PROVE  AuthorInv'
<1> DEFINE c == Target(r)
<1>1. r \in Processes /\ r \notin Removers
  BY CommentAssumption DEF Processes
<1> HIDE DEF c
<1>2. /\ DOMAIN comments' = DOMAIN comments \cup {c} /\ comments'[c] = Written(r)
      /\ \A x \in DOMAIN comments \ {c} : comments'[x] = comments[x]
  BY CommitFacts DEF c
<1>3. /\ call[r].op \in {"post", "edit"}
      /\ call[r].op = "edit" => c \in DOMAIN comments /\ c = call[r].comment
  BY CommitFacts DEF c
<1>4. /\ call[r].op = "post" => Written(r).author = call[r].author
      /\ call[r].op = "edit" => Written(r).author = comments[c].author
  <2>1. call[r] \in Calls /\ call[r].op \in {"post", "edit"}
    BY CommitFacts
  <2>2. call[r].op = "edit" => call[r].comment \in DOMAIN comments
    BY <1>3
  <2>3. TypeOK
    BY DEF IInv
  <2>4. QED
    BY <1>3, <2>1, <2>2, <2>3, WrittenKeeps
<1>5. ASSUME NEW x \in DOMAIN comments'
      PROVE  \/ x \in DOMAIN comments /\ comments'[x].author = comments[x].author
             \/ call[r].op = "post" /\ comments'[x].author = call[r].author
  <2>1. CASE x = c
    BY <1>2, <1>3, <1>4, <2>1
  <2>2. CASE x # c
    BY <1>2, <2>2
  <2>3. QED
    BY <2>1, <2>2
<1>6. call[r].op = "post" => call[r].author \in users /\ UserRow(call[r].author) \in Held(r)
  BY CommitFacts DEF AuthorInv, AuthorShared
<1>7. ASSUME NEW q \in Writers
      PROVE  AuthorShared(q)'
  <2>1. CASE q = r
    BY <2>1, CommitFacts DEF AuthorShared
  <2>2. CASE q # r
    <3>1. Held(q) \subseteq Held(q)'
      BY <1>1, <2>2, CommitFacts, HeldFacts DEF Processes
    <3>2. QED
      BY <2>2, <3>1, CommitFacts DEF AuthorInv, AuthorShared, Processes
  <2>3. QED
    BY <2>1, <2>2
<1>8. ASSUME NEW d \in Removers
      PROVE  NothingAuthored(d)'
  <2>1. d \in Processes /\ d # r /\ d \notin Writers
    BY <1>1, CommentAssumption DEF Processes
  <2>2. pc'[d] = pc[d] /\ call' = call
    BY <2>1, CommitFacts
  <2>3. CASE pc[d] = "cascade"
    <3>1. UserRow(call[d].user) \in Held(d) /\ AuthoredBy(call[d].user) = {}
      BY <2>3 DEF IInv, LocksFit, RemoverLocks, AuthorInv, NothingAuthored
    <3>2. call[r].op = "post" => call[r].author # call[d].user
      BY <1>1, <1>6, <2>1, <3>1 DEF IInv, LocksFit, Exclusive
    <3>3. QED
      BY <1>5, <2>2, <3>1, <3>2 DEF NothingAuthored, AuthoredBy
  <2>4. QED
    BY <2>2, <2>3 DEF NothingAuthored
<1>9. \A x \in DOMAIN comments' : comments'[x].author \in users'
  <2>1. users' = users
    BY CommitFacts
  <2>2. QED
    BY <1>5, <1>6, <2>1 DEF AuthorInv
<1>10. QED
  BY <1>7, <1>8, <1>9 DEF AuthorInv

LEMMA AuthorGone ==
  ASSUME IInv, AuthorInv, NEW r \in Writers, CommentGone(r)
  PROVE  AuthorInv'
<1>1. /\ r \in Processes /\ r \notin Removers /\ Unlock(r)
      /\ DOMAIN comments' \subseteq DOMAIN comments
      /\ \A x \in DOMAIN comments' : comments'[x] = comments[x]
      /\ users' = users /\ call' = call /\ pc'[r] = "200"
      /\ \A q \in Processes \ {r} : pc'[q] = pc[q]
  BY CommentAssumption DEF CommentGone, Restrict, goto, Processes, IInv, TypeOK
<1>2. \A q \in Processes \ {r} : Held(q) \subseteq Held(q)'
  BY <1>1, HeldFacts
<1>3. \A q \in Writers : AuthorShared(q)'
  BY <1>1, <1>2 DEF AuthorInv, AuthorShared, Processes
<1>4. \A d \in Removers : NothingAuthored(d)'
  BY <1>1 DEF AuthorInv, NothingAuthored, AuthoredBy, Processes
<1>5. QED
  BY <1>1, <1>3, <1>4 DEF AuthorInv

\* What the end of DELETE FROM users finds and leaves.
LEMMA UserGoneFacts ==
  ASSUME IInv, NEW d \in Removers, UserGone(d)
  PROVE  /\ d \in Processes /\ d \notin Writers /\ call[d].user \in Users
         /\ UserRow(call[d].user) \in Held(d) /\ pc[d] = "cascade"
         /\ comments' = comments /\ users' = users \ {call[d].user}
         /\ mentions' = {m \in mentions : m[2] # call[d].user}
         /\ call' = call /\ pc'[d] = "200" /\ Unlock(d)
         /\ \A q \in Processes \ {d} : pc'[q] = pc[q]
BY CommentAssumption
DEF UserGone, goto, IInv, TypeOK, CallsFit, RemoverCall, LocksFit, RemoverLocks, Processes

LEMMA AuthorUserGone ==
  ASSUME IInv, AuthorInv, NEW d \in Removers, UserGone(d)
  PROVE  AuthorInv'
<1>1. \A x \in DOMAIN comments' : comments'[x].author \in users'
  BY UserGoneFacts DEF AuthorInv, NothingAuthored, AuthoredBy
<1>2. ASSUME NEW q \in Writers
      PROVE  AuthorShared(q)'
  <2>1. q \in Processes /\ q # d
    BY UserGoneFacts DEF Processes
  <2>2. Held(q) \subseteq Held(q)'
    BY <2>1, UserGoneFacts, HeldFacts
  <2>3. UserRow(call[d].user) \notin Held(q)
    BY <2>1, UserGoneFacts DEF IInv, LocksFit, Exclusive
  <2>4. QED
    BY <2>1, <2>2, <2>3, UserGoneFacts DEF AuthorInv, AuthorShared
<1>3. \A e \in Removers : NothingAuthored(e)'
  BY UserGoneFacts DEF AuthorInv, NothingAuthored, AuthoredBy, Processes
<1>4. QED
  BY <1>1, <1>2, <1>3 DEF AuthorInv

LEMMA AuthorStep ==
  ASSUME IInv, AuthorInv, [Next]_vars
  PROVE  AuthorInv'
<1> TypeOK /\ CallsFit /\ LocksFit
  BY DEF IInv
<1>1. CASE UNCHANGED vars
  BY <1>1 DEF vars, AuthorInv, AuthorShared, NothingAuthored, AuthoredBy, Held
<1>2. ASSUME NEW r \in Writers, Receive(r) \/ WriterStep(r)
      PROVE  AuthorInv'
  <2> r \in Processes /\ r \notin Removers /\ WriterCall(r) /\ AuthorShared(r)
    BY CommentAssumption DEF Processes, CallsFit, AuthorInv
  <2>1. CASE Receive(r) \/ FindTicket(r) \/ FindAuthor(r) \/ FindComment(r) \/ Resolve(r)
    <3>1. pc'[r] \notin {"mentions", "commit"} /\ locks' = locks
      BY <2>1
      DEF Receive, FindTicket, FindAuthor, FindComment, Resolve, goto, TypeOK
    <3>2. /\ comments' = comments /\ users' = users
          /\ \A q \in Processes \ {r} : pc'[q] = pc[q] /\ call'[q] = call[q]
      BY <2>1
      DEF Receive, FindTicket, FindAuthor, FindComment, Resolve, goto, dbVars, TypeOK
    <3>3. QED
      BY <3>1, <3>2, AuthorFrame DEF AuthorShared
  <2>2. ASSUME Rollback(r, "400"), UNCHANGED <<dbVars, call>>
        PROVE  AuthorInv'
    BY <2>2, AuthorFrame DEF Rollback, goto, dbVars, TypeOK, AuthorShared
  <2>3. CASE InsertComment(r)
    <3>1. UserRow(call[r].author) \in LockRows
      BY <2>3, CallShapes, RowFacts DEF InsertComment, WriterCall
    <3>2. CASE /\ Lock(r, UserRow(call[r].author)) /\ goto(r, "mentions")
               /\ call[r].author \in users
      <4>1. AuthorShared(r)'
        BY <2>3, <3>1, <3>2, HeldFacts DEF InsertComment, dbVars, AuthorShared
      <4>2. QED
        BY <2>3, <3>1, <3>2, <4>1, AuthorFrame DEF InsertComment, goto, dbVars, TypeOK
    <3>3. QED
      BY <2>2, <2>3, <3>2 DEF InsertComment, dbVars
  <2>4. CASE UpdateComment(r) \/ DeleteComment(r)
    <3>1. CommentRow(call[r].comment) \in LockRows
      BY <2>4, CallShapes, RowFacts DEF UpdateComment, DeleteComment, WriterCall
    <3>2. /\ comments' = comments /\ users' = users /\ call' = call
          /\ pc'[r] \notin {"mentions", "commit"}
          /\ \A q \in Processes \ {r} : pc'[q] = pc[q]
      BY <2>4 DEF UpdateComment, DeleteComment, goto, dbVars, TypeOK
    <3>3. locks' = locks \/ Lock(r, CommentRow(call[r].comment))
      BY <2>4 DEF UpdateComment, DeleteComment
    <3>4. QED
      BY <3>1, <3>2, <3>3, AuthorFrame DEF AuthorShared
  <2>5. CASE InsertMentions(r) \/ LogChange(r)
    <3>1. call[r].op = "post" => pc[r] = "mentions"
      BY <2>5 DEF InsertMentions, LogChange, WriterCall
    <3>2. Held(r)' = Held(r)
      BY <2>5, HeldFacts DEF InsertMentions, LogChange
    <3>3. AuthorShared(r)'
      BY <2>5, <3>1, <3>2 DEF InsertMentions, LogChange, dbVars, AuthorShared
    <3>4. QED
      BY <2>5, <3>3, AuthorFrame DEF InsertMentions, LogChange, goto, dbVars, TypeOK
  <2>6. CASE CheckUser(r)
    <3>1. PICK u \in Users : (Lock(r, UserRow(u)) /\ UNCHANGED pc) \/ Rollback(r, "400")
      BY <2>6 DEF CheckUser
    <3>2. CASE Lock(r, UserRow(u)) /\ UNCHANGED pc
      <4>1. UserRow(u) \in LockRows /\ Held(r) \subseteq Held(r)'
        BY <3>2, HeldFacts, RowFacts
      <4>2. AuthorShared(r)'
        BY <2>6, <3>2, <4>1 DEF CheckUser, dbVars, AuthorShared
      <4>3. QED
        BY <2>6, <3>2, <4>1, <4>2, AuthorFrame DEF CheckUser, dbVars, TypeOK
    <3>3. QED
      BY <2>2, <2>6, <3>1, <3>2 DEF CheckUser, dbVars
  <2>7. QED
    BY <1>2, <2>1, <2>3, <2>4, <2>5, <2>6, AuthorCommit, AuthorGone DEF WriterStep
<1>3. ASSUME NEW d \in Removers, ReceiveRemove(d) \/ RemoverStep(d)
      PROVE  AuthorInv'
  <2> d \in Processes /\ d \notin Writers /\ RemoverCall(d) /\ NothingAuthored(d)
    BY CommentAssumption DEF Processes, CallsFit, AuthorInv
  <2>1. CASE ReceiveRemove(d) \/ FindUser(d)
    BY <2>1, AuthorFrame
    DEF ReceiveRemove, FindUser, goto, dbVars, TypeOK, NothingAuthored
  <2>2. CASE DeleteUser(d)
    <3>1. UserRow(call[d].user) \in LockRows
      BY <2>2, RowFacts DEF DeleteUser, RemoverCall
    <3>2. QED
      BY <2>2, <3>1, AuthorFrame DEF DeleteUser, goto, dbVars, TypeOK, NothingAuthored
  <2>3. CASE CheckAuthored(d)
    BY <2>3, AuthorFrame
    DEF CheckAuthored, Rollback, goto, dbVars, TypeOK, NothingAuthored, AuthoredBy
  <2>4. QED
    BY <1>3, <2>1, <2>2, <2>3, AuthorUserGone DEF RemoverStep
<1>4. ASSUME NEW p \in Processes, TakeRow(p) \/ Fail(p) \/ BreakDeadlock(p)
      PROVE  AuthorInv'
  <2>1. CASE TakeRow(p)
    <3>1. PICK row \in LockRows : Lock(p, row)
      BY <2>1 DEF TakeRow, TypeOK
    <3>2. p \in Writers => AuthorShared(p)'
      BY <2>1 DEF TakeRow, WriterCall, CallsFit, AuthorShared
    <3>3. p \in Removers => NothingAuthored(p)'
      BY <2>1 DEF TakeRow, dbVars, AuthorInv, NothingAuthored, AuthoredBy
    <3>4. QED
      BY <2>1, <3>1, <3>2, <3>3, AuthorFrame DEF TakeRow, dbVars
  <2>2. CASE Fail(p) \/ BreakDeadlock(p)
    <3>1. Rollback(p, "500") /\ UNCHANGED <<dbVars, call>>
      BY <2>2 DEF Fail, BreakDeadlock
    <3>2. QED
      BY <3>1, AuthorFrame
      DEF Rollback, goto, dbVars, TypeOK, AuthorShared, NothingAuthored
  <2>3. QED
    BY <1>4, <2>1, <2>2
<1>5. QED
  BY <1>1, <1>2, <1>3, <1>4 DEF Next

LEMMA AuthorInit == Init => AuthorInv
BY CommentAssumption
DEF Init, AuthorInv, AuthorShared, NothingAuthored, Rows, Processes

-----------------------------------------------------------------------------
\* What a reader sees of a comment, before and after a step.
LEMMA DocFacts ==
  ASSUME IInv, IInv'
  PROVE  /\ DOMAIN Docs = DOMAIN comments /\ DOMAIN Docs' = DOMAIN comments'
         /\ \A c \in DOMAIN comments : Docs[c] = [
              ticket |-> comments[c].ticket, author |-> comments[c].author,
              names |-> comments[c].names, version |-> comments[c].version,
              mentioned |-> comments[c].names \cap users]
         /\ \A c \in DOMAIN comments' : Docs'[c] = [
              ticket |-> comments'[c].ticket, author |-> comments'[c].author,
              names |-> comments'[c].names, version |-> comments'[c].version,
              mentioned |-> comments'[c].names \cap users']
<1>1. ASSUME NEW cs, NEW ms, NEW us \in SUBSET Users, NEW c \in DOMAIN cs,
             ms = {m \in (DOMAIN cs) \X us : m[2] \in cs[m[1]].names}
      PROVE  {u \in Users : <<c, u>> \in ms} = cs[c].names \cap us
  BY <1>1
<1>2. \A c \in DOMAIN comments : MentionsOf(c) = comments[c].names \cap users
  BY <1>1 DEF MentionsOf, IInv, TypeOK, MatchInv, MentionsMatchContent
<1>3. \A c \in DOMAIN comments' : MentionsOf(c)' = comments'[c].names \cap users'
  <2>1. users' \in SUBSET Users
        /\ mentions' = {m \in (DOMAIN comments') \X users' : m[2] \in comments'[m[1]].names}
    BY DEF IInv, TypeOK, MatchInv, MentionsMatchContent
  <2>2. QED
    BY <1>1, <2>1 DEF MentionsOf
<1>4. QED
  BY <1>2, <1>3 DEF Docs, Doc

LEMMA InitKept == Init => Contract!Init
<1> SUFFICES ASSUME Init PROVE Contract!Init
  OBVIOUS
<1>1. users = Users /\ DOMAIN Docs \subseteq Ids
  BY CommentAssumption DEF Init, Docs, Ids
<1>2. ASSUME NEW c \in DOMAIN comments
      PROVE  /\ Docs[c].version = 1 /\ Docs[c].author \in users
             /\ Docs[c].mentioned = Docs[c].names \cap users
  <2>1. comments[c] \in Rows /\ comments[c].version = 1
    BY CommentAssumption DEF Init
  <2>2. MentionsOf(c) = comments[c].names \cap users
    BY <2>1, CommentAssumption DEF MentionsOf, Init, Rows
  <2>3. QED
    BY <1>1, <2>1, <2>2 DEF Docs, Doc, Rows
<1>3. QED
  BY <1>1, <1>2 DEF Contract!Init, Contract!Exact, Docs

\* A COMMIT of a post is a Post, that of an edit an Edit.
LEMMA CommitKept ==
  ASSUME IInv, IInv', AuthorInv', NEW r \in Writers, Commit(r)
  PROVE  Contract!Next
<1> DEFINE c == Target(r)
<1> HIDE DEF c
<1>1. /\ c \in Ids /\ DOMAIN comments' = DOMAIN comments \cup {c}
      /\ comments'[c] = Written(r)
      /\ \A x \in DOMAIN comments \ {c} : comments'[x] = comments[x]
      /\ users' = users
  BY CommitFacts DEF c
<1>2. Contract!Others(c)
  BY <1>1, DocFacts DEF Contract!Others
<1>3. /\ Docs'[c].ticket = comments'[c].ticket /\ Docs'[c].author = comments'[c].author
      /\ Docs'[c].version = comments'[c].version
      /\ Docs'[c].mentioned = Docs'[c].names \cap users
  <2>1. c \in DOMAIN comments' /\ users' = users
    BY <1>1
  <2>2. Docs'[c] = [
          ticket |-> comments'[c].ticket, author |-> comments'[c].author,
          names |-> comments'[c].names, version |-> comments'[c].version,
          mentioned |-> comments'[c].names \cap users]
    BY <2>1, DocFacts
  <2>3. QED
    BY <2>2
<1>4. CASE call[r].op = "post"
  <2>1. c \notin DOMAIN comments
    <3>1. Target(r) = r /\ r \notin DOMAIN comments
      BY <1>4, CommitFacts
    <3>2. QED
      BY <3>1 DEF c
  <2>2. comments'[c].version = 1
    BY <1>1, <1>4, CommitFacts, WrittenKeeps DEF IInv
  <2>3. comments'[c].author \in users
    BY <1>1 DEF AuthorInv
  <2>4. Contract!Post(c)
    BY <1>1, <1>2, <1>3, <2>1, <2>2, <2>3, DocFacts DEF Contract!Post, Contract!Exact
  <2>5. QED
    BY <1>1, <2>4 DEF Contract!Next
<1>5. CASE call[r].op = "edit"
  <2>1. c \in DOMAIN comments /\ c = call[r].comment
    BY <1>5, CommitFacts DEF c
  <2>2. call[r] \in Calls
    BY CommitFacts
  <2>3. comments'[c].ticket = comments[c].ticket /\ comments'[c].author = comments[c].author
    BY <1>1, <1>5, <2>1, <2>2, WrittenKeeps DEF IInv
  <2>4. comments'[c].version = comments[c].version + 1
    <3>1. Written(r).version = comments[call[r].comment].version + 1
      BY <1>5, <2>1, <2>2, WrittenFacts DEF IInv
    <3>2. comments'[c] = Written(r)
      BY <1>1
    <3>3. c = call[r].comment
      BY <2>1
    <3>4. QED
      BY <3>1, <3>2, <3>3
  <2>5. DOMAIN Docs' = DOMAIN Docs /\ c \in DOMAIN Docs
    <3>1. DOMAIN Docs = DOMAIN comments /\ DOMAIN Docs' = DOMAIN comments'
      BY DocFacts
    <3>2. QED
      BY <1>1, <2>1, <3>1
  <2>6. /\ Docs[c].ticket = comments[c].ticket /\ Docs[c].author = comments[c].author
        /\ Docs[c].version = comments[c].version
    BY <2>1, DocFacts
  <2>7. Contract!Edit(c)
    BY <1>1, <1>2, <1>3, <2>3, <2>4, <2>5, <2>6 DEF Contract!Edit, Contract!Exact
  <2>8. QED
    BY <1>1, <2>7 DEF Contract!Next
<1>6. QED
  BY <1>4, <1>5, CommitFacts

LEMMA GoneKept ==
  ASSUME IInv, IInv', NEW r \in Writers, CommentGone(r)
  PROVE  Contract!Next \/ UNCHANGED Contract!vars
<1> DEFINE c == call[r].comment
<1>1. /\ DOMAIN comments' = DOMAIN comments \ {c} /\ users' = users
      /\ \A x \in DOMAIN comments' : comments'[x] = comments[x]
  BY DEF CommentGone, Restrict
<1>2. c \in Ids
  BY CallShapes DEF CommentGone, IInv, CallsFit, WriterCall
<1>3. CASE c \in DOMAIN comments
  <2>1. Contract!Erase(c)
    BY <1>1, <1>3, DocFacts DEF Contract!Erase, Contract!Others
  <2>2. QED
    BY <1>2, <2>1 DEF Contract!Next
<1>4. CASE c \notin DOMAIN comments
  <2>1. Docs' = Docs
    BY <1>1, <1>4, DocFacts DEF Docs
  <2>2. QED
    BY <1>1, <2>1 DEF Contract!vars
<1>5. QED
  BY <1>3, <1>4

LEMMA UserGoneKept ==
  ASSUME IInv, IInv', AuthorInv, NEW d \in Removers, UserGone(d)
  PROVE  Contract!Next \/ UNCHANGED Contract!vars
<1> DEFINE u == call[d].user
<1>1. /\ u \in Users /\ comments' = comments /\ users' = users \ {u}
      /\ AuthoredBy(u) = {}
  BY UserGoneFacts DEF AuthorInv, NothingAuthored
<1>2. ASSUME NEW c \in DOMAIN comments
      PROVE  Docs'[c] = [Docs[c] EXCEPT !.mentioned = @ \ {u}] /\ Docs[c].author # u
  <2>1. comments[c].names \cap users' = (comments[c].names \cap users) \ {u}
    BY <1>1
  <2>2. comments[c].author # u
    BY <1>1 DEF AuthoredBy
  <2>3. QED
    BY <1>1, <2>1, <2>2, DocFacts
<1>3. CASE u \in users
  <2>1. Contract!Forget(u)
    BY <1>1, <1>2, <1>3, DocFacts DEF Contract!Forget
  <2>2. QED
    BY <1>1, <2>1 DEF Contract!Next
<1>4. CASE u \notin users
  <2>1. users' = users
    BY <1>1, <1>4
  <2>2. mentions' = mentions
    BY <1>1, <1>4, UserGoneFacts DEF IInv, MatchInv, MentionsMatchContent
  <2>3. QED
    BY <1>1, <2>1, <2>2 DEF Contract!vars, Docs, Doc, MentionsOf
<1>5. QED
  BY <1>3, <1>4

\* Every other step is out of a reader's sight.
LEMMA StepKept ==
  ASSUME IInv, IInv', AuthorInv, AuthorInv', [Next]_vars
  PROVE  Contract!Next \/ UNCHANGED Contract!vars
<1>1. ASSUME UNCHANGED <<comments, mentions, users>>
      PROVE  UNCHANGED Contract!vars
  BY <1>1 DEF Contract!vars, Docs, Doc, MentionsOf
<1>2. CASE UNCHANGED vars
  BY <1>1, <1>2 DEF vars
<1>3. ASSUME NEW r \in Writers, Receive(r) \/ WriterStep(r), ~Commit(r), ~CommentGone(r)
      PROVE  UNCHANGED <<comments, mentions, users>>
  BY <1>3
  DEF Receive, WriterStep, FindTicket, FindAuthor, FindComment, Resolve, InsertComment,
      UpdateComment, InsertMentions, CheckUser, LogChange, DeleteComment, dbVars
<1>4. ASSUME NEW d \in Removers, ReceiveRemove(d) \/ RemoverStep(d), ~UserGone(d)
      PROVE  UNCHANGED <<comments, mentions, users>>
  BY <1>4 DEF ReceiveRemove, RemoverStep, FindUser, DeleteUser, CheckAuthored, dbVars
<1>5. ASSUME NEW p \in Processes, TakeRow(p) \/ Fail(p) \/ BreakDeadlock(p)
      PROVE  UNCHANGED <<comments, mentions, users>>
  BY <1>5 DEF TakeRow, Fail, BreakDeadlock, dbVars
<1>6. QED
  BY <1>1, <1>2, <1>3, <1>4, <1>5, CommitKept, GoneKept, UserGoneKept DEF Next

\* The tables keep what CommentContract says of them: what is committed of a comment and
\* of its mentions changes at once and whole, whichever statements of whichever
\* transactions come in between, fail or deadlock (createWithMentions,
\* updateContentAndMentions, delete, and users.delete).
THEOREM ContractKept == Spec => CommentsKeepContract
<1>1. ASSUME IInv, AuthorInv, [Next]_vars
      PROVE  AuthorInv'
  BY <1>1, AuthorStep
<1>2. Spec => [](IInv /\ AuthorInv)
  BY <1>1, AuthorInit, Invariance, PTL DEF Spec
<1>3. ASSUME IInv, IInv', AuthorInv, AuthorInv', [Next]_vars
      PROVE  [Contract!Next]_Contract!vars
  BY <1>3, StepKept
<1>4. QED
  BY <1>2, <1>3, InitKept, PTL DEF Spec, CommentsKeepContract, Contract!Spec
=============================================================================
