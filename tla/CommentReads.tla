---------------------------- MODULE CommentReads ----------------------------
(***************************************************************************)
(* What CommentsService answers.  A comment and its mentions are in two    *)
(* tables and read by two statements without a transaction: the lists read *)
(* the rows first and the mentions next, and a post or an edit answers the *)
(* row its own transaction RETURNED with the mentions read after COMMIT.   *)
(*                                                                         *)
(* A list has one row here: its rows come from one statement, its mentions *)
(* from one other, so each of them is read as if it were the only one.     *)
(***************************************************************************)
EXTENDS Comments

CONSTANT Readers        \* requests GET comments or mentions, each handled once

ASSUME ReaderAssumption == Readers \cap Processes = {}

VARIABLE view           \* what each request has read of the comment it answers

Unread == [id |-> "none"]

\* The row has been read, the mentions have not.
HalfRead(c, row) == [id |-> c, row |-> row]

Answer(c, row, us) == [id |-> c, row |-> row, mentioned |-> us]

\* Mutant: the mentions are read before the row.
ReadMentionsFirst(g) ==
  \E c \in Ids :
    \/ /\ view[g] = Unread
       /\ view' = [view EXCEPT ![g] = [id |-> c, mentioned |-> MentionsOf(c)]]
    \/ /\ view[g].id = c /\ "row" \notin DOMAIN view[g] /\ c \in DOMAIN comments
       /\ view' = [view EXCEPT ![g] = Answer(c, comments[c], view[g].mentioned)]

\* findByTicket or findCommentsMentioning.
ReadRow(g) ==
  /\ view[g] = Unread
  /\ \E c \in DOMAIN comments : view' = [view EXCEPT ![g] = HalfRead(c, comments[c])]

\* attachMentions, or toResponse of a post or an edit.
ReadMentions(p) ==
  /\ DOMAIN view[p] = {"id", "row"}
  /\ view' = [view EXCEPT ![p] = Answer(@.id, @.row, MentionsOf(@.id))]

Read(p) == (p \in Readers /\ ReadRow(p)) \/ ReadMentions(p)

\* A post or an edit whose COMMIT was acknowledged keeps the row it RETURNED.
Returned(p) == p \in Writers /\ pc[p] = "commit" /\ pc'[p] = "200"

Write ==
  /\ Next
  /\ view' = [p \in DOMAIN view |->
               IF Returned(p) THEN HalfRead(Target(p), Written(p)) ELSE view[p]]

ReadsInit == Init /\ view = [p \in Readers \cup Writers |-> Unread]

ReadsNext == Write \/ \E p \in Readers \cup Writers : Read(p) /\ UNCHANGED vars

ReadsSpec == ReadsInit /\ [][ReadsNext]_<<vars, view>>

FairReadsSpec == ReadsSpec /\ Fairness

-----------------------------------------------------------------------------
\* An answer may pair an old content with the mentions of a newer one, but the client
\* can tell: as long as the comment is at the version the answer gives, the mentions
\* in it are users the content names, and all of those who still exist (attachMentions
\* after the rows, toResponse after COMMIT, two statements without a transaction).
AnswersFit ==
  \A p \in DOMAIN view :
    LET a == view[p]
    IN  /\ DOMAIN a = {"id", "row", "mentioned"}
        /\ a.id \in DOMAIN comments /\ comments[a.id].version = a.row.version
        => a.mentioned \subseteq a.row.names /\ a.row.names \cap users \subseteq a.mentioned
=============================================================================
