--------------------------- MODULE CommentContract ---------------------------
(***************************************************************************)
(* What the tables hold of the comments of a ticket at any moment: a       *)
(* comment and the users it mentions change together, in one step, and so  *)
(* does whatever the deletion of a user takes along.                       *)
(***************************************************************************)
EXTENDS Naturals

CONSTANTS Ids, Users

VARIABLES docs,    \* what is committed: id -> [ticket, author, names, version, mentioned]
          users

vars == <<docs, users>>

\* Mentioned are the users the content names, those there are.
Exact(doc, us) == doc.mentioned = doc.names \cap us

Others(c) == \A x \in DOMAIN docs \ {c} : x \in DOMAIN docs' /\ docs'[x] = docs[x]

Init ==
  /\ users = Users /\ DOMAIN docs \subseteq Ids
  /\ \A c \in DOMAIN docs : docs[c].version = 1 /\ docs[c].author \in users /\ Exact(docs[c], users)

Post(c) ==
  /\ c \notin DOMAIN docs /\ DOMAIN docs' = DOMAIN docs \cup {c} /\ Others(c)
  /\ docs'[c].version = 1 /\ docs'[c].author \in users /\ Exact(docs'[c], users)
  /\ UNCHANGED users

\* A comment keeps its ticket and its author.
Edit(c) ==
  /\ c \in DOMAIN docs /\ DOMAIN docs' = DOMAIN docs /\ Others(c)
  /\ docs'[c].ticket = docs[c].ticket /\ docs'[c].author = docs[c].author
  /\ docs'[c].version = docs[c].version + 1 /\ Exact(docs'[c], users)
  /\ UNCHANGED users

Erase(c) ==
  /\ c \in DOMAIN docs /\ DOMAIN docs' = DOMAIN docs \ {c} /\ Others(c)
  /\ UNCHANGED users

\* An author stays as long as there is a comment of theirs.
Forget(u) ==
  /\ u \in users /\ users' = users \ {u}
  /\ \A c \in DOMAIN docs : docs[c].author # u
  /\ DOMAIN docs' = DOMAIN docs
  /\ \A c \in DOMAIN docs : docs'[c] = [docs[c] EXCEPT !.mentioned = @ \ {u}]

Next == (\E c \in Ids : Post(c) \/ Edit(c) \/ Erase(c)) \/ \E u \in Users : Forget(u)

Spec == Init /\ [][Next]_vars
=============================================================================
