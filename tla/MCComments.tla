----------------------------- MODULE MCComments -----------------------------
(***************************************************************************)
(* One comment by ann that names bob and cy; requests post, edit and erase *)
(* while users are deleted and a reader reads.                             *)
(***************************************************************************)
EXTENDS CommentReads

MCUsers == {"ann", "bob", "cy"}
MCIds == {"c1"}
MCComments == [c \in MCIds |-> [ticket |-> 1, author |-> "ann",
                                names |-> {"bob", "cy"}, version |-> 1]]
MCCalls ==
  {[op |-> "post", ticket |-> 1, author |-> "bob", names |-> {"ann", "cy"}],
   [op |-> "edit", ticket |-> 1, comment |-> "c1", names |-> {"bob", "cy"}],
   [op |-> "edit", ticket |-> 1, comment |-> "c1", names |-> {"ann"}],
   [op |-> "erase", ticket |-> 1, comment |-> "c1"],
   [op |-> "erase", ticket |-> 2, comment |-> "c1"]}
  \cup {[op |-> "edit", ticket |-> 1, comment |-> r, names |-> {"cy"}] : r \in Writers}
=============================================================================
