---------------------------- MODULE MCAttachments ----------------------------
(***************************************************************************)
(* One attachment at the start, an upload and two deletions on two         *)
(* tickets, with failures, a crash and the deletion of users.              *)
(***************************************************************************)
EXTENDS Attachments, TLC

MCInitial == ("a0" :> [ticket |-> 1, uploader |-> "ann"])
=============================================================================
