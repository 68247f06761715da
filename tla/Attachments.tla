----------------------------- MODULE Attachments -----------------------------
(***************************************************************************)
(* AttachmentsService: a row in the database and a file in the upload      *)
(* directory, written and removed by separate calls.  One action is one    *)
(* call of the file system or of the database; any of them may fail, the   *)
(* answer to a statement may be lost, and the server may crash in between. *)
(***************************************************************************)
EXTENDS Naturals, FiniteSets, Functions

CONSTANTS Uploads,           \* POST requests; each names its row and its file
          Deletes,           \* DELETE requests
          Users,             \* the users at the start
          Tickets,           \* ticket ids a URL may name
          InitialAttachments,\* rows at the start, each with its file
          MaxFaults,         \* how many calls may fail
          MaxCrashes         \* how often the server may crash

Rows == [ticket : Tickets, uploader : Users]

ASSUME AttachmentAssumption ==
  /\ Uploads \cap Deletes = {}
  /\ DOMAIN InitialAttachments \cap Uploads = {}
  /\ InitialAttachments \in [DOMAIN InitialAttachments -> Rows]
  /\ IsFiniteSet(Uploads) /\ IsFiniteSet(Deletes) /\ IsFiniteSet(DOMAIN InitialAttachments)
  /\ MaxFaults \in Nat /\ MaxCrashes \in Nat

VARIABLES attachments,       \* the rows: id -> ticket_id, uploader_id
          disk,              \* the files: storage_key -> "part" or "whole"
          users,
          audited,           \* the uploads with a CREATE entry
          pc,                \* where each request stands; its answer at the end
          call,              \* what it was asked
          faults, crashes

vars == <<attachments, disk, users, audited, pc, call, faults, crashes>>
dataVars == <<attachments, disk, users, audited>>

Requests == Uploads \cup Deletes
Ids == DOMAIN InitialAttachments \cup Uploads
Answers == {"200", "400", "404", "500"}

UploadCalls == [ticket : Tickets, uploader : Users, file : {"valid", "invalid"}]
DeleteCalls == [ticket : Tickets, id : Ids]

goto(r, where) == pc' = [pc EXCEPT ![r] = where]

InFlight(r) == pc[r] \notin {"new", "dead"} \cup Answers

Fails == faults < MaxFaults /\ faults' = faults + 1

Succeeds == UNCHANGED faults

\* A table or a directory with one entry more.
Put(f, x, y) == [z \in DOMAIN f \cup {x} |-> IF z = x THEN y ELSE f[z]]

Without(f, x) == Restrict(f, DOMAIN f \ {x})

-----------------------------------------------------------------------------
\* The body is checked first: a file, at most 10 MB (the interceptor refuses a larger
\* one already), of an allowed type.
ReceiveUpload(u) ==
  /\ pc[u] = "new"
  /\ \E c \in UploadCalls :
       /\ c.uploader \in users /\ call' = [call EXCEPT ![u] = c]
       /\ goto(u, IF c.file = "valid" THEN "ticket" ELSE "400")
  /\ UNCHANGED <<dataVars, faults, crashes>>

\* assertExistsAndGet: the tickets service owns the answer.
FindTicket(u) ==
  /\ pc[u] = "ticket"
  /\ goto(u, "mkdir") \/ goto(u, "404")
  /\ UNCHANGED <<dataVars, call, faults, crashes>>

MakeDirectory(u) ==
  /\ pc[u] = "mkdir"
  /\ \/ goto(u, "open") /\ Succeeds
     \/ goto(u, "500") /\ Fails
  /\ UNCHANGED <<dataVars, call, crashes>>

\* writeFile creates the file under a fresh UUID ...
OpenFile(u) ==
  /\ pc[u] = "open"
  /\ \/ disk' = Put(disk, u, "part") /\ goto(u, "write") /\ Succeeds
     \/ goto(u, "500") /\ Fails /\ UNCHANGED disk
  /\ UNCHANGED <<attachments, users, audited, call, crashes>>

\* ... and writes it.  Its failure is outside the try: what was written stays.
WriteFile(u) ==
  /\ pc[u] = "write"
  /\ \/ disk' = [disk EXCEPT ![u] = "whole"] /\ goto(u, "insert") /\ Succeeds
     \/ goto(u, "500") /\ Fails /\ UNCHANGED disk
  /\ UNCHANGED <<attachments, users, audited, call, crashes>>

\* Mutant: the uploader is not passed on.
RowAnonymous(u) == [ticket |-> call[u].ticket, uploader |-> "null"]

Row(u) == [ticket |-> call[u].ticket, uploader |-> call[u].uploader]

\* attachments.create.  The foreign key refuses an uploader who was deleted; a
\* failed statement may have inserted the row all the same.
InsertRow(u) ==
  /\ pc[u] = "insert"
  /\ \/ /\ call[u].uploader \in users
        /\ attachments' = Put(attachments, u, Row(u))
        /\ \/ goto(u, "log") /\ Succeeds
           \/ goto(u, "cleanup") /\ Fails
     \/ call[u].uploader \notin users /\ goto(u, "cleanup400") /\ Succeeds /\ UNCHANGED attachments
     \/ goto(u, "cleanup") /\ Fails /\ UNCHANGED attachments
  /\ UNCHANGED <<disk, users, audited, call, crashes>>

\* Mutant: only a failed statement is cleaned up after, not a refused one.
CleanUpFailedOnly(u) ==
  /\ pc[u] \in {"cleanup", "cleanup400"}
  /\ \/ /\ disk' = IF pc[u] = "cleanup" THEN Without(disk, u) ELSE disk
        /\ goto(u, IF pc[u] = "cleanup" THEN "500" ELSE "400") /\ Succeeds
     \/ goto(u, "500") /\ Fails /\ UNCHANGED disk
  /\ UNCHANGED <<attachments, users, audited, call, crashes>>

\* catch: rm the file and rethrow.  If rm fails its error is what is answered.
CleanUp(u) ==
  /\ pc[u] \in {"cleanup", "cleanup400"}
  /\ \/ /\ disk' = Without(disk, u)
        /\ goto(u, IF pc[u] = "cleanup" THEN "500" ELSE "400") /\ Succeeds
     \/ goto(u, "500") /\ Fails /\ UNCHANGED disk
  /\ UNCHANGED <<attachments, users, audited, call, crashes>>

\* Mutant: the entry of an upload is not written.
LogLost(u) ==
  /\ u \in Uploads /\ pc[u] = "log" /\ goto(u, "200") /\ Succeeds
  /\ UNCHANGED <<dataVars, call, crashes>>

\* audit.log swallows a failure of its INSERT.
LogUpload(u) ==
  /\ u \in Uploads /\ pc[u] = "log" /\ goto(u, "200")
  /\ \/ audited' = audited \cup {u} /\ Succeeds
     \/ Fails /\ UNCHANGED audited
  /\ UNCHANGED <<attachments, disk, users, call, crashes>>

UploadStep(u) ==
  \/ FindTicket(u) \/ MakeDirectory(u) \/ OpenFile(u) \/ WriteFile(u)
  \/ InsertRow(u) \/ CleanUp(u) \/ LogUpload(u)

-----------------------------------------------------------------------------
ReceiveDelete(d) ==
  /\ pc[d] = "new"
  /\ \E c \in DeleteCalls : call' = [call EXCEPT ![d] = c]
  /\ goto(d, "find")
  /\ UNCHANGED <<dataVars, faults, crashes>>

\* Mutant: the ticket of the URL is not compared.
FindRowAnywhere(d) ==
  /\ pc[d] = "find"
  /\ goto(d, IF call[d].id \in DOMAIN attachments THEN "delete" ELSE "404")
  /\ UNCHANGED <<dataVars, call, faults, crashes>>

\* The attachment exists and is on the ticket of the URL.
FindRow(d) ==
  /\ pc[d] = "find"
  /\ goto(d, IF /\ call[d].id \in DOMAIN attachments
                /\ attachments[call[d].id].ticket = call[d].ticket
             THEN "delete" ELSE "404")
  /\ UNCHANGED <<dataVars, call, faults, crashes>>

\* Mutant: the file goes first.
DeleteFileFirst(d) ==
  /\ pc[d] = "delete" /\ goto(d, "unlink") /\ Succeeds
  /\ disk' = Without(disk, call[d].id)
  /\ UNCHANGED <<attachments, users, audited, call, crashes>>

\* The row count of the DELETE is not looked at.
DeleteRow(d) ==
  /\ pc[d] = "delete"
  /\ \/ /\ attachments' = Without(attachments, call[d].id)
        /\ \/ goto(d, "unlink") /\ Succeeds
           \/ goto(d, "500") /\ Fails
     \/ goto(d, "500") /\ Fails /\ UNCHANGED attachments
  /\ UNCHANGED <<disk, users, audited, call, crashes>>

\* rm on a best effort: its failure is swallowed.
RemoveFile(d) ==
  /\ pc[d] = "unlink" /\ goto(d, "log")
  /\ \/ disk' = Without(disk, call[d].id) /\ Succeeds
     \/ Fails /\ UNCHANGED disk
  /\ UNCHANGED <<attachments, users, audited, call, crashes>>

LogDelete(d) ==
  /\ d \in Deletes /\ pc[d] = "log" /\ goto(d, "200")
  /\ UNCHANGED <<dataVars, call, faults, crashes>>

DeleteStep(d) == FindRow(d) \/ DeleteRow(d) \/ RemoveFile(d) \/ LogDelete(d)

-----------------------------------------------------------------------------
\* UsersService.delete: attachments.uploader_id is ON DELETE RESTRICT.
DeleteUser ==
  /\ \E u \in users : /\ \A a \in DOMAIN attachments : attachments[a].uploader # u
                      /\ users' = users \ {u}
  /\ UNCHANGED <<attachments, disk, audited, pc, call, faults, crashes>>

\* The server dies: what it was doing is forgotten, files and rows stay.
Crash ==
  /\ crashes < MaxCrashes /\ crashes' = crashes + 1
  /\ pc' = [r \in Requests |-> IF InFlight(r) THEN "dead" ELSE pc[r]]
  /\ UNCHANGED <<dataVars, call, faults>>

Init ==
  /\ attachments = InitialAttachments
  /\ disk = [a \in DOMAIN InitialAttachments |-> "whole"]
  /\ users = Users /\ audited = {}
  /\ pc = [r \in Requests |-> "new"] /\ call = [r \in Requests |-> [ticket |-> "none"]]
  /\ faults = 0 /\ crashes = 0

Next ==
  \/ \E u \in Uploads : ReceiveUpload(u) \/ UploadStep(u)
  \/ \E d \in Deletes : ReceiveDelete(d) \/ DeleteStep(d)
  \/ DeleteUser \/ Crash

Spec == Init /\ [][Next]_vars

\* While the server lives it goes on with what it has begun: a handler awaits only
\* calls that PostgreSQL and the file system answer, if only with a failure.
FairSpec ==
  /\ Spec
  /\ \A u \in Uploads : WF_vars(UploadStep(u))
  /\ \A d \in Deletes : WF_vars(DeleteStep(d))

-----------------------------------------------------------------------------
\* The types of the tables, of the files and of what requests keep.
TypeOK ==
  /\ DOMAIN attachments \subseteq Ids /\ attachments \in [DOMAIN attachments -> Rows]
  /\ DOMAIN disk \subseteq Ids /\ disk \in [DOMAIN disk -> {"part", "whole"}]
  /\ users \subseteq Users /\ audited \subseteq Uploads
  /\ pc \in [Requests -> {"new", "ticket", "mkdir", "open", "write", "insert", "cleanup",
                          "cleanup400", "log", "find", "delete", "unlink", "dead"} \cup Answers]
  /\ call \in [Requests -> UploadCalls \cup DeleteCalls \cup {[ticket |-> "none"]}]
  /\ faults \in 0..MaxFaults /\ crashes \in 0..MaxCrashes

HasFile(a) == a \in DOMAIN disk /\ disk[a] = "whole"

\* A row's file is there and complete, unless the row is one whose uploader was
\* told that the upload failed: no deletion, crash or cleanup takes the file of an
\* attachment that was acknowledged (the row goes first, the file after it).
AcknowledgedRowHasFile ==
  \A a \in DOMAIN attachments : ~HasFile(a) => a \in Uploads /\ pc[a] \in {"500", "dead"}

TicketOf(a) == IF a \in Uploads THEN call[a].ticket ELSE InitialAttachments[a].ticket

\* An acknowledged attachment disappears only by a DELETE that names it and the
\* ticket it is on.
OnlyItsDeleteRemoves ==
  \A a \in Ids \ DOMAIN attachments :
    (a \in Uploads => pc[a] = "200") =>
      \E d \in Deletes : /\ call[d] = [ticket |-> TicketOf(a), id |-> a]
                         /\ pc[d] \notin {"new", "find", "404"}

\* A request is at work on the file.
Busy(a) ==
  \/ a \in Uploads /\ pc[a] \in {"write", "insert", "cleanup", "cleanup400"}
  \/ \E d \in Deletes : pc[d] = "unlink" /\ call[d].id = a

Strays == {a \in DOMAIN disk \ DOMAIN attachments : ~Busy(a)}
Fileless == {a \in DOMAIN attachments : ~HasFile(a)}
Unaudited == {u \in Uploads : pc[u] = "200" /\ u \notin audited}

\* Files without a row, rows without a file and uploads without an entry are no more
\* than the calls that failed and the requests that died: what the server refuses
\* it clears away, and one failure does at most one damage.
DamageHasItsFailure ==
  Cardinality(Strays) + Cardinality(Fileless) + Cardinality(Unaudited)
    <= faults + Cardinality({r \in Requests : pc[r] = "dead"})

\* A file whose row is missing gets it or goes away, unless something failed.
StrayFilesGo ==
  \A a \in Ids :
    a \in DOMAIN disk /\ a \notin DOMAIN attachments
      ~> a \notin DOMAIN disk \/ a \in DOMAIN attachments \/ faults + crashes > 0
=============================================================================
