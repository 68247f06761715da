--------------------------- MODULE AttachmentProofs ---------------------------
(***************************************************************************)
(* What TLAPS proves of the attachments, for any requests, rows, users,    *)
(* tickets, failures and crashes: types, that a row which was acknowledged *)
(* has its file, that only its own deletion takes it away, and that stray  *)
(* files, rows without a file and missing entries are paid for by          *)
(* failures.                                                               *)
(***************************************************************************)
EXTENDS Attachments, FiniteSetTheorems, TLAPS

Steps == {"new", "ticket", "mkdir", "open", "write", "insert", "cleanup",
          "cleanup400", "log", "find", "delete", "unlink", "dead"} \cup Answers

\* Where an upload has not come to its INSERT yet.
NotYet == {"new", "ticket", "mkdir", "open", "write", "insert"}

\* What a request was asked fits what it is.
CallsFit ==
  /\ \A u \in Uploads : pc[u] # "new" => call[u] \in UploadCalls
  /\ \A d \in Deletes : pc[d] # "new" => call[d] \in DeleteCalls

\* What an upload has put on the disk and into the table so far.
FilesFit ==
  \A u \in Uploads :
    /\ pc[u] \in NotYet \cup {"cleanup400", "400", "404"} => u \notin DOMAIN attachments
    /\ pc[u] \in {"write", "insert"} => u \in DOMAIN disk
    /\ pc[u] = "insert" => disk[u] = "whole"

RowsFit == \A a \in DOMAIN attachments : attachments[a].ticket = TicketOf(a)

\* A deletion that found its row: the row is on the ticket that was named, was
\* inserted, and is gone by the time its file is removed.
DeletesFit ==
  \A d \in Deletes :
    /\ pc[d] \in {"delete", "unlink"} =>
         /\ call[d].ticket = TicketOf(call[d].id)
         /\ call[d].id \in Uploads => pc[call[d].id] \notin NotYet
    /\ pc[d] = "unlink" => call[d].id \notin DOMAIN attachments

\* OnlyItsDeleteRemoves, from the INSERT on.
Removed ==
  \A a \in Ids \ DOMAIN attachments :
    (a \in Uploads => pc[a] \in {"log", "200"}) =>
      \E d \in Deletes : /\ call[d] = [ticket |-> TicketOf(a), id |-> a]
                         /\ pc[d] \notin {"new", "find", "404"}

Types == TypeOK /\ CallsFit

Inv == Types /\ FilesFit /\ RowsFit /\ DeletesFit /\ AcknowledgedRowHasFile /\ Removed

-----------------------------------------------------------------------------
\* Requests are uploads or deletions, never both; an upload's row is new.
LEMMA Kinds ==
  /\ \A u \in Uploads : u \in Requests /\ u \notin Deletes /\ u \in Ids
  /\ \A d \in Deletes : d \in Requests /\ d \notin Uploads
  /\ \A u \in Uploads : u \notin DOMAIN InitialAttachments
  BY AttachmentAssumption DEF Requests, Ids

LEMMA InitInv == Init => Inv
  <1> SUFFICES ASSUME Init PROVE Inv
    OBVIOUS
  <1>1. TypeOK
    BY AttachmentAssumption DEF Init, TypeOK, Ids, Answers
  <1>2. CallsFit /\ FilesFit
    BY AttachmentAssumption, Kinds DEF Init, CallsFit, FilesFit, Requests, NotYet
  <1>3. RowsFit
    BY Kinds DEF Init, RowsFit, TicketOf
  <1>4. DeletesFit
    BY Kinds DEF Init, DeletesFit
  <1>5. AcknowledgedRowHasFile
    BY DEF Init, AcknowledgedRowHasFile, HasFile
  <1>6. Removed
    BY Kinds DEF Init, Removed, Ids
  <1> QED
    BY <1>1, <1>2, <1>3, <1>4, <1>5, <1>6 DEF Inv, Types

-----------------------------------------------------------------------------
\* A step of an upload touches no other request.
LEMMA UploadTypes ==
  ASSUME Types, NEW u \in Uploads, ReceiveUpload(u) \/ UploadStep(u)
  PROVE  Types'
  <1> USE Kinds
  <1> DEFINE G == DOMAIN attachments \cup {u}
  <1>1. CASE ReceiveUpload(u)
    BY <1>1 DEF ReceiveUpload, Types, TypeOK, CallsFit, goto, dataVars, Answers, UploadCalls
  <1>2. CASE FindTicket(u) \/ MakeDirectory(u) \/ LogUpload(u)
    BY <1>2, AttachmentAssumption DEF FindTicket, MakeDirectory, LogUpload, Types, TypeOK, CallsFit,
      goto, dataVars, Answers, Fails, Succeeds
  <1>3. CASE OpenFile(u) \/ WriteFile(u) \/ CleanUp(u)
    <2>1. DOMAIN disk' \subseteq Ids /\ disk' \in [DOMAIN disk' -> {"part", "whole"}]
      BY <1>3 DEF OpenFile, WriteFile, CleanUp, Types, TypeOK, Put, Without, Restrict
    <2>2. UNCHANGED <<attachments, users, audited, call, crashes>> /\ faults' \in 0..MaxFaults
      BY <1>3, AttachmentAssumption DEF OpenFile, WriteFile, CleanUp, Fails, Succeeds, Types, TypeOK
    <2>3. pc' \in [Requests -> Steps] /\ (\A r \in Requests \ {u} : pc'[r] = pc[r]) /\ pc[u] # "new"
      BY <1>3 DEF OpenFile, WriteFile, CleanUp, Types, TypeOK, goto, Steps, Answers
    <2> QED
      BY <2>1, <2>2, <2>3 DEF Types, TypeOK, CallsFit, Steps
  <1>4. CASE InsertRow(u)
    <2>1. Row(u) \in Rows
      BY <1>4 DEF InsertRow, Types, CallsFit, Row, Rows, UploadCalls
    <2>2. DOMAIN attachments' \subseteq Ids /\ attachments' \in [DOMAIN attachments' -> Rows]
      BY <1>4, <2>1 DEF InsertRow, Types, TypeOK, Put
    <2>3. UNCHANGED <<disk, users, audited, call, crashes>> /\ faults' \in 0..MaxFaults
      BY <1>4, AttachmentAssumption DEF InsertRow, Fails, Succeeds, Types, TypeOK
    <2>4. pc' \in [Requests -> Steps] /\ (\A r \in Requests \ {u} : pc'[r] = pc[r]) /\ pc[u] # "new"
      BY <1>4 DEF InsertRow, Types, TypeOK, goto, Steps, Answers
    <2> QED
      BY <2>2, <2>3, <2>4 DEF Types, TypeOK, CallsFit, Steps
  <1> QED
    BY <1>1, <1>2, <1>3, <1>4 DEF UploadStep

LEMMA DeleteTypes ==
  ASSUME Types, NEW d \in Deletes, ReceiveDelete(d) \/ DeleteStep(d)
  PROVE  Types'
  <1> USE Kinds
  <1>1. CASE ReceiveDelete(d)
    BY <1>1 DEF ReceiveDelete, Types, TypeOK, CallsFit, goto, dataVars, Answers, DeleteCalls
  <1>2. CASE FindRow(d) \/ LogDelete(d)
    BY <1>2 DEF FindRow, LogDelete, Types, TypeOK, CallsFit, goto, dataVars, Answers, Succeeds
  <1>3. CASE DeleteRow(d) \/ RemoveFile(d)
    <2>1. DOMAIN disk' \subseteq Ids /\ disk' \in [DOMAIN disk' -> {"part", "whole"}]
      BY <1>3 DEF DeleteRow, RemoveFile, Types, TypeOK, Without, Restrict
    <2>2. DOMAIN attachments' \subseteq Ids /\ attachments' \in [DOMAIN attachments' -> Rows]
      BY <1>3 DEF DeleteRow, RemoveFile, Types, TypeOK, Without, Restrict
    <2>3. UNCHANGED <<users, audited, call, crashes>> /\ faults' \in 0..MaxFaults
      BY <1>3, AttachmentAssumption DEF DeleteRow, RemoveFile, Fails, Succeeds, Types, TypeOK
    <2>4. pc' \in [Requests -> Steps] /\ (\A r \in Requests \ {d} : pc'[r] = pc[r]) /\ pc[d] # "new"
      BY <1>3 DEF DeleteRow, RemoveFile, Types, TypeOK, goto, Steps, Answers
    <2> QED
      BY <2>1, <2>2, <2>3, <2>4 DEF Types, TypeOK, CallsFit, Steps
  <1> QED
    BY <1>2, <1>1, <1>3 DEF DeleteStep

LEMMA OtherTypes ==
  ASSUME Types, DeleteUser \/ Crash \/ UNCHANGED vars
  PROVE  Types'
  <1>1. CASE DeleteUser
    BY <1>1 DEF DeleteUser, Types, TypeOK, CallsFit
  <1>2. CASE Crash
    <2>1. pc' \in [Requests -> Steps] /\ \A r \in Requests : pc'[r] = "new" <=> pc[r] = "new"
      BY <1>2 DEF Crash, InFlight, Types, TypeOK, Steps, Answers
    <2>2. UNCHANGED <<dataVars, call, faults>> /\ crashes' \in 0..MaxCrashes
      BY <1>2, AttachmentAssumption DEF Crash, Types, TypeOK
    <2> QED
      BY <2>1, <2>2, Kinds DEF Types, TypeOK, CallsFit, Steps, dataVars
  <1>3. CASE UNCHANGED vars
    BY <1>3 DEF vars, Types, TypeOK, CallsFit, dataVars
  <1> QED
    BY <1>1, <1>2, <1>3

-----------------------------------------------------------------------------
\* Whose place and whose call a step changes, and that tickets stay what they are.
LEMMA UploadFrame ==
  ASSUME Types, NEW u \in Uploads, ReceiveUpload(u) \/ UploadStep(u)
  PROVE  /\ pc \in [Requests -> Steps] /\ pc' \in [Requests -> Steps] /\ pc'[u] # "new"
         /\ \A r \in Requests \ {u} : pc'[r] = pc[r] /\ call'[r] = call[r]
         /\ \A a \in Ids : a # u \/ pc[u] # "new" => TicketOf(a)' = TicketOf(a)
  <1> USE Kinds
  <1>1. pc \in [Requests -> Steps] /\ pc' \in [Requests -> Steps]
    BY UploadTypes DEF Types, TypeOK, Steps
  <1>2. pc'[u] # "new" /\ \A r \in Requests \ {u} : pc'[r] = pc[r]
    BY DEF ReceiveUpload, UploadStep, FindTicket, MakeDirectory, OpenFile, WriteFile, InsertRow,
      CleanUp, LogUpload, goto, Types, TypeOK
  <1>3. (pc[u] # "new" => call' = call) /\ \A r \in Requests \ {u} : call'[r] = call[r]
    BY DEF ReceiveUpload, UploadStep, FindTicket, MakeDirectory, OpenFile, WriteFile, InsertRow,
      CleanUp, LogUpload, Types, TypeOK
  <1> QED
    BY <1>1, <1>2, <1>3 DEF TicketOf

LEMMA DeleteFrame ==
  ASSUME Types, NEW d \in Deletes, ReceiveDelete(d) \/ DeleteStep(d)
  PROVE  /\ pc \in [Requests -> Steps] /\ pc' \in [Requests -> Steps] /\ pc'[d] # "new"
         /\ \A r \in Requests \ {d} : pc'[r] = pc[r] /\ call'[r] = call[r]
         /\ pc[d] # "new" => call' = call
         /\ \A a \in Ids : TicketOf(a)' = TicketOf(a)
  <1> USE Kinds
  <1>1. pc \in [Requests -> Steps] /\ pc' \in [Requests -> Steps]
    BY DeleteTypes DEF Types, TypeOK, Steps
  <1>2. pc'[d] # "new" /\ \A r \in Requests \ {d} : pc'[r] = pc[r]
    BY DEF ReceiveDelete, DeleteStep, FindRow, DeleteRow, RemoveFile, LogDelete, goto, Types, TypeOK
  <1>3. (pc[d] # "new" => call' = call) /\ \A r \in Requests \ {d} : call'[r] = call[r]
    BY DEF ReceiveDelete, DeleteStep, FindRow, DeleteRow, RemoveFile, LogDelete, Types, TypeOK
  <1> QED
    BY <1>1, <1>2, <1>3 DEF TicketOf

\* An upload's file and row come in order.
LEMMA UploadFits ==
  ASSUME Inv, NEW u \in Uploads, ReceiveUpload(u) \/ UploadStep(u)
  PROVE  FilesFit' /\ RowsFit' /\ DeletesFit'
  <1> USE Kinds, UploadFrame DEF Inv
  <1>0. (Types /\ Types') /\ FilesFit /\ RowsFit /\ DeletesFit
    BY UploadTypes
  <1>1. CASE ReceiveUpload(u) \/ FindTicket(u) \/ MakeDirectory(u) \/ LogUpload(u)
    <2>1. UNCHANGED <<attachments, disk>> /\ pc'[u] \in {"ticket", "400", "mkdir", "404", "open", "500", "200"}
      BY <1>1 DEF ReceiveUpload, FindTicket, MakeDirectory, LogUpload, goto, dataVars, Types, TypeOK
    <2>2. pc[u] \in {"new", "ticket", "mkdir", "log"} /\ (pc[u] # "log" => pc'[u] # "200")
          /\ (pc[u] = "log" => pc'[u] = "200")
      BY <1>1 DEF ReceiveUpload, FindTicket, MakeDirectory, LogUpload, goto, dataVars, Types, TypeOK
    <2>3. FilesFit'
      BY <1>0, <2>1, <2>2 DEF FilesFit, NotYet
    <2>4. RowsFit'
      BY <1>0, <2>1, <2>2 DEF FilesFit, NotYet, RowsFit, Types, TypeOK
    <2>5. DeletesFit'
      BY <1>0, <2>1, <2>2 DEF NotYet, DeletesFit, Types, CallsFit, DeleteCalls
    <2> QED
      BY <2>3, <2>4, <2>5
  <1>2. CASE OpenFile(u) \/ WriteFile(u)
    <2>1. UNCHANGED <<attachments, call>> /\ pc[u] \in {"open", "write"}
          /\ pc'[u] \in {"write", "insert", "500"}
      BY <1>2 DEF OpenFile, WriteFile, goto, Types, TypeOK
    <2>2. DOMAIN disk' \in {DOMAIN disk, DOMAIN disk \cup {u}}
          /\ \A a \in DOMAIN disk \ {u} : disk'[a] = disk[a]
      BY <1>2 DEF OpenFile, WriteFile, Put
    <2>3. pc'[u] \in {"write", "insert"} => u \in DOMAIN disk'
      BY <1>2, <1>0, <2>1 DEF OpenFile, WriteFile, Put, goto, Types, TypeOK, FilesFit
    <2>4. pc'[u] = "insert" => disk'[u] = "whole"
      BY <1>2, <1>0, <2>1 DEF OpenFile, WriteFile, Put, goto, Types, TypeOK, FilesFit
    <2>5. FilesFit'
      BY <1>0, <2>1, <2>2, <2>3, <2>4 DEF FilesFit, NotYet
    <2>6. RowsFit'
      BY <1>0, <2>1 DEF RowsFit, Types, TypeOK
    <2>7. DeletesFit'
      BY <1>0, <2>1 DEF NotYet, DeletesFit, Types, CallsFit, DeleteCalls
    <2> QED
      BY <2>5, <2>6, <2>7
  <1>3. CASE InsertRow(u)
    <2>1. UNCHANGED <<disk, call>> /\ pc[u] = "insert" /\ pc'[u] \in {"log", "cleanup", "cleanup400"}
      BY <1>3 DEF InsertRow, goto, Types, TypeOK
    <2>2. DOMAIN attachments' \in {DOMAIN attachments, DOMAIN attachments \cup {u}}
          /\ \A a \in DOMAIN attachments : attachments'[a] = attachments[a]
      BY <1>3, <1>0, <2>1 DEF InsertRow, Put, FilesFit, NotYet
    <2>3. /\ pc'[u] = "cleanup400" => u \notin DOMAIN attachments'
          /\ u \in DOMAIN attachments' => attachments'[u].ticket = call[u].ticket
      BY <1>3, <1>0, <2>1 DEF InsertRow, Put, FilesFit, NotYet, goto, Types, TypeOK, Row
    <2>4. FilesFit'
      BY <1>0, <2>1, <2>2, <2>3 DEF FilesFit, NotYet
    <2>5. RowsFit'
      BY <1>0, <2>1, <2>2, <2>3 DEF RowsFit, Types, TypeOK, TicketOf
    <2>6. DeletesFit'
      BY <1>0, <2>1, <2>2 DEF NotYet, DeletesFit, Types, CallsFit, DeleteCalls
    <2> QED
      BY <2>4, <2>5, <2>6
  <1>4. CASE CleanUp(u)
    <2>1. UNCHANGED <<attachments, call>> /\ pc[u] \in {"cleanup", "cleanup400"}
          /\ pc'[u] \in {"400", "500"} /\ (pc[u] = "cleanup" => pc'[u] = "500")
      BY <1>4 DEF CleanUp, goto, Types, TypeOK
    <2>2. \A a \in Ids \ {u} : /\ a \in DOMAIN disk' <=> a \in DOMAIN disk
                               /\ a \in DOMAIN disk => disk'[a] = disk[a]
      BY <1>4 DEF CleanUp, Without, Restrict
    <2>3. FilesFit'
      BY <1>0, <2>1, <2>2 DEF FilesFit, NotYet
    <2>4. RowsFit'
      BY <1>0, <2>1 DEF RowsFit, Types, TypeOK
    <2>5. DeletesFit'
      BY <1>0, <2>1 DEF NotYet, DeletesFit, Types, CallsFit, DeleteCalls
    <2> QED
      BY <2>3, <2>4, <2>5
  <1> QED
    BY <1>1, <1>2, <1>3, <1>4 DEF UploadStep

LEMMA DeleteFits ==
  ASSUME Inv, NEW d \in Deletes, ReceiveDelete(d) \/ DeleteStep(d)
  PROVE  FilesFit' /\ RowsFit' /\ DeletesFit'
  <1> USE Kinds, DeleteFrame DEF Inv
  <1>0. (Types /\ Types') /\ FilesFit /\ RowsFit /\ DeletesFit
    BY DeleteTypes
  <1>a. call[d] \in DeleteCalls \/ pc[d] = "new"
    BY <1>0 DEF Types, CallsFit
  <1>1. DOMAIN attachments' \subseteq DOMAIN attachments
        /\ \A a \in DOMAIN attachments' : attachments'[a] = attachments[a]
    BY DEF ReceiveDelete, DeleteStep, FindRow, DeleteRow, RemoveFile, LogDelete, dataVars,
      Without, Restrict
  <1>2. \A u \in Uploads : pc[u] \in NotYet =>
          (u \in DOMAIN disk => u \in DOMAIN disk' /\ disk'[u] = disk[u])
    <2>1. CASE RemoveFile(d)
      BY <2>1, <1>0, <1>a DEF RemoveFile, Without, Restrict, DeletesFit, DeleteCalls
    <2>2. CASE ~RemoveFile(d)
      BY <2>2 DEF ReceiveDelete, DeleteStep, FindRow, DeleteRow, LogDelete, dataVars
    <2> QED
      BY <2>1, <2>2
  <1>3. FilesFit'
    BY <1>0, <1>1, <1>2 DEF FilesFit, NotYet
  <1>4. RowsFit'
    BY <1>0, <1>1 DEF RowsFit, Types, TypeOK
  <1>5. ASSUME NEW e \in Deletes \ {d}
        PROVE  /\ pc'[e] \in {"delete", "unlink"} =>
                    /\ call'[e].ticket = TicketOf(call[e].id)'
                    /\ call'[e].id \in Uploads => pc'[call'[e].id] \notin NotYet
               /\ pc'[e] = "unlink" => call'[e].id \notin DOMAIN attachments'
    <2>1. pc'[e] = pc[e] /\ call'[e] = call[e]
      BY <1>0
    <2>2. pc[e] # "new" => call[e] \in DeleteCalls
      BY <1>0 DEF Types, CallsFit
    <2>3. \A u \in Uploads : pc'[u] = pc[u]
      BY <1>0
    <2> QED
      BY <1>0, <1>1, <2>1, <2>2, <2>3 DEF DeletesFit, DeleteCalls
  <1>6. ASSUME FindRow(d) PROVE DeletesFit'
    <2>1. pc'[d] \in {"delete", "404"} /\ UNCHANGED <<attachments, call>>
      BY <1>6, <1>0 DEF FindRow, goto, dataVars, Types, TypeOK
    <2>2. pc'[d] = "delete" => call[d].id \in DOMAIN attachments
                               /\ attachments[call[d].id].ticket = call[d].ticket
      BY <1>6, <1>0 DEF FindRow, goto, Types, TypeOK
    <2>3. pc'[d] = "delete" => /\ call'[d].ticket = TicketOf(call[d].id)'
                               /\ call[d].id \in Uploads => pc[call[d].id] \notin NotYet
      BY <2>1, <2>2, <1>0 DEF RowsFit, FilesFit, Types, TypeOK
    <2> QED
      BY <2>1, <2>3, <1>0, <1>5 DEF DeletesFit, TicketOf
  <1>7. ASSUME DeleteRow(d) PROVE DeletesFit'
    <2>1. pc[d] = "delete" /\ pc'[d] \in {"unlink", "500"} /\ UNCHANGED call
          /\ (pc'[d] = "unlink" => call[d].id \notin DOMAIN attachments')
      BY <1>7, <1>0 DEF DeleteRow, goto, Types, TypeOK, Without, Restrict
    <2>2. call[d].ticket = TicketOf(call[d].id) /\ call[d].id \in Ids
          /\ (call[d].id \in Uploads => pc[call[d].id] \notin NotYet)
      BY <2>1, <1>0, <1>a DEF DeletesFit, DeleteCalls
    <2> QED
      BY <2>1, <2>2, <1>0, <1>5 DEF DeletesFit, TicketOf
  <1>8. ASSUME ReceiveDelete(d) \/ RemoveFile(d) \/ LogDelete(d) PROVE DeletesFit'
    <2>1. pc'[d] \in {"find", "log", "200"}
      BY <1>8, <1>0 DEF ReceiveDelete, RemoveFile, LogDelete, goto, Types, TypeOK
    <2> QED
      BY <2>1, <1>0, <1>5 DEF DeletesFit, TicketOf
  <1>9. DeletesFit'
    BY <1>6, <1>7, <1>8 DEF DeleteStep
  <1> QED
    BY <1>3, <1>4, <1>9

LEMMA OtherFits ==
  ASSUME Inv, DeleteUser \/ Crash \/ UNCHANGED vars
  PROVE  FilesFit' /\ RowsFit' /\ DeletesFit'
  <1> USE Kinds DEF Inv
  <1>1. UNCHANGED <<attachments, disk, call>>
    BY DEF DeleteUser, Crash, vars, dataVars
  <1>2. \A r \in Requests : pc'[r] = pc[r] \/ pc'[r] = "dead"
    BY DEF DeleteUser, Crash, vars, Types, TypeOK
  <1>3. \A r \in Uploads : pc[r] \notin NotYet => pc'[r] \notin NotYet
    BY <1>2 DEF NotYet
  <1>4. \A a \in Ids : TicketOf(a)' = TicketOf(a)
    BY <1>1 DEF TicketOf
  <1>5. FilesFit'
    BY <1>1, <1>2 DEF FilesFit, NotYet
  <1>6. RowsFit'
    BY <1>1, <1>4 DEF RowsFit, Types, TypeOK
  <1>7. DeletesFit'
    BY <1>1, <1>2, <1>3, <1>4 DEF DeletesFit, Types, CallsFit, DeleteCalls
  <1> QED
    BY <1>5, <1>6, <1>7

-----------------------------------------------------------------------------
\* The file of a row goes only after the row, or with an upload that failed.
LEMMA FilesStay ==
  ASSUME Inv, [Next]_vars
  PROVE  AcknowledgedRowHasFile'
  <1> USE Kinds DEF Inv
  <1>0. Types /\ FilesFit /\ DeletesFit /\ AcknowledgedRowHasFile
    OBVIOUS
  <1> SUFFICES ASSUME NEW a \in DOMAIN attachments'
               PROVE  HasFile(a)' \/ (a \in Uploads /\ pc'[a] \in {"500", "dead"})
    BY DEF AcknowledgedRowHasFile
  <1>1. CASE DeleteUser \/ Crash \/ UNCHANGED vars
    <2>1. UNCHANGED <<attachments, disk>>
      BY <1>1 DEF DeleteUser, Crash, vars, dataVars
    <2>2. \A r \in Requests : pc[r] \in {"500", "dead"} => pc'[r] \in {"500", "dead"}
      BY <1>1 DEF DeleteUser, Crash, vars, Types, TypeOK, InFlight, Answers
    <2> QED
      BY <1>0, <2>1, <2>2 DEF AcknowledgedRowHasFile, HasFile
  <1>2. ASSUME NEW u \in Uploads, ReceiveUpload(u) \/ UploadStep(u)
        PROVE  HasFile(a)' \/ (a \in Uploads /\ pc'[a] \in {"500", "dead"})
    <2>0. pc'[u] \in Steps /\ \A r \in Uploads \ {u} : pc'[r] = pc[r]
      BY <1>2, UploadFrame
    <2>1. CASE InsertRow(u)
      <3>1. disk' = disk /\ pc[u] = "insert" /\ DOMAIN attachments' \subseteq DOMAIN attachments \cup {u}
        BY <2>1 DEF InsertRow, Put
      <3>2. a # u => a \in DOMAIN attachments
        BY <3>1
      <3>3. a = u => HasFile(a)
        BY <3>1, <1>0 DEF FilesFit, HasFile
      <3> QED
        BY <3>1, <3>2, <3>3, <2>0, <1>0 DEF AcknowledgedRowHasFile, HasFile
    <2>2. CASE OpenFile(u) \/ WriteFile(u)
      <3>1. attachments' = attachments /\ u \notin DOMAIN attachments
        BY <2>2, <1>0 DEF OpenFile, WriteFile, FilesFit, NotYet
      <3>2. \A b \in DOMAIN disk \ {u} : b \in DOMAIN disk' /\ disk'[b] = disk[b]
        BY <2>2 DEF OpenFile, WriteFile, Put
      <3> QED
        BY <3>1, <3>2, <2>0, <1>0 DEF AcknowledgedRowHasFile, HasFile
    <2>3. CASE CleanUp(u)
      <3>1. attachments' = attachments
        BY <2>3 DEF CleanUp
      <3>2. \A b \in DOMAIN disk \ {u} : b \in DOMAIN disk' /\ disk'[b] = disk[b]
        BY <2>3 DEF CleanUp, Without, Restrict
      <3>3. u \in DOMAIN attachments => pc'[u] = "500"
        BY <2>3, <1>0 DEF CleanUp, goto, FilesFit, Types, TypeOK
      <3> QED
        BY <3>1, <3>2, <3>3, <2>0, <1>0 DEF AcknowledgedRowHasFile, HasFile
    <2>4. CASE ReceiveUpload(u) \/ FindTicket(u) \/ MakeDirectory(u) \/ LogUpload(u)
      <3>1. UNCHANGED <<attachments, disk>> /\ pc[u] \in {"new", "ticket", "mkdir", "log"}
        BY <2>4 DEF ReceiveUpload, FindTicket, MakeDirectory, LogUpload, dataVars
      <3> QED
        BY <3>1, <2>0, <1>0 DEF AcknowledgedRowHasFile, HasFile
    <2> QED
      BY <1>2, <2>1, <2>2, <2>3, <2>4 DEF UploadStep
  <1>3. ASSUME NEW d \in Deletes, ReceiveDelete(d) \/ DeleteStep(d)
        PROVE  HasFile(a)' \/ (a \in Uploads /\ pc'[a] \in {"500", "dead"})
    <2>0. \A r \in Uploads : pc'[r] = pc[r]
      BY <1>3, DeleteFrame
    <2>1. CASE RemoveFile(d)
      <3>1. attachments' = attachments /\ pc[d] = "unlink"
        BY <2>1 DEF RemoveFile
      <3>2. call[d].id \notin DOMAIN attachments
        BY <3>1, <1>0 DEF DeletesFit
      <3>3. \A b \in DOMAIN disk \ {call[d].id} : b \in DOMAIN disk' /\ disk'[b] = disk[b]
        BY <2>1 DEF RemoveFile, Without, Restrict
      <3> QED
        BY <3>1, <3>2, <3>3, <2>0, <1>0 DEF AcknowledgedRowHasFile, HasFile
    <2>2. CASE ReceiveDelete(d) \/ FindRow(d) \/ DeleteRow(d) \/ LogDelete(d)
      <3>1. disk' = disk /\ DOMAIN attachments' \subseteq DOMAIN attachments
        BY <2>2 DEF ReceiveDelete, FindRow, DeleteRow, LogDelete, dataVars, Without, Restrict
      <3> QED
        BY <3>1, <2>0, <1>0 DEF AcknowledgedRowHasFile, HasFile
    <2> QED
      BY <1>3, <2>1, <2>2 DEF DeleteStep
  <1> QED
    BY <1>1, <1>2, <1>3 DEF Next

\* A deletion that names an attachment and its ticket, and was not refused.
LEMMA RemovedKept ==
  ASSUME Inv, [Next]_vars
  PROVE  Removed'
  <1> USE Kinds DEF Inv
  <1>0. Types /\ FilesFit /\ DeletesFit /\ Removed
    OBVIOUS
  <1>1. CASE DeleteUser \/ Crash \/ UNCHANGED vars
    <2>1. UNCHANGED <<attachments, call>>
      BY <1>1 DEF DeleteUser, Crash, vars, dataVars
    <2>2. \A r \in Requests : /\ pc'[r] \in {"log", "200"} => pc[r] = pc'[r]
                              /\ pc'[r] \in {"new", "find", "404"} => pc[r] = pc'[r]
      BY <1>1 DEF DeleteUser, Crash, vars, Types, TypeOK
    <2>3. \A a \in Ids : TicketOf(a)' = TicketOf(a)
      BY <2>1 DEF TicketOf
    <2> QED
      BY <1>0, <2>1, <2>2, <2>3 DEF Removed
  <1>2. ASSUME NEW u \in Uploads, ReceiveUpload(u) \/ UploadStep(u)
        PROVE  Removed'
    <2>0. /\ pc'[u] \in Steps /\ \A r \in Requests \ {u} : pc'[r] = pc[r] /\ call'[r] = call[r]
          /\ \A a \in Ids : a # u \/ pc[u] # "new" => TicketOf(a)' = TicketOf(a)
      BY <1>2, UploadFrame
    <2>1. Ids \ DOMAIN attachments' \subseteq Ids \ DOMAIN attachments
      BY <1>2 DEF ReceiveUpload, UploadStep, FindTicket, MakeDirectory, OpenFile, WriteFile,
        InsertRow, CleanUp, LogUpload, dataVars, Put
    <2>2. pc'[u] \in {"log", "200"} /\ u \notin DOMAIN attachments'
            => pc[u] = "log" /\ u \notin DOMAIN attachments
      <3>1. CASE InsertRow(u)
        BY <3>1 DEF InsertRow, Put, goto, Types, TypeOK
      <3>2. CASE LogUpload(u)
        BY <3>2 DEF LogUpload, goto, Types, TypeOK
      <3>3. CASE ReceiveUpload(u) \/ FindTicket(u) \/ MakeDirectory(u) \/ OpenFile(u)
                 \/ WriteFile(u) \/ CleanUp(u)
        <4>1. pc'[u] \notin {"log", "200"}
          BY <3>3 DEF ReceiveUpload, FindTicket, MakeDirectory, OpenFile, WriteFile, CleanUp,
            goto, Types, TypeOK
        <4> QED
          BY <4>1
      <3> QED
        BY <1>2, <3>1, <3>2, <3>3 DEF UploadStep
    <2> SUFFICES ASSUME NEW a \in Ids \ DOMAIN attachments', a \in Uploads => pc'[a] \in {"log", "200"}
                 PROVE  \E d \in Deletes : /\ call'[d] = [ticket |-> TicketOf(a)', id |-> a]
                                           /\ pc'[d] \notin {"new", "find", "404"}
      BY DEF Removed
    <2>3. a \in Ids \ DOMAIN attachments /\ (a \in Uploads => pc[a] \in {"log", "200"})
      BY <2>0, <2>1, <2>2
    <2>4. TicketOf(a)' = TicketOf(a)
      BY <2>0, <2>3
    <2>5. PICK d \in Deletes : /\ call[d] = [ticket |-> TicketOf(a), id |-> a]
                               /\ pc[d] \notin {"new", "find", "404"}
      BY <1>0, <2>3 DEF Removed
    <2>6. pc'[d] = pc[d] /\ call'[d] = call[d]
      BY <2>0
    <2> QED
      BY <2>4, <2>5, <2>6
  <1>3. ASSUME NEW d \in Deletes, ReceiveDelete(d) \/ DeleteStep(d)
        PROVE  Removed'
    <2>0. /\ pc'[d] \in Steps /\ \A r \in Requests \ {d} : pc'[r] = pc[r] /\ call'[r] = call[r]
          /\ pc[d] # "new" => call' = call
          /\ \A a \in Ids : TicketOf(a)' = TicketOf(a)
      BY <1>3, DeleteFrame
    <2>1. pc[d] \notin {"new", "find", "404"} => pc'[d] \notin {"new", "find", "404"}
      BY <1>3 DEF ReceiveDelete, DeleteStep, FindRow, DeleteRow, RemoveFile, LogDelete, goto,
        Types, TypeOK
    <2>2. \A a \in DOMAIN attachments \ DOMAIN attachments' :
            a = call[d].id /\ pc[d] = "delete" /\ pc'[d] \in {"unlink", "500"}
      BY <1>3 DEF ReceiveDelete, DeleteStep, FindRow, DeleteRow, RemoveFile, LogDelete, dataVars,
        Without, Restrict, goto, Types, TypeOK
    <2> SUFFICES ASSUME NEW a \in Ids \ DOMAIN attachments', a \in Uploads => pc'[a] \in {"log", "200"}
                 PROVE  \E e \in Deletes : /\ call'[e] = [ticket |-> TicketOf(a)', id |-> a]
                                           /\ pc'[e] \notin {"new", "find", "404"}
      BY DEF Removed
    <2>3. CASE a \in DOMAIN attachments
      <3>1. a = call[d].id /\ pc[d] = "delete" /\ pc'[d] \in {"unlink", "500"}
        BY <2>2, <2>3
      <3>2. call[d] \in DeleteCalls /\ call[d].ticket = TicketOf(call[d].id)
        BY <3>1, <1>0 DEF Types, CallsFit, DeletesFit
      <3>3. call'[d] = [ticket |-> TicketOf(a), id |-> a]
        BY <3>1, <3>2, <2>0 DEF DeleteCalls
      <3> QED
        BY <3>1, <3>3, <2>0
    <2>4. CASE a \notin DOMAIN attachments
      <3>1. a \in Uploads => pc[a] \in {"log", "200"}
        BY <2>0
      <3>2. PICK e \in Deletes : /\ call[e] = [ticket |-> TicketOf(a), id |-> a]
                                 /\ pc[e] \notin {"new", "find", "404"}
        BY <1>0, <2>4, <3>1 DEF Removed
      <3>3. call'[e] = call[e] /\ pc'[e] \notin {"new", "find", "404"}
        BY <3>2, <2>0, <2>1
      <3> QED
        BY <3>2, <3>3, <2>0
    <2> QED
      BY <2>3, <2>4
  <1> QED
    BY <1>1, <1>2, <1>3 DEF Next

LEMMA StepInv == Inv /\ [Next]_vars => Inv'
  <1> SUFFICES ASSUME Inv, [Next]_vars PROVE Inv'
    OBVIOUS
  <1>1. Types'
    BY UploadTypes, DeleteTypes, OtherTypes DEF Inv, Next
  <1>2. FilesFit' /\ RowsFit' /\ DeletesFit'
    BY UploadFits, DeleteFits, OtherFits DEF Next
  <1> QED
    BY <1>1, <1>2, FilesStay, RemovedKept DEF Inv

LEMMA Invariance == Spec => []Inv
  BY InitInv, StepInv, PTL DEF Spec

\* Every variable keeps its type, whatever fails and whenever the server dies.
THEOREM AttachmentTypes == Spec => []TypeOK
  <1>1. Inv => TypeOK
    BY DEF Inv, Types
  <1> QED
    BY <1>1, Invariance, PTL

\* AttachmentsService removes the row before the file, and cleans up only after an
\* INSERT that failed: the file of an acknowledged attachment stays.
THEOREM RowsHaveFiles == Spec => []AcknowledgedRowHasFile
  <1>1. Inv => AcknowledgedRowHasFile
    BY DEF Inv
  <1> QED
    BY <1>1, Invariance, PTL

\* An acknowledged attachment is removed only through its own ticket.
THEOREM OnlyItsDelete == Spec => []OnlyItsDeleteRemoves
  <1>1. Inv => OnlyItsDeleteRemoves
    BY DEF Inv, Removed, OnlyItsDeleteRemoves
  <1> QED
    BY <1>1, Invariance, PTL

-----------------------------------------------------------------------------
\* What has been paid for and shows only later: an INSERT that failed may have
\* inserted its row, whose file the cleanup takes.
Unsettled == {u \in Uploads : pc[u] = "cleanup"}

Dead == {r \in Requests : pc[r] = "dead"}

Damage == Cardinality(Strays) + Cardinality(Fileless) + Cardinality(Unaudited)
            + Cardinality(Unsettled)

\* What one file, row or upload counts for.
OneIf(condition) == IF condition THEN 1 ELSE 0

DamageAt(x) == OneIf(x \in Strays) + OneIf(x \in Fileless) + OneIf(x \in Unaudited)
                 + OneIf(x \in Unsettled)

\* How the parts of the damage at one place bound it.
LEMMA DamageAtFacts ==
  ASSUME NEW x
  PROVE  /\ DamageAt(x) \in Nat /\ DamageAt(x)' \in Nat
         /\ x \in Unsettled => DamageAt(x) >= 1
         /\ (x \notin Strays' \cup Fileless' \cup Unaudited') => DamageAt(x)' <= 1
         /\ (x \notin Strays' \cup Fileless' \cup Unaudited' \cup Unsettled') => DamageAt(x)' = 0
         /\ (x \notin Unaudited' \cup Unsettled' /\ x \notin Strays' \cap Fileless')
              => DamageAt(x)' <= 1
         /\ (/\ x \in Strays' => x \in Strays
             /\ x \in Fileless' => x \in Fileless
             /\ x \in Unsettled' => x \in Unsettled)
              => /\ DamageAt(x)' <= DamageAt(x) + 1
                 /\ (x \in Unaudited' => x \in Unaudited) => DamageAt(x)' <= DamageAt(x)
         /\ (/\ x \in Fileless' => x \in Fileless
             /\ x \in Unaudited' => x \in Unaudited
             /\ x \in Unsettled' => x \in Unsettled)
              => DamageAt(x)' <= DamageAt(x) + 1
  <1> DEFINE s == OneIf(x \in Strays)     s1 == OneIf(x \in Strays')
             f == OneIf(x \in Fileless)   f1 == OneIf(x \in Fileless')
             a == OneIf(x \in Unaudited)  a1 == OneIf(x \in Unaudited')
             h == OneIf(x \in Unsettled)  h1 == OneIf(x \in Unsettled')
  <1>1. /\ s \in {0, 1} /\ f \in {0, 1} /\ a \in {0, 1} /\ h \in {0, 1}
        /\ s1 \in {0, 1} /\ f1 \in {0, 1} /\ a1 \in {0, 1} /\ h1 \in {0, 1}
    BY DEF OneIf
  <1>2. /\ (x \in Strays <=> s = 1) /\ (x \in Strays' <=> s1 = 1)
        /\ (x \in Fileless <=> f = 1) /\ (x \in Fileless' <=> f1 = 1)
        /\ (x \in Unaudited <=> a = 1) /\ (x \in Unaudited' <=> a1 = 1)
        /\ (x \in Unsettled <=> h = 1) /\ (x \in Unsettled' <=> h1 = 1)
    BY DEF OneIf
  <1>3. DamageAt(x) = s + f + a + h /\ DamageAt(x)' = s1 + f1 + a1 + h1
    BY DEF DamageAt
  <1> HIDE DEF s, f, a, h, s1, f1, a1, h1
  <1> QED
    BY <1>1, <1>2, <1>3

\* A set of which at most one member changes.
LEMMA OneChanges ==
  ASSUME NEW S, IsFiniteSet(S), NEW T, IsFiniteSet(T), NEW x, T \ {x} = S \ {x}
  PROVE  /\ Cardinality(S) \in Nat /\ Cardinality(T) \in Nat
         /\ Cardinality(T) - Cardinality(S) = OneIf(x \in T) - OneIf(x \in S)
  <1>1. Cardinality(S) \in Nat /\ Cardinality(T) \in Nat
    BY FS_CardinalityType
  <1>2. /\ Cardinality(S \ {x}) = IF x \in S THEN Cardinality(S) - 1 ELSE Cardinality(S)
        /\ Cardinality(T \ {x}) = IF x \in T THEN Cardinality(T) - 1 ELSE Cardinality(T)
    BY FS_RemoveElement
  <1>3. Cardinality(T \ {x}) = Cardinality(S \ {x})
    OBVIOUS
  <1> QED
    BY <1>1, <1>2, <1>3 DEF OneIf

\* Everything that is counted is finite.
LEMMA DamageFinite ==
  ASSUME TypeOK
  PROVE  /\ IsFiniteSet(Strays) /\ IsFiniteSet(Fileless) /\ IsFiniteSet(Unaudited)
         /\ IsFiniteSet(Unsettled) /\ IsFiniteSet(Dead) /\ IsFiniteSet(Requests)
         /\ Cardinality(Strays) \in Nat /\ Cardinality(Fileless) \in Nat
         /\ Cardinality(Unaudited) \in Nat /\ Cardinality(Unsettled) \in Nat
         /\ Cardinality(Dead) \in Nat
  <1>1. IsFiniteSet(Ids) /\ IsFiniteSet(Requests) /\ IsFiniteSet(Uploads)
    BY AttachmentAssumption, FS_Union DEF Ids, Requests
  <1>2. /\ Strays \subseteq Ids /\ Fileless \subseteq Ids
        /\ Unaudited \subseteq Uploads /\ Unsettled \subseteq Uploads /\ Dead \subseteq Requests
    BY DEF TypeOK, Strays, Fileless, Unaudited, Unsettled, Dead
  <1>3. \A S \in {Strays, Fileless, Unaudited, Unsettled, Dead} : IsFiniteSet(S)
    BY <1>1, <1>2, FS_Subset
  <1> QED
    BY <1>1, <1>3, FS_CardinalityType

\* The damage a step does where it works is all the damage it does.
LEMMA LocalDamage ==
  ASSUME TypeOK, TypeOK', NEW x,
         Strays' \ {x} = Strays \ {x}, Fileless' \ {x} = Fileless \ {x},
         Unaudited' \ {x} = Unaudited \ {x}, Unsettled' \ {x} = Unsettled \ {x}
  PROVE  /\ Damage \in Nat /\ Damage' \in Nat
         /\ Damage' - Damage = DamageAt(x)' - DamageAt(x)
  <1> DEFINE S0 == Cardinality(Strays)    S1 == Cardinality(Strays')
             F0 == Cardinality(Fileless)  F1 == Cardinality(Fileless')
             A0 == Cardinality(Unaudited) A1 == Cardinality(Unaudited')
             H0 == Cardinality(Unsettled) H1 == Cardinality(Unsettled')
  <1>0. /\ IsFiniteSet(Strays) /\ IsFiniteSet(Fileless) /\ IsFiniteSet(Unaudited)
        /\ IsFiniteSet(Unsettled)
    BY DamageFinite
  <1>00. /\ IsFiniteSet(Strays') /\ IsFiniteSet(Fileless') /\ IsFiniteSet(Unaudited')
         /\ IsFiniteSet(Unsettled')
    <2>1. (TypeOK => /\ IsFiniteSet(Strays) /\ IsFiniteSet(Fileless) /\ IsFiniteSet(Unaudited)
                     /\ IsFiniteSet(Unsettled))'
      BY DamageFinite, PTL
    <2> QED
      BY <2>1
  <1>1. S0 \in Nat /\ S1 \in Nat /\ S1 - S0 = OneIf(x \in Strays') - OneIf(x \in Strays)
    BY <1>0, <1>00, OneChanges
  <1>2. F0 \in Nat /\ F1 \in Nat /\ F1 - F0 = OneIf(x \in Fileless') - OneIf(x \in Fileless)
    BY <1>0, <1>00, OneChanges
  <1>3. A0 \in Nat /\ A1 \in Nat /\ A1 - A0 = OneIf(x \in Unaudited') - OneIf(x \in Unaudited)
    BY <1>0, <1>00, OneChanges
  <1>4. H0 \in Nat /\ H1 \in Nat /\ H1 - H0 = OneIf(x \in Unsettled') - OneIf(x \in Unsettled)
    BY <1>0, <1>00, OneChanges
  <1>5. Damage = S0 + F0 + A0 + H0 /\ Damage' = S1 + F1 + A1 + H1
    BY DEF Damage
  <1> HIDE DEF S0, S1, F0, F1, A0, A1, H0, H1
  <1> QED
    BY <1>1, <1>2, <1>3, <1>4, <1>5 DEF DamageAt, OneIf

\* Each step of an upload does at most the damage of its failure.
LEMMA UploadDamage ==
  ASSUME Inv, Inv', NEW u \in Uploads, ReceiveUpload(u) \/ UploadStep(u)
  PROVE  /\ Damage' - Damage <= faults' - faults /\ Damage \in Nat /\ Damage' \in Nat
         /\ Dead' = Dead
  <1> USE Kinds
  <1>0. /\ pc \in [Requests -> Steps] /\ pc' \in [Requests -> Steps]
        /\ \A r \in Requests \ {u} : pc'[r] = pc[r] /\ call'[r] = call[r]
        /\ TypeOK /\ TypeOK' /\ FilesFit /\ CallsFit /\ faults \in Nat /\ faults' \in Nat
    BY UploadFrame DEF Inv, Types, TypeOK
  <1>1. /\ \A a \in Ids \ {u} : /\ a \in DOMAIN disk' <=> a \in DOMAIN disk
                                /\ a \in DOMAIN disk => disk'[a] = disk[a]
                                /\ a \in DOMAIN attachments' <=> a \in DOMAIN attachments
        /\ audited' \ {u} = audited \ {u}
        /\ faults' = faults \/ faults' = faults + 1
    BY DEF ReceiveUpload, UploadStep, FindTicket, MakeDirectory, OpenFile, WriteFile, InsertRow,
      CleanUp, LogUpload, dataVars, Put, Without, Restrict, Fails, Succeeds
  <1>2. \A a : a # u => (Busy(a)' <=> Busy(a))
    BY <1>0 DEF Busy
  <1>3. /\ Strays' \ {u} = Strays \ {u} /\ Fileless' \ {u} = Fileless \ {u}
        /\ Unaudited' \ {u} = Unaudited \ {u} /\ Unsettled' \ {u} = Unsettled \ {u}
    <2>1. DOMAIN disk \subseteq Ids /\ DOMAIN disk' \subseteq Ids
          /\ DOMAIN attachments \subseteq Ids /\ DOMAIN attachments' \subseteq Ids
      BY <1>0 DEF TypeOK
    <2>2. Strays' \ {u} = Strays \ {u}
      BY <1>1, <1>2, <2>1 DEF Strays
    <2>3. Fileless' \ {u} = Fileless \ {u}
      BY <1>1, <2>1 DEF Fileless, HasFile
    <2>4. Unaudited' \ {u} = Unaudited \ {u} /\ Unsettled' \ {u} = Unsettled \ {u}
      BY <1>0, <1>1 DEF Unaudited, Unsettled
    <2> QED
      BY <2>2, <2>3, <2>4
  <1>4. DamageAt(u)' - DamageAt(u) <= faults' - faults
    <2> DEFINE file == u \in DOMAIN disk
               row == u \in DOMAIN attachments
    <2>0. /\ u \in Strays <=> file /\ ~row /\ ~Busy(u)
          /\ u \in Fileless <=> row /\ ~HasFile(u)
          /\ u \in Unaudited <=> pc[u] = "200" /\ u \notin audited
          /\ u \in Unsettled <=> pc[u] = "cleanup"
      BY DEF Strays, Fileless, Unaudited, Unsettled
    <2>1. /\ u \in Strays' <=> file' /\ ~row' /\ ~Busy(u)'
          /\ u \in Fileless' <=> row' /\ ~HasFile(u)'
          /\ u \in Unaudited' <=> pc'[u] = "200" /\ u \notin audited'
          /\ u \in Unsettled' <=> pc'[u] = "cleanup"
      BY DEF Strays, Fileless, Unaudited, Unsettled
    <2>2. pc'[u] \in {"write", "insert", "cleanup", "cleanup400"} => Busy(u)'
      BY DEF Busy
    <2>3. CASE ReceiveUpload(u) \/ FindTicket(u) \/ MakeDirectory(u)
      <3>1. /\ UNCHANGED <<attachments, disk, audited>> /\ pc[u] \in {"new", "ticket", "mkdir"}
            /\ pc'[u] \in {"ticket", "400", "mkdir", "404", "open", "500"}
        BY <1>0, <2>3 DEF ReceiveUpload, FindTicket, MakeDirectory, goto, dataVars
      <3>2. Busy(u)' <=> Busy(u)
        BY <1>0, <3>1 DEF Busy
      <3> QED
        BY <1>0, <1>1, <2>0, <2>1, DamageAtFacts, <3>1, <3>2 DEF HasFile
    <2>4. CASE OpenFile(u) \/ WriteFile(u)
      <3>1. /\ UNCHANGED <<attachments, audited>> /\ pc[u] \in {"open", "write"} /\ ~row
            /\ \/ pc'[u] \in {"write", "insert"}
               \/ pc'[u] = "500" /\ faults' = faults + 1
        BY <1>0, <2>4 DEF OpenFile, WriteFile, goto, Fails, FilesFit, NotYet
      <3> QED
        BY <1>0, <1>1, <2>0, <2>1, DamageAtFacts, <2>2, <3>1
    <2>5. CASE InsertRow(u)
      <3>1. /\ UNCHANGED <<disk, audited>> /\ pc[u] = "insert" /\ HasFile(u)'
        BY <1>0, <2>5 DEF InsertRow, FilesFit, HasFile
      <3>2. \/ row' /\ pc'[u] = "log"
            \/ pc'[u] = "cleanup" /\ faults' = faults + 1
            \/ ~row' /\ pc'[u] = "cleanup400"
        BY <1>0, <2>5 DEF InsertRow, goto, Put, Fails, FilesFit, NotYet
      <3> QED
        BY <1>0, <1>1, <2>0, <2>1, DamageAtFacts, <2>2, <3>1, <3>2
    <2>6. CASE CleanUp(u)
      <3>1. /\ UNCHANGED <<attachments, audited>> /\ pc[u] \in {"cleanup", "cleanup400"}
            /\ pc'[u] \in {"400", "500"} /\ (pc[u] = "cleanup400" => ~row)
            /\ ~file' \/ faults' = faults + 1
        BY <1>0, <2>6 DEF CleanUp, goto, Fails, Without, Restrict, FilesFit
      <3> QED
        BY <1>0, <1>1, <2>0, <2>1, DamageAtFacts, <3>1
    <2>7. CASE LogUpload(u)
      <3>1. /\ UNCHANGED <<attachments, disk>> /\ pc[u] = "log" /\ pc'[u] = "200"
            /\ u \in audited' \/ faults' = faults + 1
        BY <1>0, <2>7 DEF LogUpload, goto, Fails
      <3>2. Busy(u)' <=> Busy(u)
        BY <1>0, <3>1 DEF Busy
      <3> QED
        BY <1>0, <1>1, <2>0, <2>1, DamageAtFacts, <3>1, <3>2 DEF HasFile
    <2> QED
      BY <2>3, <2>4, <2>5, <2>6, <2>7 DEF UploadStep
  <1>5. Dead' = Dead
    <2>1. pc[u] # "dead" /\ pc'[u] # "dead"
      BY <1>0 DEF ReceiveUpload, UploadStep, FindTicket, MakeDirectory, OpenFile, WriteFile,
        InsertRow, CleanUp, LogUpload, goto
    <2> QED
      BY <1>0, <2>1 DEF Dead
  <1> QED
    BY <1>0, <1>3, <1>4, <1>5, LocalDamage

\* Each step of a deletion does at most the damage of its failure: the row goes first,
\* and while the file follows it is not lost sight of.
LEMMA DeleteDamage ==
  ASSUME Inv, Inv', NEW d \in Deletes, ReceiveDelete(d) \/ DeleteStep(d)
  PROVE  /\ Damage' - Damage <= faults' - faults /\ Damage \in Nat /\ Damage' \in Nat
         /\ Dead' = Dead
  <1> USE Kinds
  <1>0. /\ pc \in [Requests -> Steps] /\ pc' \in [Requests -> Steps]
        /\ \A r \in Requests \ {d} : pc'[r] = pc[r] /\ call'[r] = call[r]
        /\ pc[d] # "new" => call' = call
        /\ TypeOK /\ TypeOK' /\ DeletesFit /\ faults \in Nat /\ faults' \in Nat
        /\ \A u \in Uploads : pc'[u] = pc[u]
    BY DeleteFrame DEF Inv, Types, TypeOK
  <1>1. PICK a : a = call[d].id
    OBVIOUS
  <1>2. /\ audited' = audited
        /\ faults' = faults \/ faults' = faults + 1
    BY DEF ReceiveDelete, DeleteStep, FindRow, DeleteRow, RemoveFile, LogDelete, dataVars,
      Fails, Succeeds
  <1>3. Unaudited' = Unaudited /\ Unsettled' = Unsettled
    BY <1>0, <1>2 DEF Unaudited, Unsettled
  <1>4. /\ \A b \in Ids \ {a} : /\ b \in DOMAIN disk' <=> b \in DOMAIN disk
                                /\ b \in DOMAIN disk => disk'[b] = disk[b]
                                /\ b \in DOMAIN attachments' <=> b \in DOMAIN attachments
    BY <1>1 DEF ReceiveDelete, DeleteStep, FindRow, DeleteRow, RemoveFile, LogDelete, dataVars,
      Without, Restrict
  <1>5. \A b : b # a => (Busy(b)' <=> Busy(b))
    <2>1. CASE pc[d] = "new"
      <3>1. pc'[d] # "unlink"
        BY <1>0, <2>1 DEF ReceiveDelete, DeleteStep, FindRow, DeleteRow, RemoveFile, LogDelete, goto
      <3> QED
        BY <1>0, <2>1, <3>1 DEF Busy
    <2>2. CASE pc[d] # "new"
      BY <1>0, <1>1, <2>2 DEF Busy
    <2> QED
      BY <2>1, <2>2
  <1>6. Strays' \ {a} = Strays \ {a} /\ Fileless' \ {a} = Fileless \ {a}
    <2>1. DOMAIN disk \subseteq Ids /\ DOMAIN disk' \subseteq Ids
          /\ DOMAIN attachments \subseteq Ids /\ DOMAIN attachments' \subseteq Ids
      BY <1>0 DEF TypeOK
    <2>2. Strays' \ {a} = Strays \ {a}
      BY <1>4, <1>5, <2>1 DEF Strays
    <2>3. Fileless' \ {a} = Fileless \ {a}
      BY <1>4, <2>1 DEF Fileless, HasFile
    <2> QED
      BY <2>2, <2>3
  <1>7. DamageAt(a)' - DamageAt(a) <= faults' - faults
    <2> DEFINE file == a \in DOMAIN disk
               row == a \in DOMAIN attachments
    <2>0. /\ a \in Strays <=> file /\ ~row /\ ~Busy(a)
          /\ a \in Fileless <=> row /\ ~HasFile(a)
      BY DEF Strays, Fileless
    <2>1. /\ a \in Strays' <=> file' /\ ~row' /\ ~Busy(a)'
          /\ a \in Fileless' <=> row' /\ ~HasFile(a)'
      BY DEF Strays, Fileless
    <2>2. CASE pc[d] # "unlink" /\ pc'[d] # "unlink" /\ UNCHANGED <<attachments, disk>>
      <3>1. Busy(a)' <=> Busy(a)
        BY <1>0, <2>2 DEF Busy
      <3> QED
        BY <1>0, <1>2, <1>3, <2>0, <2>1, DamageAtFacts, <2>2, <3>1 DEF HasFile
    <2>3. CASE ReceiveDelete(d) \/ FindRow(d) \/ LogDelete(d)
      <3>1. pc[d] # "unlink" /\ pc'[d] # "unlink" /\ UNCHANGED <<attachments, disk>>
        BY <1>0, <2>3 DEF ReceiveDelete, FindRow, LogDelete, goto, dataVars
      <3> QED
        BY <2>2, <3>1
    <2>4. CASE DeleteRow(d) /\ attachments' = Without(attachments, a)
      <3>1. ~row'
        BY <2>4 DEF Without, Restrict
      <3>2. pc'[d] = "unlink" \/ faults' = faults + 1
        BY <1>0, <2>4 DEF DeleteRow, goto, Fails
      <3>3. pc'[d] = "unlink" => Busy(a)'
        <4>1. call'[d].id = a
          BY <1>0, <1>1, <2>4 DEF DeleteRow
        <4> QED
          BY <4>1 DEF Busy
      <3> QED
        BY <1>0, <1>2, <1>3, <2>0, <2>1, DamageAtFacts, <3>1, <3>2, <3>3
    <2>5. CASE DeleteRow(d) /\ attachments' = attachments
      <3>1. CASE pc'[d] # "unlink"
        <4>1. pc[d] = "delete" /\ disk' = disk
          BY <2>5 DEF DeleteRow
        <4> QED
          BY <2>2, <2>5, <3>1, <4>1
      <3>2. CASE pc'[d] = "unlink"
        <4>1. attachments' = Without(attachments, a)
          BY <1>0, <1>1, <2>5, <3>2 DEF DeleteRow, goto
        <4> QED
          BY <2>4, <2>5, <4>1
      <3> QED
        BY <3>1, <3>2
    <2>6. CASE RemoveFile(d)
      <3>1. ~row /\ ~row'
        BY <1>0, <1>1, <2>6 DEF RemoveFile, DeletesFit
      <3>2. ~file' \/ faults' = faults + 1
        BY <1>1, <2>6 DEF RemoveFile, Fails, Without, Restrict
      <3> QED
        BY <1>0, <1>2, <1>3, <2>0, <2>1, DamageAtFacts, <3>1, <3>2
    <2>7. DeleteRow(d) => attachments' = Without(attachments, a) \/ attachments' = attachments
      BY <1>1 DEF DeleteRow
    <2> QED
      BY <2>3, <2>4, <2>5, <2>6, <2>7 DEF DeleteStep
  <1>8. Dead' = Dead
    <2>1. pc[d] # "dead" /\ pc'[d] # "dead"
      BY <1>0 DEF ReceiveDelete, DeleteStep, FindRow, DeleteRow, RemoveFile, LogDelete, goto
    <2> QED
      BY <1>0, <2>1 DEF Dead
  <1> QED
    BY <1>0, <1>3, <1>6, <1>7, <1>8, LocalDamage

\* What a crash leaves behind was in the hands of the requests that die: a file each.
LEMMA CrashDamage ==
  ASSUME Inv, Inv', Crash
  PROVE  Damage' <= Damage + (Cardinality(Dead') - Cardinality(Dead))
  <1> USE Kinds
  <1> DEFINE Flying == {r \in Requests : InFlight(r)}
             fileOf == [r \in Flying |-> IF r \in Uploads THEN r ELSE call[r].id]
             held == {fileOf[r] : r \in Flying}
  <1>0. /\ TypeOK /\ TypeOK' /\ UNCHANGED <<dataVars, call, faults>>
        /\ pc' = [r \in Requests |-> IF InFlight(r) THEN "dead" ELSE pc[r]]
    BY DEF Inv, Types, Crash
  <1>1. /\ IsFiniteSet(Requests) /\ IsFiniteSet(Strays) /\ IsFiniteSet(Dead)
        /\ IsFiniteSet(Unsettled)
        /\ Cardinality(Strays) \in Nat /\ Cardinality(Fileless) \in Nat
        /\ Cardinality(Unaudited) \in Nat /\ Cardinality(Unsettled) \in Nat
        /\ Cardinality(Dead) \in Nat
    BY <1>0, DamageFinite
  <1>2. IsFiniteSet(Flying) /\ Cardinality(Flying) \in Nat
    BY <1>1, FS_Subset, FS_CardinalityType
  <1>3. Cardinality(Dead') = Cardinality(Dead) + Cardinality(Flying)
    <2>1. Dead' = Dead \cup Flying /\ Dead \cap Flying = {}
      BY <1>0 DEF Dead, InFlight
    <2>2. Cardinality(Dead \cup Flying) = Cardinality(Dead) + Cardinality(Flying)
                                            - Cardinality(Dead \cap Flying)
      BY <1>1, <1>2, FS_Union
    <2>3. Cardinality(Dead \cap Flying) = 0
      BY <2>1, FS_EmptySet
    <2> HIDE DEF Flying
    <2>4. Cardinality(Dead') = Cardinality(Dead \cup Flying)
      BY <2>1
    <2> QED
      BY <1>1, <1>2, <2>2, <2>3, <2>4
  <1>4. IsFiniteSet(held) /\ Cardinality(held) \in Nat /\ Cardinality(held) <= Cardinality(Flying)
    <2>1. fileOf \in Surjection(Flying, held)
      BY DEF Surjection
    <2> HIDE DEF Flying, fileOf, held
    <2> QED
      BY <1>2, <2>1, FS_Surjection, FS_CardinalityType
  <1>5. Strays' \subseteq Strays \cup held
    <2> SUFFICES ASSUME NEW x \in Strays', x \notin Strays PROVE x \in held
      OBVIOUS
    <2>1. Busy(x)
      BY <1>0 DEF Strays, dataVars
    <2>2. CASE x \in Uploads /\ pc[x] \in {"write", "insert", "cleanup", "cleanup400"}
      <3>1. x \in Flying
        BY <2>2 DEF InFlight, Answers
      <3> QED
        BY <2>2, <3>1
    <2>3. CASE \E d \in Deletes : pc[d] = "unlink" /\ call[d].id = x
      <3>1. PICK d \in Deletes : pc[d] = "unlink" /\ call[d].id = x
        BY <2>3
      <3>2. d \in Flying
        BY <3>1 DEF InFlight, Answers
      <3> QED
        BY <3>1, <3>2
    <2> QED
      BY <2>1, <2>2, <2>3 DEF Busy
  <1>6. Cardinality(Strays') \in Nat /\ Cardinality(Strays') <= Cardinality(Strays) + Cardinality(Flying)
    <2> HIDE DEF held, Flying
    <2>1. /\ IsFiniteSet(Strays \cup held)
          /\ Cardinality(Strays \cup held) = Cardinality(Strays) + Cardinality(held)
                                               - Cardinality(Strays \cap held)
      BY <1>1, <1>4, FS_Union
    <2>2. IsFiniteSet(Strays \cap held) /\ Cardinality(Strays \cap held) \in Nat
      BY <1>1, FS_Subset, FS_CardinalityType
    <2>3. /\ IsFiniteSet(Strays') /\ Cardinality(Strays') \in Nat
          /\ Cardinality(Strays') <= Cardinality(Strays \cup held)
      BY <1>5, <2>1, FS_Subset, FS_CardinalityType
    <2> QED
      BY <1>1, <1>2, <1>4, <2>1, <2>2, <2>3
  <1>7. /\ Cardinality(Fileless') = Cardinality(Fileless)
        /\ Cardinality(Unaudited') = Cardinality(Unaudited)
        /\ Cardinality(Unsettled') = 0
    <2>1. Fileless' = Fileless
      BY <1>0 DEF Fileless, HasFile, dataVars
    <2>2. Unaudited' = Unaudited
      BY <1>0 DEF Unaudited, dataVars, InFlight, Answers
    <2>3. Unsettled' = {}
      BY <1>0 DEF Unsettled, InFlight, Answers
    <2> QED
      BY <2>1, <2>2, <2>3, FS_EmptySet
  <1> HIDE DEF Flying
  <1> QED
    BY <1>1, <1>2, <1>3, <1>6, <1>7 DEF Damage

LEMMA DamageIsANumber == TypeOK => Damage \in Int /\ Cardinality(Dead) \in Int
  BY DamageFinite DEF Damage

\* Files without a row, rows without a file and uploads without an entry are no more
\* than the calls that failed and the requests that died (AttachmentsService.upload and
\* remove clean up after everything that is only refused).
THEOREM DamageIsPaid == Spec => []DamageHasItsFailure
  <1> DEFINE Paid == Damage <= faults + Cardinality(Dead)
  <1>1. Init => Paid
    <2> SUFFICES ASSUME Init PROVE Paid
      OBVIOUS
    <2>1. /\ Strays = {} /\ Fileless = {} /\ Unaudited = {} /\ Unsettled = {} /\ Dead = {}
      BY Kinds DEF Init, Strays, Fileless, Unaudited, Unsettled, Dead, HasFile
    <2>2. Damage = 0 /\ Cardinality(Dead) = 0 /\ faults = 0
      BY <2>1, FS_EmptySet DEF Damage, Init
    <2> QED
      BY <2>2
  <1>2. Inv /\ Inv' /\ Paid /\ [Next]_vars => Paid'
    <2> SUFFICES ASSUME Inv, Inv', Paid, [Next]_vars PROVE Paid'
      OBVIOUS
    <2>0. /\ Damage \in Nat /\ faults \in Nat /\ faults' \in Nat /\ Cardinality(Dead) \in Nat
          /\ TypeOK /\ TypeOK'
      BY DamageFinite, AttachmentAssumption DEF Inv, Types, TypeOK, Damage
    <2>1. CASE (\E u \in Uploads : ReceiveUpload(u) \/ UploadStep(u))
               \/ \E d \in Deletes : ReceiveDelete(d) \/ DeleteStep(d)
      <3>1. Damage' - Damage <= faults' - faults /\ Damage' \in Nat /\ Dead' = Dead
        BY <2>1, UploadDamage, DeleteDamage
      <3>2. Cardinality(Dead)' = Cardinality(Dead)
        BY <3>1
      <3>3. Damage <= faults + Cardinality(Dead)
        OBVIOUS
      <3>4. Damage' <= faults' + Cardinality(Dead)
        <4>1. \A a, b, f, g, c \in Int : b - a <= g - f /\ a <= f + c => b <= g + c
          OBVIOUS
        <4>2. /\ Damage \in Int /\ Damage' \in Int /\ faults \in Int /\ faults' \in Int
              /\ Cardinality(Dead) \in Int
          BY <2>0, <3>1
        <4> QED
          BY <3>1, <3>3, <4>1, <4>2
      <3> QED
        BY <3>2, <3>4
    <2>2. CASE DeleteUser \/ UNCHANGED vars
      <3>1. UNCHANGED <<attachments, disk, audited, pc, call, faults>>
        BY <2>2 DEF DeleteUser, vars, dataVars
      <3>2. /\ Strays' = Strays /\ Fileless' = Fileless /\ Unaudited' = Unaudited
            /\ Unsettled' = Unsettled /\ Dead' = Dead
        BY <3>1 DEF Strays, Fileless, Unaudited, Unsettled, Dead, HasFile, Busy
      <3> QED
        BY <3>1, <3>2 DEF Damage
    <2>3. CASE Crash
      <3>1. Damage' <= Damage + (Cardinality(Dead') - Cardinality(Dead)) /\ faults' = faults
        BY <2>3, CrashDamage DEF Crash
      <3>2. Damage' \in Int /\ Cardinality(Dead') \in Int
        <4>1. (TypeOK => Damage \in Int /\ Cardinality(Dead) \in Int)'
          BY DamageIsANumber, PTL
        <4> QED
          BY <2>0, <4>1
      <3> QED
        BY <2>0, <3>1, <3>2
    <2> QED
      BY <2>1, <2>2, <2>3 DEF Next
  <1>3. Inv /\ Paid => DamageHasItsFailure
    <2> SUFFICES ASSUME Inv, Paid PROVE DamageHasItsFailure
      OBVIOUS
    <2>1. /\ TypeOK /\ faults \in Nat
      BY AttachmentAssumption DEF Inv, Types, TypeOK
    <2>2. Cardinality(Strays) + Cardinality(Fileless) + Cardinality(Unaudited)
            <= faults + Cardinality(Dead)
      BY <2>1, DamageFinite DEF Damage
    <2> QED
      BY <2>2 DEF DamageHasItsFailure, Dead
  <1> QED
    BY <1>1, <1>2, <1>3, Invariance, PTL DEF Spec
=============================================================================
