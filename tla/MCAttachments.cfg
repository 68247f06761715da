SPECIFICATION FairSpec
CONSTANTS
  Uploads = {u1}
  Deletes = {d1, d2}
  Users = {"ann", "bob"}
  Tickets = {1, 2}
  InitialAttachments <- MCInitial
  MaxFaults = 2
  MaxCrashes = 1
INVARIANTS
  TypeOK
  AcknowledgedRowHasFile
  OnlyItsDeleteRemoves
  DamageHasItsFailure
PROPERTY
  StrayFilesGo
CHECK_DEADLOCK FALSE
