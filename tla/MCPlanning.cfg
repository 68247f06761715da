SPECIFICATION Spec
CONSTANTS
  Requests = {r1, r2, r3}
  ann = ann
  bob = bob
  cy = cy
  p1 = p1
  t1 = t1
  Nobody = Nobody
  InitialUsers <- MCUsers
  InitialProjects <- MCProjects
  InitialTickets <- MCTickets
  Registered <- MCRegistered
  Calls <- MCCalls
  MaxFaults = 1
  MaxChanges = 1
SYMMETRY Symmetry
INVARIANTS
  TypeOK
  References
  PickIsLeastLoaded
  ImportAddsUp
  DeletesNeedRestores
  NoTicketIntoDeletedProject
  AutoAssignAudited
CHECK_DEADLOCK FALSE
