SPECIFICATION Spec
CONSTANTS
  Tickets <- MCTickets
  ProjectOf <- MCProjectOf
  InitialDeps <- MCDeps
  Users = {1}
  Dates <- MCDates
  Seeds <- MCSeeds
  Patches <- MCPatches
  NoDate = NoDate
  NoUser = NoUser
  MaxNow = 0
  MaxFaults = 0
  Requests = {r1, r2, r3}
  Ops = {"patch", "delete", "restore"}
  Lookahead = 1
  Runners = {w1}
  CronRunners = {}
  Linkers = {}
  Edges = {}
SYMMETRY Symmetry
INVARIANTS
  TypeOK
  OneWinnerPerVersion
  UpdateDiffIsOwn
  AcceptedStatusSticks
  ClearedBlockersStayDone
  EachDeleteDeletes
PROPERTY
  ImplementsContract
CHECK_DEADLOCK FALSE
