SPECIFICATION Spec
CONSTANTS
  Tickets <- MCTickets
  ProjectOf <- MCProjectOf
  InitialDeps = {}
  Users = {1}
  Dates <- MCDates
  Seeds <- MCSeeds
  Patches <- MCPatches
  NoDate = NoDate
  NoUser = NoUser
  MaxNow = 0
  MaxFaults = 0
  Requests = {r1}
  Ops = {"patch", "delete", "restore"}
  Lookahead = 0
  Runners = {}
  CronRunners = {}
  Linkers = {l1}
  Edges <- MCEdges
PROPERTY
  NoDoneWhileBlocked
CHECK_DEADLOCK FALSE
