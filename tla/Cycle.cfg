SPECIFICATION Spec
CONSTANTS
  Tickets <- MCTickets
  ProjectOf <- MCProjectOf
  InitialDeps <- MCDeps
  Users = {}
  Dates <- MCDates
  Seeds <- MCSeeds
  Patches <- MCPatches
  NoDate = NoDate
  NoUser = NoUser
  MaxNow = 0
  MaxFaults = 0
  Requests = {}
  Ops = {}
  Lookahead = 0
  Runners = {}
  CronRunners = {}
  Linkers = {l1, l2}
  Edges <- MCEdges
INVARIANT
  NoCycles
CHECK_DEADLOCK FALSE
