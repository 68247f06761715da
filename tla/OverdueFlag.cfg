SPECIFICATION Spec
CONSTANTS
  Tickets <- MCTickets
  ProjectOf <- MCProjectOf
  InitialDeps = {}
  Users = {}
  Dates <- MCDates
  Seeds <- MCSeeds
  Patches <- MCPatches
  NoDate = NoDate
  NoUser = NoUser
  MaxNow = 1
  MaxFaults = 0
  Requests = {r1}
  Ops = {"patch"}
  Lookahead = 0
  Runners = {w1}
  CronRunners = {w1}
  Linkers = {}
  Edges = {}
INVARIANT
  OverdueFlagIsCritical
CHECK_DEADLOCK FALSE
