SPECIFICATION FairSpec
CONSTANTS
  Tickets <- MCTickets
  ProjectOf <- MCProjectOf
  InitialDeps = {}
  Users = {}
  Dates <- MCDates
  Seeds <- MCSeeds
  Patches <- MCPatches
  NoDate = NoDate
  NoUser = NoUser
  MaxNow = 1
  MaxFaults = 1
  Requests = {r1}
  Ops = {"patch"}
  Lookahead = 0
  Runners = {w1, w2}
  CronRunners = {w1}
  Linkers = {}
  Edges = {}
INVARIANTS
  EveryVersionAudited
  EscalationsAreBounded
PROPERTY
  OverdueIsEscalated
CHECK_DEADLOCK FALSE
