SPECIFICATION FairReadsSpec
CONSTANTS
  Writers = {r1, r2}
  Removers = {d1}
  Readers = {g1}
  Users <- MCUsers
  InitialIds <- MCIds
  InitialComments <- MCComments
  Calls <- MCCalls
  MaxFaults = 1
INVARIANTS
  TypeOK
  MentionsMatchContent
  OneEditPerVersion
  EntryPerChange
  NoDeadlockAmongWriters
  AnswersFit
PROPERTIES
  TransactionsEnd
  CommentsKeepContract
CHECK_DEADLOCK FALSE
