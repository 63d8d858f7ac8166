CONSTANTS
  alarm = alarm
  u1 = u1
  u2 = u2
  t1 = t1
  t2 = t2
  open = open
  concluded = concluded
  None = None
  Users <- OneUser
  Tenders <- MCTenders
  Jobs <- MCJobs
  Keys <- AlarmKeys
  Callers <- MCCallers
  Addressees <- MCAddressees
  DryRun <- NoJobs
  Phrases <- MCPhrases
  Concluding <- MCConcluded
  Answers <- MCAnswers
  AlarmChoices <- OverDays
  MaxToken = 1
  MaxSlips = 1
  MaxDay = 2
SPECIFICATION AlarmSpec
INVARIANTS
  AlarmTypeOK
  DutyServed
PROPERTIES
  NoCompletedAfterMark
  LawfulCaller
CONSTRAINT OneFault
