CONSTANTS
  alarm = alarm
  u1 = u1
  u2 = u2
  t1 = t1
  t2 = t2
  open = open
  concluded = concluded
  None = None
  Users <- TwoUsers
  Tenders <- MCTenders
  Jobs <- MCJobs
  Keys <- AlarmKeys
  Callers <- MCCallers
  Addressees <- MCAddressees
  DryRun <- MCJobs
  Phrases <- MCPhrases
  Concluding <- MCConcluded
  Answers <- MCAnswers
  AlarmChoices <- OverUsers
  MaxToken = 1
  MaxSlips = 1
  MaxDay = 1
SPECIFICATION AlarmFairSpec
INVARIANT DutyServed
PROPERTY RunEnds
ACTION_CONSTRAINT PhonesUntouched
