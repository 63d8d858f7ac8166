CONSTANTS
  u1 = u1
  alarm = alarm
  interest = interest
  reminder = reminder
  tip = tip
  Users <- OneUser
  Jobs <- TwoJobs
  Keys <- TwoKeys
  Callers <- MCCallers
  Addressees <- MCAddressees
  DryRun <- TwoJobs
  MaxToken = 1
  MaxSlips = 1
  MaxItems = 1
SPECIFICATION ServiceFairSpec
INVARIANTS
  ServiceTypeOK
  AloneMeansExact
PROPERTIES
  RunsEnd
CONSTRAINT OneFault
ACTION_CONSTRAINTS
  PhonesUntouched
  KeysKept
