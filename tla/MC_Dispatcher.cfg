CONSTANTS
  u1 = u1
  alarm = alarm
  run_once = run_once
  shared = shared
  personal = personal
  Users <- MCUsers
  Jobs <- MCJobs
  Keys <- MCKeys
  Callers <- MCCallers
  Addressees <- MCAddressees
  DryRun <- DryRunOnce
  MaxToken = 2
  MaxSlips = 1
SPECIFICATION DispatchFairSpec
INVARIANTS
  TypeOK
  Accounting
  OncePerCaller
  PushFollowsDocument
  ReturnMeansServed
PROPERTIES
  LiveTokenClearedOnlyInRace
  DeliverySpec
  CallsEnd
