CONSTANTS
  interest = interest
  u1 = u1
  u2 = u2
  u3 = u3
  i1 = i1
  i2 = i2
  works = works
  izmir = izmir
  bridge = bridge
  open = open
  None = None
  Users <- ThreeUsers
  Ikns <- NoBridge
  Pools <- CachePools
  Saved <- MCSaved
  Notice <- MCNotice
  ListFields <- MCLists
  TextField = "searchText"
  OtherFields <- NoJobs
  StatusField = "ihaleDurumIdList"
  TenderDate = "ihaleTarihSaat"
  NoticeDate = "ilanTarihSaat"
  Terms <- MCTerms
  OpenStatus <- MCOpen
  Jobs <- MCJobs
  Keys <- InterestKeys
  Callers <- MCCallers
  Addressees <- MCAddressees
  DryRun <- MCJobs
  Cap = 1
  DedupSlots = 2
  SlotsPerDay = 2
  MaxNow = 0
  MaxToken = 1
  MaxSlips = 1
SPECIFICATION InterestSpec
INVARIANTS
  InterestTypeOK
PROPERTIES
  LawfulCaller
  RegisteredLeftOut
  FitsOwnSearch
CONSTRAINTS
  OneFault
  OnlyFirst
  OneLoss
ACTION_CONSTRAINT PhonesUntouched
