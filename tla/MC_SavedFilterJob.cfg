CONSTANTS
  saved = saved
  u1 = u1
  u2 = u2
  f1 = f1
  f2 = f2
  t1 = t1
  t2 = t2
  works = works
  yes = yes
  soon = soon
  late = late
  open = open
  None = None
  Users <- TwoUsers
  FilterIds <- TwoIds
  Owners <- MCOwners
  Saveable <- ByKind
  Tenders <- TwoTenders
  Notice <- MCNotice
  NoticeDay <- MCNoticeDay
  PageSize = 2
  MaxDay = 1
  ListFields <- MCLists
  TextField = "searchText"
  OtherFields <- MCOthers
  StatusField = "ihaleDurumIdList"
  TenderDate = "ihaleTarihSaat"
  NoticeDate = "ilanTarihSaat"
  Terms <- MCTerms
  OpenStatus <- MCOpen
  Jobs <- MCJobs
  Keys <- MatchKeys
  Callers <- MCCallers
  Addressees <- MCAddressees
  DryRun <- MCJobs
  MaxToken = 1
  MaxSlips = 1
SPECIFICATION SavedSpec
INVARIANTS
  SavedTypeOK
  MatchServed
PROPERTIES
  NoneAfterMark
  FitsOwnFilter
  LawfulCaller
CONSTRAINTS
  OneFault
  OnlyU2Edits
ACTION_CONSTRAINTS
  U1Eligible
  PhonesUntouched
  NewsBetweenRuns
