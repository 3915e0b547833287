SPECIFICATION RecordsSpec
CONSTANTS
  Window = 1
  Threshold = 2
  Keep = 4
  MinDays = 1
  MaxMessages = 6
  MaxTime = 3
  Parties = {agent, old, new}
  NoParty = noparty
  Expiry = 1
  MaxTransfers = 2
  MaxTransferTime = 2
  MaxForks = 3
  MaxForkTime = 3
  MaxForkRestarts = 1
  Dids = {d1, d2}
  Amounts <- PlusAndMinus
  MaxRequests = 4
  MaxCreditCrashes = 1
  Guardians = {g}
  NoGuardian = noguardian
  StakeAmounts <- StakesPlusAndMinus
  MaxReports = 4
  MaxStakes = 1
  MaxScore = 150
  MaxRepCrashes = 1
  SpaceIds = {s1}
  Entities = {e1, e2}
  Caps = {0, 1}
  NoSpace = nospace
  PageSize = 2
  MaxPosts = 4
  MaxSpaceTime = 3
  Homes = {h1, h2}
  Records = {"message", "relationship"}
  KindOf <- OneOfEach
  Topics = {t1}
  Tones = {formal}
  Absent = absent
  Unset = unset
  MaxSaves = 2
  Texts = {"text", "same", "other"}
  Hash <- TwoAlike
  NoText = notext
  Node = node
  Confidences = {0, 1, 2}
  MinVerdicts = 2
  MaxVerdicts = 2
INVARIANTS
  EveryMessageCounted
  FlagsNeedRejections
  CompletionsExplained
  LedgerCovered
  CreditsConserved
  ScoreCoversRecord
  MembershipSound
  ReadersMissOnlyTies
  RestoredHolds
  AgreedUntilImport
  NobodySettlesAlone
CHECK_DEADLOCK FALSE
