SPECIFICATION RecordsSpec
CONSTANTS
  Window = 1
  Threshold = 2
  Keep = 4
  MinDays = 1
  MaxMessages = 1
  MaxTime = 1
  Parties = {agent, old, new}
  NoParty = noparty
  Expiry = 1
  MaxTransfers = 1
  MaxTransferTime = 1
  MaxForks = 1
  MaxForkTime = 1
  MaxForkRestarts = 1
  Dids = {d1, d2}
  Amounts <- PlusAndMinus
  MaxRequests = 1
  MaxCreditCrashes = 1
  Guardians = {g}
  NoGuardian = noguardian
  StakeAmounts <- StakesPlusAndMinus
  MaxReports = 1
  MaxStakes = 1
  MaxScore = 100
  MaxRepCrashes = 1
  SpaceIds = {s1}
  Entities = {e1, e2}
  Caps = {0, 1}
  NoSpace = nospace
  PageSize = 2
  MaxPosts = 1
  MaxSpaceTime = 1
  Homes = {h1, h2}
  Records = {"message", "relationship", "membership"}
  KindOf <- OneOfEach
  Topics = {t1}
  Tones = {formal}
  Absent = absent
  Unset = unset
  MaxSaves = 1
  Texts = {"text"}
  Hash <- TwoAlike
  NoText = notext
  Node = node
  Confidences = {1}
  MinVerdicts = 2
  MaxVerdicts = 2
INVARIANT ImportRestoresExport
CHECK_DEADLOCK FALSE
