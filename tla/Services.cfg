SPECIFICATION Spec
CONSTANTS
  Recipients = {d1, d2}
  Capacity = 2
  TTL = 1
  MaxStores = 4
  MaxFailures = 1
  MaxTime = 2
  Registrars = {"a", "b", "c"}
  Known = {"c"}
  Links <- MutualLinks
  AskedHops = 2
  ClientHops = {2}
  FullTrust = 2
  FirstTrust = 2
  Gain = 1
  Loss = 2
  LeastTrust = 1
  MaxResolutions = 3
  MaxTrustUpdates = 1
  GossipNodes = {n1, n2, n3}
  MaxHops = 3
  ReportsKept = 1
  Reports = {r1, r2}
  MaxPosts = 4
  Suspects = {s1, s2}
  Registries = {0, 1, 3}
  VotingDays = 1
  MaxProposals = 3
  MaxVotingTime = 3
  MaxRequests = 3
  MaxSockets = 2
  Exchanges = {x1}
  Chunks = 2
  Holders = {h1}
  TokenAmounts <- PlusAndMinus
  Lifetimes = {1, 2}
  MaxIssues = 3
  MaxSpends = 2
  MaxTokenCrashes = 1
  MaxTokenTime = 1
  Items = {"will", "persona"}
  MaxVersion = 2
  Retention = 1
  MaxBackupTime = 2
  MaxBackupCrashes = 1
INVARIANTS
  TypeOK
  AtMostOnce
  KeptUntilExpiry
  LoopsNeedForgetting
  AnswersAreOwn
  WaitingIsPending
  ResultsAreTruthful
  NobodyWaitsInVain
  TokensAccounted
  NewestIsHeld
PROPERTIES
  EveryResolutionEnds
  EveryRequestSettles
CHECK_DEADLOCK FALSE
