SPECIFICATION Spec
CONSTANTS
  p1 = p1
  Peers <- OnePeer
  Guardian = guardian
  NoPeer = nopeer
  Cap = 1
  MaxGreetings = 1
  Discoveries <- Lists
  MaxMessages = 2
  MaxAwaiting = 1
  Cycles = {c1, c2}
  MaxReports = 1
  MaxDays = 1
  MaxRestarts = 1
  Subjects = {s1}
  Synthesizer = TRUE
  MaxStarts = 2
  MaxFirings = 3
  MaxDrafts = 1
  MaxSyntheses = 2
  MaxPublished = 2
  MaxChanges = 3
  Policies <- SomePolicies
  Targets = {t1, t2}
  FirstLevel = 1
  MaxCommands = 3
  MaxAgentRestarts = 1
  ProtocolNames = {"transparency"}
  ValueNames = {"curiosity"}
  Reinforcements = {50}
  Challenges = {30}
  DriftThreshold = 200
  NotHeld = notheld
  NothingSaved = nothing
  MaxExperiences = 1
INVARIANT IdentitySigned
CHECK_DEADLOCK FALSE
