SPECIFICATION Spec
CONSTANTS
  p1 = p1
  Peers <- OnePeer
  Guardian = guardian
  NoPeer = nopeer
  Cap = 1
  MaxGreetings = 1
  Discoveries <- Lists
  MaxMessages = 0
  MaxAwaiting = 1
  Cycles = {c1}
  MaxReports = 0
  MaxDays = 0
  MaxRestarts = 1
  Subjects = {s1}
  Synthesizer = TRUE
  MaxStarts = 1
  MaxFirings = 1
  MaxDrafts = 1
  MaxSyntheses = 1
  MaxPublished = 2
  MaxChanges = 1
  Policies <- SomePolicies
  Targets = {t1, t2}
  FirstLevel = 1
  MaxCommands = 1
  MaxAgentRestarts = 1
  ProtocolNames = {"transparency"}
  ValueNames = {"curiosity"}
  Reinforcements = {50}
  Challenges = {30}
  DriftThreshold = 200
  NotHeld = notheld
  NothingSaved = nothing
  MaxExperiences = 8
INVARIANT DriftIsNoticed
CHECK_DEADLOCK FALSE
