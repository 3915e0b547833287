SPECIFICATION Spec
CONSTANTS
  Nodes = {a, b}
  CallIds = {r1, r2, r3}
  NoNode = nonode
  AutoAccept = {b}
  Drift = 0
  RateWindow = 0
  MaxPerWindow = 2
  MaxDeliveries = 4
  MaxRecords = 2
  MaxTime = 1
  MaxCrashes = 1
SYMMETRY Symmetry
INVARIANTS
  AckedMeansStored
  OneRelationship
  ConversationsNeedConsent
  InteractionsCounted
CHECK_DEADLOCK FALSE
