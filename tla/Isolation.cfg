SPECIFICATION Spec
CONSTANTS
  Dids = {d1, d2}
  Registries = {self, r1, r2, r3}
  Self = self
  NoDid = nodid
  MaxRecords = 2
  MaxAppeals = 2
  MaxMishaps = 1
SYMMETRY Symmetry
INVARIANTS
  ReviewersIndependent
  OutcomeFollowsVotes
  OpenAppealsBounded
PROPERTIES
  ImplementsBallot
CHECK_DEADLOCK FALSE
