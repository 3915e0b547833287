SPECIFICATION Spec
CONSTANTS
  Dids = {d1, d2}
  Registries = {self, r1, r2, r3}
  Self = self
  NoDid = nodid
  MaxRecords = 2
  MaxAppeals = 2
  MaxMishaps = 0
SYMMETRY Symmetry
PROPERTIES
  OnlyLiftedAppealUnflags
CHECK_DEADLOCK FALSE
