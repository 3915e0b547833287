SPECIFICATION EconomySpec
CONSTANTS
  Dids = {d1}
  Amounts = {1}
  MaxRequests = 1
  MaxCreditCrashes = 0
  Guardians = {g}
  NoGuardian = noguardian
  StakeAmounts = {20}
  MaxReports = 3
  MaxStakes = 1
  MaxScore = 100
  MaxRepCrashes = 0
PROPERTIES
  PenaltyNeverRaises
CHECK_DEADLOCK FALSE
