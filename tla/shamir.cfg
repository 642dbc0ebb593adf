SPECIFICATION Spec
CONSTANTS
  Secrets <- SampleSecrets
  Coefficients = {0, 142}
  Totals = {1, 2, 3, 255, 256}
  Thresholds = {1, 2, 3}
  Places = {1, 2, 3, 255}
  MaxCollected = 3
INVARIANTS
  TypeOK
  TablesAreTheField
  AnyThresholdRestores
  NeverPanics
  OneShareRevealsNothing
CHECK_DEADLOCK FALSE
