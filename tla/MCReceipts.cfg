CONSTANTS
  Nothing = Nothing
  Variants = {"public"}
  Ids <- MCIds
  Changing = {"producerAssets", "image-public"}
  Values = {1, 2}
  ContainerEvidence = {"c1", "c2"}
  Says <- MCSays
  RevocationChecked <- MCRevocationChecked
  NotBefore = 0
  ExpiresAt = 3
  MaxClock = 3
  MaxAttempts = 2

SPECIFICATION ReceiptsSpec
INVARIANTS ReceiptsTypeOK OneRun Held
CHECK_DEADLOCK FALSE
