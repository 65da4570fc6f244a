SPECIFICATION Spec
CONSTANTS
  Claims <- MCClaims
  MaxEdits = 2
INVARIANTS
  PassRestsOnPins
  LargeEvidenceIsOfHead
  SuccessIsOfPinnedRelease
CHECK_DEADLOCK FALSE
