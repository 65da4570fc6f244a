SPECIFICATION FairSpec
CONSTANTS
  a1 = a1
  a2 = a2
  r1 = r1
  r2 = r2
  Attempts = {a1, a2}
  Requests = {r1, r2}
  RequestOf <- TwoRuns
  Grants = {g1}
  NoGrant = NoGrant
  None = None
  MaxLedger = 3
INVARIANTS
  AtMostOneCheck
  RejectionLeavesNoTrace
PROPERTIES
  CustodyAdvances
  ImplementsCustody
  EveryAttemptEnds
  StaleNeverSucceeds
