SPECIFICATION Spec
CONSTANTS
  worker = worker
  reviewer = reviewer
  other = other
  key = key
  h1 = h1
  h2 = h2
  None = None
  Calls <- SomeCalls
  Policies <- SomePolicies
  Lines <- SomeLines
  Fields <- SomeFields
  MaxLines = 3
INVARIANTS
  ReceiptsAreAuthorized
  NoGapBeforeALine
  StatusIsEarned
  EvidenceIsRelevant
  CandidateWasSeenLast
CHECK_DEADLOCK FALSE
