SPECIFICATION Spec
CONSTANTS
  worker = worker
  reviewer = reviewer
  other = other
  key = key
  h1 = h1
  h2 = h2
  None = None
  Calls <- SomeCalls
  Policies <- SomePolicies
  Lines <- ForeignLines
  Fields <- SomeFields
  MaxLines = 2
INVARIANTS
  ForeignLinesAreRejected
CHECK_DEADLOCK FALSE
