SPECIFICATION FairSpec
CONSTANTS
  Runs = {1, 2}
  None = None
  Principal = principal
  Others = {colleague}
  TemplateSpan = 1
  MaxSpan = 1
  PolicyExpiry = 2
  Horizon = 2
  Accepted = {0}
  MaxCommits = 1
  MaxCiRuns = 1
  MaxStarts = 2
  CiOutcomes = {{"startup"}, {}}
  Extensions = {0, 1}
INVARIANTS
  IInv
  GreenRunIsOnRecord
PROPERTIES
  ImplementsConsent
  RefusalHasReason
  EveryRunEnds
CHECK_DEADLOCK FALSE
