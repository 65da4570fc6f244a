SPECIFICATION FairSpec
CONSTANTS
  Runs = {w1}
  Heads = {h1, h2}
INVARIANTS
  TypeOK
  SuccessRestsOnReview
  GreenRunHasSuccess
PROPERTIES
  RunConcludes
CHECK_DEADLOCK FALSE
