SPECIFICATION Spec
CONSTANTS
  Runs = {w1}
  Heads = {h1, h2}
INVARIANTS
  StaleHeadFailsClosed
CHECK_DEADLOCK FALSE
