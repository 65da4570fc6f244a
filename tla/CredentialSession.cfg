SPECIFICATION FairSpec
CONSTANT Phases = {"plan", "admit"}
INVARIANTS
  TypeOK
  SideEffectsAreReported
  SessionIsReportedHonestly
  OpenSessionIsKnown
PROPERTIES
  PhaseEnds
CHECK_DEADLOCK FALSE
