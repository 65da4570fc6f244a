SPECIFICATION FairSpec
CONSTANTS
  NoMark = NoMark
  Budget = 5
  PacketLimit = 15
  MaxReceipts = 1
  Heads = {h1}
  Diffs <- SlicingDiffs
  SliceAnswers <- MixedSlices
  FinalAnswers <- MixedFinals
INVARIANTS
  CoverageIsTruthful
  OverflowIsOneLine
  ApprovalIsAdmittable
  NoObjectionIsLost
PROPERTIES
  ReviewEnds
  AdmissionEnds
