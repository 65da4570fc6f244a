SPECIFICATION Spec
CONSTANTS
  NoMark = NoMark
  Budget = 5
  PacketLimit = 15
  MaxReceipts = 3
  Heads = {h1, h2}
  Diffs <- TwoCandidates
  SliceAnswers <- FewSlices
  FinalAnswers <- FewFinals
INVARIANTS
  SuccessWasReviewed
