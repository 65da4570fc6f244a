SPECIFICATION Spec
CONSTANTS
  a1 = a1
  a2 = a2
  r1 = r1
  r2 = r2
  Attempts = {a1}
  Requests = {r1}
  RequestOf <- OneRun
  Grants = {g1}
  NoGrant = NoGrant
  None = None
  MaxLedger = 2
INVARIANTS
  PartialNeverSuccess
