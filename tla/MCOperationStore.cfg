SPECIFICATION Spec
CONSTANTS
  Callers = {c1, c2}
  Digests = {d1, d2}
  Receipts = {r1, r2}
  NoDigest = NoDigest
  NoReceipt = NoReceipt
  MaxAttempts = 2
  MaxLate = 1
  MaxToken = 2
  MaxBodyAttempts = 2
  MaxCommitAttempts = 2
SYMMETRY Symmetry
INVARIANTS
  TypeOK
  CommittedAnswersAgree
  AbortedNeverCommits
  UnresolvedHoldsRow
  RejectedNeverCommits
PROPERTIES
  RowHistory
  LeaseProtectsWorker
  ImplementsAtomic
