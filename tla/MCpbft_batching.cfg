SPECIFICATION Spec
CONSTANTS
  Replica = {r0, r1, r2}
  Primary = r0
  F = 1
  Client = {c1, c2}
  MaxRequest = 1
  MaxResend = 0
  Window = 1
  Duplicates = {}
  Late = {r0, r1, r2}
SYMMETRY Symmetry
INVARIANTS TypeOK AgreementInv RequestsWaitForWindow BacklogHasBatchesAhead UncommittedBounded
