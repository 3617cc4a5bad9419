SPECIFICATION Spec
CONSTANTS
  Replica = {r0, r1, r2}
  Primary = r0
  F = 1
  Client = {c1, c2}
  MaxRequest = 1
  MaxResend = 0
  Window = 2
  Duplicates = {r2}
  Late = {}
SYMMETRY Symmetry
INVARIANTS LogAgreement NoEquivocation BufferIsSound ExecutedIsPrepared NothingIsHeldBack
