SPECIFICATION Spec
CONSTANTS
  Replica = {r0, r1, r2, r3}
  Primary = r0
  F = 1
  Client = {c1}
  MaxRequest = 1
  MaxResend = 0
  Window = 1
  Duplicates = {}
  Late = {r3}
SYMMETRY Symmetry
INVARIANTS PreparedIsAnnounced
