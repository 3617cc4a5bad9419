SPECIFICATION PipelineSpec
CONSTANTS
  Replica = {r0, r1, r2}
  Primary = r0
  F = 1
  Client = {c1}
  MaxRequest = 1
  MaxResend = 0
  Window = 2
  Duplicates = {r0}
  Late = {r0}
  Focus = r0
  Crypto = {t1, t2}
  MaxRepeat = 1
SYMMETRY Symmetry
CHECK_DEADLOCK FALSE
INVARIANTS PipelineInv OwnCopiesReturnOnce HeadIsInInbox
