SPECIFICATION Spec
CONSTANTS
  Replica = {r0, r1, r2}
  Primary = r0
  F = 1
  Client = {c1}
  MaxRequest = 2
  MaxResend = 1
  Window = 1
  Duplicates = {}
  Late = {}
INVARIANTS NoRequestSkipped ResultIsExecuted SequenceInv ExecutionAgreement ExactlyOnce ExecutionInv
PROPERTIES ImplementsService
