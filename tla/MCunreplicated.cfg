SPECIFICATION TransportSpec
CONSTANTS
  Client = {c1, c2}
  MaxRequest = 2
  MaxQueue = 1
INVARIANTS UnreplicatedInv ResultIsOwn RoundInv CompleteRoundAnswers
PROPERTIES ImplementsService EveryRequestAnswered
