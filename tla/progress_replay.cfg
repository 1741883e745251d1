SPECIFICATION Spec
CONSTANTS
  x1 = x1  x2 = x2  weak = weak  strong = strong
  None = None
  MaxEvents = 3
  MaxStep = 1
  Threshold = 2
  Experiment <- TwoExperiments
  Response <- TwoResponses
  Matched <- MatchedChecks
INVARIANTS
  TypeOK
  ViewIsFaithful
  EveryRowAccountedFor
PROPERTIES
  OnlyRetractionsTakeBack
