SPECIFICATION Spec
CONSTANTS
  l1 = l1  l2 = l2  s1 = s1  s2 = s2  c1 = c1  c2 = c2
  w1 = w1  w2 = w2
  None = None
  Learner <- TwoLearners
  Session <- TwoSessions
  Concept <- OneConcept
  Published <- OneConcept
  Worker <- TwoWorkers
  MaxEvents = 2
  MaxTime = 0
  Operations <- Replay
SYMMETRY Ids
INVARIANTS
  RetractionsNameOwnEvidence
  Inv
PROPERTIES
  ReadYourWrites
  RetractionTakesEffect
