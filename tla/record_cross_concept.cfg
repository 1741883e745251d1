SPECIFICATION Spec
CONSTANTS
  l1 = l1  l2 = l2  s1 = s1  s2 = s2  c1 = c1  c2 = c2
  w1 = w1  w2 = w2
  None = None
  Learner <- OneLearner
  Session <- TwoSessions
  Concept <- TwoConcepts
  Published <- TwoConcepts
  Worker <- OneWorker
  MaxEvents = 2
  MaxTime = 1
  Operations <- Replay
SYMMETRY Ids
PROPERTIES
  EveryRetractionTakesEffect
