SPECIFICATION Spec
CONSTANTS
  l1 = l1  l2 = l2  s1 = s1  s2 = s2  c1 = c1  c2 = c2
  w1 = w1  w2 = w2
  None = None
  Learner <- OneLearner
  Session <- TwoSessions
  Concept <- OneConcept
  Published <- OneConcept
  Worker <- TwoWorkers
  MaxEvents = 2
  MaxTime = 0
  Operations <- Evidence
SYMMETRY Ids
INVARIANTS
  NoOrphans
  RetractionsNameOwnEvidence
  AcknowledgedMeansDurable
  ErasureIsComplete
  ReceiptNeverOverstates
  
PROPERTIES
  AppendOnly
  ImplementsLedger
