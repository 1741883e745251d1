SPECIFICATION Spec
CONSTANTS
  l1 = l1  l2 = l2  left = left
  None = None
  MaxPages = 2
  MaxDeeds = 2
  MaxMishaps = 1
  Steps = 1
  Learner <- TwoLearners
  Tab <- OneTab
  TabOf <- InOneTab
  Experiments <- FirstStep
CHECK_DEADLOCK FALSE
INVARIANTS
  TypeOK
  EvidenceStaysReachable
  NothingRecordedTwice
  AcknowledgedAnswersInOrder
  NeverStuck
PROPERTIES
  ReturningLearnersResume
  EveryWriteIsAnswered
