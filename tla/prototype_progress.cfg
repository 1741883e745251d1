SPECIFICATION Spec
CONSTANTS
  n1 = n1  n2 = n2  n3 = n3  k1 = k1  k2 = k2
  None = None
  Post <- ThreePosts
  Key <- TwoKeys
  Payload <- FewPayloads
  MaxFaults = 2
CHECK_DEADLOCK FALSE
INVARIANTS
  TypeOK
  AcknowledgedIsStored
PROPERTIES
  ReplacesOneRecord
  PostsEnd
