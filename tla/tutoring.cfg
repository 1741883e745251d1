SPECIFICATION Spec
CONSTANTS
  e1 = e1  e2 = e2  c1 = c1  c2 = c2  c3 = c3
  here = here  lost = lost  local = local  other = other  p1 = p1
  None = None
  Probe <- OneProbe
  MaxChanges = 2
  MaxAsks = 2
  Edition <- TwoEditions
  Lesson <- TwoLessons
  Text <- TwoTexts
  Check <- ThreeChecks
  MatchedBy <- Matches
  WordsOf <- Tokens
  Provider <- TwoProviders
  Default = local
  Request <- FewRequests
CHECK_DEADLOCK FALSE
INVARIANTS
  TypeOK
  ReadinessTellsTheDatabase
  AnswerIsToTheLastAsk
  QuestionIsOpen
PROPERTIES
  AsksEnd
