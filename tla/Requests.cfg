CONSTANTS
  v1 = v1
  v2 = v2
  Values = {v1, v2}
  Missing = Missing
  Literal = Literal
  Nothing = Nothing
  MaxEdits = 2
SPECIFICATION Spec
INVARIANTS TypeOK SentWasHeld FailureHasCause NeverPanics
CHECK_DEADLOCK FALSE
