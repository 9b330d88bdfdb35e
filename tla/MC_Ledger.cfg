SPECIFICATION Spec
CONSTANTS
  t1 = t1  t2 = t2  t3 = t3  boom = boom  regex = regex
  Passed = Passed
  Test = {t1, t2, t3}
  PipedTitle = {t3}
  Message = {boom, regex}
  PipedMessage = {regex}
  Reports <- MCReports
  Stem <- MCStem
  MaxDay = 3
  MaxEdits = 2
INVARIANTS RowsRemember JudgedByHand
CHECK_DEADLOCK FALSE
