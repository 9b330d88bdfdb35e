SPECIFICATION Spec
CONSTANTS
  t1 = t1  t2 = t2  t3 = t3  boom = boom  regex = regex
  Passed = Passed
  Test = {t1, t2, t3}
  PipedTitle = {}
  Message = {boom, regex}
  PipedMessage = {regex}
  Reports <- MCReports
  Stem <- MCStem
  MaxDay = 3
  MaxEdits = 1
INVARIANTS FindingsAreKept
CHECK_DEADLOCK FALSE
