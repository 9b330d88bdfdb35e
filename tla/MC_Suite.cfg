SPECIFICATION Spec
CONSTANTS
  home = home  shop = shop
  Absent = Absent  NoMarker = NoMarker  Torn = Torn
  Languages <- MCLanguages
  Pages <- MCPages
  AnchorsBefore <- MCBefore
  AnchorsAfter <- MCAfter
  Functions <- MCFunctions
  URLs <- MCURLs
  MaxChanges = 2
  StateTTL = 1
  Horizon <- MCHorizon
  MaxBlocks = 7
  Tries = 2
  Failing <- MCFailing
INVARIANTS RerunIsNoop HeaderOnlyBehindReport
PROPERTIES HealsOnlyReported SkipIsFresh
CHECK_DEADLOCK FALSE
