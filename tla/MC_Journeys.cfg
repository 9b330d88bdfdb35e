SPECIFICATION JourneysSpec
CONSTANTS
  home = home  p1 = p1  p2 = p2  p3 = p3
  KnownUrl = {home, p1, p2, p3}
  Sites <- MCSites
  Caps = {1, 2}
  Prompts <- MCPrompts
INVARIANTS CapPerKind BestKindKeepsPage NavigationNeverSubmits
CHECK_DEADLOCK FALSE
