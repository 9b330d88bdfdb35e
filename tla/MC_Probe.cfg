SPECIFICATION Spec
CONSTANTS
  p = p  q = q  chromium = chromium  firefox = firefox  home = home  admin = admin
  Unset = Unset  None = None
  Prober = {p, q}
  ModeOf <- MCModeOf
  EnginesOf <- MCEnginesOf
  OriginsOf <- MCOriginsOf
  Engine = {chromium, firefox}
  Page = {home, admin}
  Home = home
  Permitted = {home}
INVARIANTS TypeOK BestAttemptWins NoSilentFailure DefaultIsAWinner
CHECK_DEADLOCK FALSE
