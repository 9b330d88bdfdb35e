SPECIFICATION FairRunnerSpec
CONSTANTS
  p = p  q = q  c1 = c1  c2 = c2  c3 = c3
  chromium = chromium  firefox = firefox  test = test  stealth = stealth
  Nobody = Nobody
  Process = {p, q}
  Call = {c1, c2, c3}
  ProcessOf <- MCProcessOf
  Browser = {chromium, firefox}
  EngineOf <- MCEngineOf
  Package = {test, stealth}
  TestPackage = test
  MaxFaults = 2
  MaxWipes = 1
INVARIANTS RunnerTypeOK InstallsSerialised EnsuredUnlessWiped
PROPERTIES NothingInstalledTwice EveryCallReturns
CHECK_DEADLOCK FALSE
