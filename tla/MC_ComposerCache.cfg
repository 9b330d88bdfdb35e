SPECIFICATION FairSpec
CONSTANTS
  c1 = c1  c2 = c2  c3 = c3  k1 = k1  k2 = k2  short = short  long = long
  None = None
  Caller = {c1, c2, c3}
  Key = {k1, k2}
  KeyOf <- MCKeyOf
  Rungs <- MCRungs
  MaxRungs = 2
  Chats <- MCChats
  Answer = {short, long}
  Size <- MCSize
  MaxFaults = 1
INVARIANTS FirstRungWins WinsAreCached
PROPERTIES IsLossyMemo EveryCallReturns
CHECK_DEADLOCK FALSE
