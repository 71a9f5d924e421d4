SPECIFICATION FairSpec
CONSTANTS
  t1 = t1
  t2 = t2
  default = default
  office = office
  stale = stale
  none = none
  h1 = h1
  h2 = h2
  o1 = o1
  Task = {t1, t2}
  Alias = {default, office, stale}
  Default = default
  NoAlias = none
  Hosts <- TwoRouters
  Calls <- TwoClients
  Answers = {"fails", "lost", "forbidden", "denied", "known"}
  MaxPolls = 3
  MaxTime = 3
  MaxCalls = 2
CHECK_DEADLOCK FALSE
INVARIANTS ClientInv
PROPERTIES OnlyNamedRouter ObeyedOnce CallsEnd
