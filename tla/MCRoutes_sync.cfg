SPECIFICATION Spec
CONSTANTS
  t1 = t1
  t2 = t2
  d1 = d1
  d2 = d2
  tv = tv
  tvHome = tvHome
  plain = plain
  wg = wg
  isp = isp
  Task = {t1, t2}
  Dest = {d1, d2}
  ListName = {tv, tvHome}
  Plain = plain
  Prefixes <- TagPrefixes
  Resolves <- Addresses
  Index = {1, 2}
  Iface = {wg, isp}
  Calls <- TwoClients
  InitConfigs <- Configs
  MaxChanges = 2
  Faults = {"read", "refuse", "lost", "reboot"}
  MaxCalls = 4
CHECK_DEADLOCK FALSE
INVARIANTS RoutesInv
PROPERTIES ImplementsSavedConfig OnlyTaggedDests Converged
