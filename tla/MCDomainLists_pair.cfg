SPECIFICATION FairSpec
CONSTANTS
  t1 = t1
  t2 = t2
  home = home
  work = work
  x = x
  y = y
  Task = {t1, t2}
  Name = {home, work}
  Entry = {x, y}
  MaxLists = 2
  Calls <- PairCalls
  InitStores <- PairStores
  Faults = {"read", "lost", "nosave", "reboot"}
  MaxCalls = 3
INVARIANTS NoLostAdd
PROPERTIES ImplementsSavedConfig CallsEnd
CHECK_DEADLOCK FALSE
