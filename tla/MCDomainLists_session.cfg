SPECIFICATION Spec
CONSTANTS
  t1 = t1
  t2 = t2
  home = home
  work = work
  x = x
  y = y
  Task = {t1}
  Name = {home, work}
  Entry = {x, y}
  MaxLists = 4
  Calls <- SessionCalls
  InitStores <- SessionStores
  Faults = {"lost", "reject", "nosave", "reboot"}
  MaxCalls = 3
PROPERTIES NamesStable AnswersHold
CHECK_DEADLOCK FALSE
