SPECIFICATION Spec
CONSTANTS
  t1 = t1
  t2 = t2
  home = home
  work = work
  spare = spare
  p = p
  q = q
  d = d
  e = e
  bad = bad
  None = None
  Task = {t1, t2}
  Name = {home, work, spare}
  Psk = {p, q}
  Data = {d, e, bad}
  Unfit = {bad}
  Calls <- PairCalls
  InitConns <- SomeConns
  Faults = {"read", "refuse", "lost", "mangle", "nosave", "reboot"}
  MaxFaults = 1
  MaxCalls = 2
INVARIANTS KeyKept
PROPERTIES ImplementsSavedConfig RenameAllOrNothing SavedAsAsked AnswersHold
CHECK_DEADLOCK FALSE
