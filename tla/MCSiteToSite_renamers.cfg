SPECIFICATION Spec
CONSTANTS
  t1 = t1
  t2 = t2
  home = home
  work = work
  spare = spare
  p = p
  q = q
  d = d
  e = e
  bad = bad
  None = None
  Task = {t1, t2}
  Name = {home, work, spare}
  Psk = {p, q}
  Data = {d, e, bad}
  Unfit = {bad}
  Calls <- RenamersCalls
  InitConns <- OnlyTwo
  Faults = {"read"}
  MaxFaults = 1
  MaxCalls = 2
PROPERTIES DropsACopy
CHECK_DEADLOCK FALSE
