SPECIFICATION Spec
CONSTANTS
  t1 = t1
  t2 = t2
  k1 = k1
  k2 = k2
  a = a
  b = b
  Task = {t1, t2}
  MaxIfaces = 2
  PeerKey = {k1, k2}
  Net = {a, b}
  Interval = {10, 25}
  Keepalive = 25
  Calls <- AllCalls
  InitConfigs <- Configs
  Faults = {"read", "refuse", "drop", "lost", "reboot"}
  MaxCalls = 2
CHECK_DEADLOCK FALSE
INVARIANTS PeersInv NoLostIps
PROPERTIES ImplementsSavedConfig DirtyIsRight NewIsNew
