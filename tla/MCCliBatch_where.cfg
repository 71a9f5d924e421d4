SPECIFICATION Spec
CONSTANTS
  if1 = if1
  if2 = if2
  route = route
  acl = acl
  mss = mss
  peer = peer
  ip = ip
  Top = Top
  Context <- Contexts
  Routes = {route, acl}
  Tunes = {mss}
  Peers = {peer}
  Opaque = {ip}
  Batches <- TwoMss
  Options <- Plain
  InitConfigs <- OnlyEmpty
  OtherItems = {}
  MaxOther = 0
  UndoLimit = 4
  Faults <- OnlyVerify
CHECK_DEADLOCK FALSE
INVARIANTS UndoneWhereApplied
