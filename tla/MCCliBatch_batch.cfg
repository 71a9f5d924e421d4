SPECIFICATION FairSpec
CONSTANTS
  if1 = if1
  if2 = if2
  route = route
  acl = acl
  mss = mss
  peer = peer
  ip = ip
  Top = Top
  Context <- Contexts
  Routes = {route, acl}
  Tunes = {mss}
  Peers = {peer}
  Opaque = {ip}
  Batches <- UpToThree
  Options <- Choices
  InitConfigs <- Configs
  OtherItems = {acl}
  MaxOther = 1
  UndoLimit = 3
  Faults <- Mishaps
CHECK_DEADLOCK FALSE
INVARIANTS OkMeansApplied OthersUntouched DeniedIsReported FailureRestores NeverDestroys
PROPERTIES SavedOnlyWhenClean BatchEnds
