SPECIFICATION FairSpec
CONSTANTS
  wg0 = wg0
  wg2 = wg2
  gig = gig
  none = none
  Iface = {wg0, wg2, gig}
  NoIface = none
  Tunnel = {wg0, wg2}
  Happ = {wg0}
  ListId = {0, 1, 2}
  TableId = {4097, 4098}
  PathClass = {"WG0", "WAN"}
  Routers <- SomeRouters
  Shapes <- SomeShapes
  Calls <- SomeCalls
  LiveLimit = 1
  PollLimit = 1
  MaxLinked = 1
  MaxPackets = 2
  MaxChanges <- SomeChanges
CHECK_DEADLOCK FALSE
INVARIANTS FlowInv VerdictsHold SessionsKept
PROPERTIES CallsEnd
