SPECIFICATION FairSpec
CONSTANTS
  t1 = t1
  t2 = t2
  i1 = i1
  i2 = i2
  monitor = monitor
  usb = usb
  Task = {t1, t2}
  Iface = {i1, i2}
  Component = {monitor, usb}
  Monitor = monitor
  Calls <- TwoClients
  InitCaps <- Captures
  InitComps <- Firmwares
  Faults = {"read", "refuse", "lost", "reboot"}
  MaxFrames = 1
  MaxSeconds = 1
  MaxFaults = 1
  MaxCalls = 2
CHECK_DEADLOCK FALSE
INVARIANTS CaptureInv
PROPERTIES FilterHolds CleanedUp AutoStopped CallsEnd
