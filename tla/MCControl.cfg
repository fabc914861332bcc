SPECIFICATION Spec
CONSTANTS
  f1 = f1
  f2 = f2
  i1 = i1
  i2 = i2
  u1 = u1
  d1 = d1
  Files <- MCFiles
  Irps <- MCIrps
  Urbs <- MCUrbs
  Devices <- MCDevices
  NoFile = NoFile
  MaxUnread = 2
  MultiThreaded = FALSE
INVARIANTS TypeOK CaptureExclusive CleanSlate ReadsHaveBuffer
PROPERTY CaptureReleased
