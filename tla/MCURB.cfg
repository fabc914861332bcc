SPECIFICATION Spec
CONSTANTS
  i1 = i1
  i2 = i2
  h1 = h1
  NoHandle = NoHandle
  InterfaceSize = 2
  PipeSize = 1
  MaxIsoPackets = 2
  Irps <- MCIrps
  Handles <- MCHandles
  Addresses = {1}
  Urbs <- MCUrbs
  Filters <- MCFilters
  IsoLengths = {0, 2}
  AllocMayFail = TRUE
INVARIANTS TypeOK NotesInFlight EndpointsTrue Paired DataOnce SetupAgrees IsoReadable WantedOnly
CONSTRAINT Bound
