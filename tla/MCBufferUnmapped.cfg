SPECIFICATION Spec
CONSTANTS
  p1 = p1
  p2 = p2
  p3 = p3
  MinBufferSize = 6
  MaxBufferSize = 8
  GlobalHeaderLen = 2
  RecordHeaderLen = 2
  DefaultSnaplen = 2
  BufferSizes = {5, 6, 8, 9}
  Snaplens = {0, 1, 3}
  Packets <- UnmappedPackets
  ReadLengths = {0, 1, 3}
  MaxPended = 2
  PacketIds = {p1, p2, p3}
  GlobalId = global
  NoId = none
INVARIANT RecordsComplete
