SPECIFICATION Spec
CONSTANTS
  hit = hit
  miss = miss
  Ids <- MCIds
  Matching <- MCMatching
  GlobalId = global
  DescId = descriptors
  NoId = none
  GlobalHeaderLen = 2
  RecordHeaderLen = 2
  Snaplen = 1
  MaxRecordSize = 1
  MaxRecords = 2
INVARIANTS TypeOK OutputIsFilteredStream EndsWithRecord SummaryAgrees DroppedCounted
PROPERTY CaptureEnds
CHECK_DEADLOCK FALSE
