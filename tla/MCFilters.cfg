\* Devices p1 (a hub) and p2, two target filters, one request at a time.
SPECIFICATION Spec
CONSTANTS
  Pdos = {p1, p2}
  Hubs = {p1}
  Tgts = {f1, f2}
  Root = Root
  Control = Control
  Reqs = {r1}
  NoPdo = NoPdo
INVARIANTS TypeOK LocksOwed NoUseAfterFree RootHoldsLast OneFilterPerDevice ChildrenFiltered
CHECK_DEADLOCK FALSE
PROPERTY RemovalEnds
