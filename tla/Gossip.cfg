SPECIFICATION Spec
CONSTANTS
  a = a
  b = b
  c = c
  d = d
  x = x
  Nodes <- MCDiamond
  Msgs <- MCOne
  Origin <- MCOriginA
  Links <- MCAllLinks
  Members <- MCPartly
  Knows <- MCWithoutD
  ZeroId <- MCOne
  Listening <- MCDiamond
  Lifetime = 1
  MayLose = TRUE
  MaxTime = 3
  Header = Header
  NoItem = NoItem
CHECK_DEADLOCK FALSE
INVARIANTS DeliveriesSpaced OriginNotTold TraceIsPath
