SPECIFICATION FairSpec
CONSTANTS
  a = a
  b = b
  c = c
  d = d
  x = x
  Nodes <- MCDiamond
  Msgs <- MCOne
  Origin <- MCOriginA
  Links <- MCDiamondLinks
  Members <- MCLinked
  Knows <- MCDiamond
  ZeroId <- MCNone
  Listening <- MCDiamond
  Lifetime = 1
  MayLose = FALSE
  MaxTime = 1
  Header = Header
  NoItem = NoItem
CHECK_DEADLOCK FALSE
INVARIANTS TraceSimple
PROPERTY EveryoneTold
