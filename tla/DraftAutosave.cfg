SPECIFICATION FairSpec
CONSTANTS
  x1 = x1
  x2 = x2
  x3 = x3
  bg = bg
  Editor = {d1}
  Edit = {x1, bg}
  Background = bg
  Invalid <- OneInvalid
  Gone <- GoneMark
  NoMatch <- NoMatchMark
  MaxHistory = 2
  Channel = {"save", "side"}
  Faults = {"lose", "abort", "reload"}
  TakenBack = {x1}
  MaxUndo = 1
 
PROPERTIES NeverSilentlyUnsaved
CHECK_DEADLOCK FALSE
