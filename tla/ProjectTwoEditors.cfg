SPECIFICATION Spec
CONSTANTS
  x1 = x1
  x2 = x2
  x3 = x3
  bg = bg
  Editor = {d1, d2}
  Edit = {x1, x2, bg}
  Background = bg
  Invalid <- NoneInvalid
  Gone <- GoneMark
  NoMatch <- NoMatchMark
  MaxHistory = 2
  Channel = {"save"}
  Faults = {"lose", "abort", "reload"}
  TakenBack = {}
  MaxUndo = 0
INVARIANTS SavedIsStored
PROPERTIES SeparateSavesAreLinear
CHECK_DEADLOCK FALSE
