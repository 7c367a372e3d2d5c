SPECIFICATION GroupedSpec
CONSTANTS
  Hosts = {h1, h2, h3}
  Base = 2
  Digits = 2
  Colors = {c1}
  Keys = {0}
  NoColor = NoColor
  MaxIds = 2
  MaxCalls = 4
  MaxDepth = 1
SYMMETRY Symmetry
INVARIANT SplitAgree
CHECK_DEADLOCK FALSE
