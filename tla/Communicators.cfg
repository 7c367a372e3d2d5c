SPECIFICATION MCSpec
CONSTANTS
  Hosts = {h1, h2, h3}
  Base = 2
  Digits = 3
  Colors = {c1, c2}
  Keys <- TwoKeys
  NoColor = NoColor
  MaxIds = 2
  MaxCalls = 4
  MaxDepth = 1
SYMMETRY Symmetry
INVARIANTS CommsAgree SplitsInStepAgree PanicOnlyOvertaken IdsFresh NoReplyLost
CHECK_DEADLOCK FALSE
