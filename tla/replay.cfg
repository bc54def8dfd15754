SPECIFICATION Spec
CONSTANTS
    Ops = {o1, o2}
    MaxOps = 4
    MaxTokens = 4
    MaxLinks = 2
    MaxTries = 2
    Tabs = {b1, b2}
    Calls = {c1}
    NoOp = none
INVARIANT ReplaySignsOut
CHECK_DEADLOCK FALSE
