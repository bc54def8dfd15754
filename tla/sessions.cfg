SPECIFICATION Spec
CONSTANTS
    Ops = {o1, o2}
    MaxOps = 4
    MaxTokens = 4
    MaxLinks = 2
    MaxTries = 2
    Tabs = {b1}
    Calls = {c1, c2}
    NoOp = none
SYMMETRY OpSymmetry
INVARIANT TypeOK UsedOnce DeactivationWins OldSessionsEnd NeverReplaysItself
CHECK_DEADLOCK FALSE
