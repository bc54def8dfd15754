SPECIFICATION Spec
CONSTANTS
    Tasks = {t1}
    Slots = {s1, s2}
    Profiles <- ChatOnly
    PushEnabled = TRUE
    AutoPush = TRUE
    MaxAttempts = 1
    MaxStalls = 1
    MaxStops = 1
    MaxFaults = 0
    CallsLost = FALSE
SYMMETRY SlotSymmetry
INVARIANT NotStranded
CHECK_DEADLOCK FALSE
