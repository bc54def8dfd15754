SPECIFICATION Spec
CONSTANTS
    Tasks = {t1}
    Slots = {s1}
    Profiles <- ChangeOnly
    PushEnabled = TRUE
    AutoPush = TRUE
    MaxAttempts = 2
    MaxStalls = 1
    MaxStops = 1
    MaxFaults = 1
    CallsLost = FALSE
INVARIANT NothingLeftBehind
CHECK_DEADLOCK FALSE
