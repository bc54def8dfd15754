SPECIFICATION Spec
CONSTANTS
    Tasks = {t1}
    Slots = {s1}
    Profiles <- DeletionOnly
    PushEnabled = TRUE
    AutoPush = TRUE
    MaxAttempts = 1
    MaxStalls = 1
    MaxStops = 1
    MaxFaults = 0
    CallsLost = FALSE
PROPERTY WaitingIsQuiet
CHECK_DEADLOCK FALSE
