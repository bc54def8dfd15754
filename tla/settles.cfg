SPECIFICATION LiveSpec
CONSTANTS
    Tasks = {t1}
    Slots = {s1}
    Profiles <- LiveKinds
    PushEnabled = TRUE
    AutoPush = TRUE
    MaxAttempts = 2
    MaxStalls = 1
    MaxStops = 2
    MaxFaults = 1
    CallsLost = FALSE
INVARIANT NotStranded
PROPERTY Settles CleanedUp
CHECK_DEADLOCK FALSE
