SPECIFICATION Spec
CONSTANTS
    Tasks = {t1}
    Slots = {s1}
    Profiles <- FaultyKinds
    PushEnabled = TRUE
    AutoPush = TRUE
    MaxAttempts = 2
    MaxStalls = 1
    MaxStops = 2
    MaxFaults = 1
    CallsLost = TRUE
INVARIANT TypeOK AskedOnce PushIsCovered
PROPERTY WorkKept CompletedPushIsRecorded RejectionHolds
CHECK_DEADLOCK FALSE
