SPECIFICATION Spec
CONSTANTS
    Tasks = {t1}
    Slots = {s1, s2}
    Profiles <- RacingKinds
    PushEnabled = TRUE
    AutoPush = TRUE
    MaxAttempts = 1
    MaxStalls = 1
    MaxStops = 1
    MaxFaults = 0
    CallsLost = FALSE
SYMMETRY SlotSymmetry
CONSTRAINT FewDecisions
INVARIANT NoStaleConsent
PROPERTY KeepsPromise StatusMovesAlongEdges
CHECK_DEADLOCK FALSE
