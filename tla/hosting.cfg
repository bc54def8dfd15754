SPECIFICATION Spec
CONSTANTS
    first = first
    second = second
    shop = shop
    mill = mill
    Projects = {first, second}
    Names = {shop, mill}
    Ports = {1, 2}
    PreviewPorts = {11, 12}
    Calls = {c1, c2}
    Acts = {a1, a2}
    MaxPreviews = 3
    NoPort = 0
    NoProject = nobody
    NoJob = nothing
    Studied <- Scenarios
INVARIANT TypeOK PendingIsUnderWay RowsTellTheTruth FoundAgain OnePreview
SYMMETRY CallSymmetry
CHECK_DEADLOCK FALSE
