SPECIFICATION LiveSpec
CONSTANTS
    staging = staging
    own = own
    Branches = {staging, own}
    Default = staging
    Tasks = {t1, t2}
    Somebody = somebody
    NoRef = none
    MaxCommits = 2
    NoTask = nobody
    MaxDirs = 2
    Retain = FALSE
    Studied <- Scenarios
INVARIANT TypeOK WorkKept WorksOnItsOwn OneTaskPerBranch
PROPERTY OnlyForward NothingLeft
CHECK_DEADLOCK FALSE
