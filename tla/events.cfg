SPECIFICATION LiveSpec
CONSTANTS
    t1 = t1
    t2 = t2
    Tasks = {t1, t2}
    Publishers = {p1, p2}
    NoTask = none
    Last = 2
    Attempts = 2
    Written <- Before
    Budgets <- Studied
    Fetches = {f1, f2}
INVARIANT TypeOK GivesUpOnlyUnderLoad OnlyTheSelectedTask NothingFallsBetween QuietOfficeIsCurrent
PROPERTY CatchesUp
CHECK_DEADLOCK FALSE
