SPECIFICATION MCSupervisorSpec
CONSTANTS
    Heads = {hd}
    Workers = {wk}
    Requesters = {x1, x2}
    Supervisor = sup
    Unlocked = unlocked
    NoRecord = norecord
    MaxStarts = 2
    MaxAsks = 3
    MaxMishaps = 2
SYMMETRY Symmetry
INVARIANT ReleasedIsClean
CHECK_DEADLOCK FALSE
