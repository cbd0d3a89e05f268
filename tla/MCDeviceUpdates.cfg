SPECIFICATION MCSpec
CONSTANTS
    d1 = d1
    v1 = v1
    s1 = s1
    h1 = h1
    Devices = {d1, d2}
    Versions = {v1, v2}
    Loops = {l1, l2, l3}
    NoLoop = none
    Handlers = {h1, h2}
    Services = {s1, s2}
    Host <- HostedOnFirst
    Alias <- NamedFirst
    Absent = absent
    Nobody = nobody
    Empty = empty
    Torn = torn
    NoFile = nofile
    MaxFaults = 0
    MaxReconnects = 0
    MaxRequests = 3
    MaxSaveFaults = 1
    MaxRestarts = 1
INVARIANT UpdatesSafety
INVARIANT AloneSettled
PROPERTY OthersUntouched
SYMMETRY Symmetry
\* The requests of an instance are bounded.
CHECK_DEADLOCK FALSE
