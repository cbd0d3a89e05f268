SPECIFICATION MCSpec
CONSTANTS
    d1 = d1
    v1 = v1
    s1 = s1
    h1 = h1
    Devices = {d1}
    Versions = {v1}
    Loops = {l1, l2, l3}
    NoLoop = none
    Handlers = {h1, h2}
    Services = {}
    Host <- HostedOnFirst
    Alias <- NamedFirst
    Absent = absent
    Nobody = nobody
    Empty = empty
    Torn = torn
    NoFile = nofile
    MaxFaults = 0
    MaxReconnects = 0
    MaxRequests = 3
    MaxSaveFaults = 0
    MaxRestarts = 0
INVARIANT ConfiguredIsServed
\* The requests of an instance are bounded.
CHECK_DEADLOCK FALSE
