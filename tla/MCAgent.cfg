SPECIFICATION MCAgentSpec
CONSTANTS
    g1 = g1
    c1 = c1
    c2 = c2
    Names = {n1, n2}
    Groups = {a1, a2}
    GPUGroups = {a1}
    Legacy = legacy
    Tasks = {x1, x2}
    NoTask = notask
    Gone = gone
    MaxLaunches = 2
    MaxMutations = 2
    MaxAgentEnds = 1
    Grants = {g1, g2}
    Target <- TargetOf
    Subject <- SubjectOf
    Agents = {here, there}
    Here = here
    Candidates = {c1, c2}
    Requests = {x1, x2}
    Nobody = nobody
    Lifetime = 1
    Skew = 1
    MaxClock = 4
    MaxFaults = 1
    Loaders = {l1, l2}
    KeyPairs = {k1, k2}
    NoKeyFile = nokey
    PartKeyFile = partkey
    ContainerIds = {x1, x2}
    Processes = {p1}
    HostNames = {m1, m2}
    Candidate = m2
    ServicePort = sp
    RendezvousPort = rp
    Vacant = vacant
    Heads = {hd}
    Workers = {wk}
    Requesters = {x1, x2}
    Supervisor = sup
    Unlocked = unlocked
    NoRecord = norecord
    MaxStarts = 2
    MaxAsks = 2
    MaxMishaps = 2
SYMMETRY Symmetry
INVARIANT ContainersSafety
INVARIANT GrantSafety
INVARIANT KeySafety
INVARIANT PreflightSafety
INVARIANT SupervisorSafety
PROPERTY CleanupSparesOthers
PROPERTY StopSettlesFirst
PROPERTY MembersKeepTheirApi
PROPERTY GrantsAreSingleUse
PROPERTY StopIsNotUndone
\* Requests, launches and faults are bounded.
CHECK_DEADLOCK FALSE
