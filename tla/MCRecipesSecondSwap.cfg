SPECIFICATION Spec
CONSTANTS
    d1 = d1
    before = before
    Recipes = {r1, r2}
    Configs = {c1, c2}
    Name <- OwnName
    Devices = {d1}
    Handlers = {h1}
    Previous <- ServiceBefore
    None = none
    MaxRequests = 6
    MaxFaults = 0
SYMMETRY Symmetry
INVARIANT OneServiceActive
\* When the requests are used up the system may stop.
CHECK_DEADLOCK FALSE
