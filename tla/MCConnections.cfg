SPECIFICATION MCConnectionsSpec
CONSTANTS
    Devices = {d1, d2}
    Versions = {v1}
    Loops = {l1, l2}
    NoLoop = none
    MaxFaults = 2
    MaxReconnects = 1
    AgentBuffer = 1
    RelayBuffer = 1
    WireBuffer = 1
    MaxLongLines = 2
    MaxLines = 2
INVARIANT PoolSafety
INVARIANT LogsTypeOK
PROPERTY StaysReachable
PROPERTY CanceledEnds
PROPERTY StreamsEnd
PROPERTY AgentLetsGo
\* When every device is closed and no goroutine is left there is nothing to do, nor
\* after a log stream.
CHECK_DEADLOCK FALSE
