SPECIFICATION MCOperationsSpec
CONSTANTS
    d1 = d1
    before = before
    Recipes = {r1, r2}
    Configs = {c1, c2}
    Name <- OwnName
    Devices = {d1, d2}
    Handlers = {h1, h2}
    Previous <- ServiceBefore
    None = none
    MaxRequests = 3
    MaxFaults = 1
    Pids = {h1, h2}
    NoProcess = noprocess
    MaxSpawns = 3
    MaxUpgrades = 2
    MaxUpgradeFaults = 2
    Operators = {h1, h2}
    Missing = missing
    MaxOperations = 3
    MaxInstallFaults = 2
    Addresses = {r1, r2}
    Requests = {h1, h2}
    OwnSettings = {plain, clashing, comment}
    Clashing = {clashing}
    Comments = {comment}
    NoSettings = nosettings
    Blank = blank
    Mixed = mixed
    MaxConfigures = 2
    MaxShifts = 1
    MaxEdits = 1
    MaxSettingsFaults = 1
    Preparers = {h1, h2, p3}
    NoFile = nofile
    Pieces = 2
    MaxPreparations = 4
    MaxFetchFaults = 2
SYMMETRY Symmetry
INVARIANT RecipeSafety
INVARIANT UpgradeSafety
INVARIANT InstallSafety
INVARIANT SettingsSafety
INVARIANT FilesSafety
PROPERTY NamedEndpointsAnswered
PROPERTY RunningServicesNamed
PROPERTY DeviceKeepsServing
PROPERTY PairWholeOrKept
PROPERTY UpgradeRunsNew
\* Requests, operations and faults are bounded.
CHECK_DEADLOCK FALSE
