SPECIFICATION FairSpec
CONSTANTS
    head = head
    worker = worker
    Roles <- BothRoles
    Head = head
    Worker = worker
    BindingPos <- HeadFirst
    LaunchPos <- HeadFirst
    Selected = {worker}
    HeadRecipe = FALSE
    RestartOutlivesCaller = TRUE
    Vanishing = FALSE
    MaxFaults = 2
    MaxCrashes = 2
PROPERTY ReconciliationEnds
PROPERTY OperationsEnd
\* A record that was rolled back is final: the system may stop there.
CHECK_DEADLOCK FALSE
