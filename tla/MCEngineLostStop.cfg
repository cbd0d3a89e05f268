SPECIFICATION Spec
CONSTANTS
    head = head
    worker = worker
    Roles <- BothRoles
    Head = head
    Worker = worker
    BindingPos <- HeadFirst
    LaunchPos <- HeadFirst
    Selected = {worker}
    HeadRecipe = FALSE
    RestartOutlivesCaller = FALSE
    Vanishing = TRUE
    MaxFaults = 1
    MaxCrashes = 1
INVARIANT RolledBackSettled
\* A record that was rolled back is final: the system may stop there.
CHECK_DEADLOCK FALSE
