SPECIFICATION Spec
CONSTANTS
    head = head
    worker = worker
    Roles <- BothRoles
    Head = head
    Worker = worker
    BindingPos <- HeadFirst
    LaunchPos <- WorkerFirst
    Selected = {head, worker}
    HeadRecipe = TRUE
    RestartOutlivesCaller = FALSE
    Vanishing = TRUE
    MaxFaults = 3
    MaxCrashes = 2
INVARIANT TypeOK
INVARIANT NoOrphan
INVARIANT CutoverExclusive
INVARIANT SettledStates
INVARIANT AnsweredIsDurable
PROPERTY StopsSettled
PROPERTY PromotedGroupKept
PROPERTY ReconciledUnlessUnwritten
PROPERTY ReservationOutlivesHead
\* A record that was rolled back is final: the system may stop there.
CHECK_DEADLOCK FALSE
