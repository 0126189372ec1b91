SPECIFICATION Spec
CONSTANTS
    Users = {"v", "w"}
    Visitor = "v"
    Orgs = {"o1", "o2"}
    None = None
    Email <- SomeEmail
    Existing <- OldAccount
    Joined <- SomeJoined
    Offered <- SomeOffered
    TrialDays = 1
    MaxTime = 1
    MaxCalls = 2
    MaxPlanChanges = 1
    MaxLeft = 1
INVARIANTS
    TypeOK HomeOpens ServedWasOpen
PROPERTIES
    WorkspacesKept
CHECK_DEADLOCK FALSE
