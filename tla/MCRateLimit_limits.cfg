SPECIFICATION Spec
CONSTANTS
    Replicas = {"r1", "r2"}
    Offered <- OneOfEach
    Budget <- SmallBudgets
    Window = 2
    SEQ_LIMIT = 2
    MaxTime = 2
    MaxCalls = 3
    MaxLate = 1
INVARIANTS
    TypeOK CapHolds RefusedOnlyOverBudget
CHECK_DEADLOCK FALSE
