SPECIFICATION Spec
CONSTANTS
    Rows = 4
    Pointed <- PointedRows
    NewHeight = 2
    HISTORY_LIMIT = 1
    MaxBoxes = 2
    Stored <- StoredLayouts
    Foreign <- ForeignLayouts
    Addresses = {"", "a@x", "b@x", "a", "r&d@x"}
    Malformed = {"a"}
    Unmailable = {"r&d@x"}
    MaxRecipients = 2
    MaxEvents = 4
INVARIANTS
    TypeOK EnvelopeSound RefusalsExplained
PROPERTIES
    KeepsTimeline
CHECK_DEADLOCK FALSE
CONSTRAINT
    OneHand
