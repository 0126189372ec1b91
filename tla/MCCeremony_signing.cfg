SPECIFICATION FairSpec
CONSTANTS
    Nothing = Nothing
    Fields <- SignedBoxes
    Files = {"photo"}
    MaxAttempts = 3
    MaxFaults = 1
    MaxReloads = 1
INVARIANTS
    TypeOK SubmitsAreAccepted ScreenTruthful NeverLockedOut
PROPERTIES
    CopyRevealed
CHECK_DEADLOCK FALSE
