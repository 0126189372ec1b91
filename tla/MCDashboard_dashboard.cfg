SPECIFICATION Spec
CONSTANTS
    None = None
    Sent = {d1}
    Kept = 1
    Docs = {d1, d2}
    Mine = {d1}
    Quiet = {}
    Lapsing = {}
    Folders = {f1}
    Filters <- FilterBars
    Outcomes = {"completed"}
    Tabs = {"sent", "drafts", "deleted"}
    MaxIds = 1
    MaxCalls = 2
    Shelves = {"starter", "mine", "favorites"}
    MaxChanges = 1
    Files <- PickedFiles
    Starters = {k1}
    Layouts <- SavedLayouts
    MaxTemplates = 2
    MaxJobs = 2
INVARIANTS
    CatchesUp BytesBehindEveryRow ChangesKept PickIsOffered
CHECK_DEADLOCK FALSE
CONSTRAINT TwoAtATime
