\* Two merges of the same pair, each way round, that overlap.
SPECIFICATION RSpec
CONSTANTS
    v1 = v1
    v2 = v2
    v3 = v3
    w1 = w1
    w2 = w2
    None = None
    Vulns = {v1, v2}
    Products = {}
    Vectors = {}
    Impacts = {}
    Watchers = {}
    FeedLinks = {}
    Comments = {}
    Notifications = {}
    Attachments = {}
    Policies <- OnePolicy
    StatusInputs = {"Open"}
    SeverityInputs = {"Medium"}
    ManualDues <- NoInts
    MaxNow = 4
    Workers = {w1, w2}
SYMMETRY RequestSymmetry
\* Every id may be used up and every record deleted.
CHECK_DEADLOCK FALSE
INVARIANTS
    MergeForest
