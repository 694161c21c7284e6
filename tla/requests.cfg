\* Two workers and two records: what survives every interleaving.
SPECIFICATION RSpec
CONSTANTS
    v1 = v1
    v2 = v2
    v3 = v3
    w1 = w1
    w2 = w2
    None = None
    Vulns = {v1, v2}
    Products = {}
    Vectors = {}
    Impacts = {}
    Watchers = {}
    FeedLinks = {k1}
    Comments = {c1}
    Notifications = {}
    Attachments = {}
    Policies <- OnePolicy
    StatusInputs = {"Resolved"}
    SeverityInputs = {"Medium"}
    ManualDues <- NoInts
    MaxNow = 2
    Workers = {w1, w2}
SYMMETRY RequestSymmetry
\* Every id may be used up and every record deleted.
CHECK_DEADLOCK FALSE
PROPERTIES
    UndisturbedIsSerial
    NothingLost
