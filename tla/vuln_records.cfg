\* Three records: redirects and rows under creates, updates, merges, deletes and ingests;
\* what hangs from a record beside its notifications, for two of them.
SPECIFICATION Spec
CONSTANTS
    v1 = v1
    v2 = v2
    v3 = v3
    p1 = p1
    None = None
    Vulns = {v1, v2, v3}
    Products = {p1}
    Vectors = {}
    Impacts = {}
    Watchers = {}
    FeedLinks = {k1}
    Comments = {c1}
    Notifications = {n1}
    Attachments = {}
    Policies <- OnePolicy
    StatusInputs = {"Open", "Resolved"}
    SeverityInputs = {"Medium"}
    ManualDues <- NoInts
    MaxNow = 4
CONSTRAINT DetailOrOutline
SYMMETRY VulnSymmetry
\* Every id may be used up and every record deleted.
CHECK_DEADLOCK FALSE
INVARIANTS
    MergeForest
    RedirectIntact
    ResolutionStamped
    MergedRecordIsDrained
PROPERTIES
    RedirectKept
    ResolutionKept
    EvidenceFollowsMerge
