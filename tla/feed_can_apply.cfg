\* A merge leaves a marker in references_json that the ingest cannot put in a set.
SPECIFICATION Spec
CONSTANTS
    v1 = v1
    v2 = v2
    v3 = v3
    p1 = p1
    None = None
    Vulns = {v1, v2}
    Products = {}
    Vectors = {}
    Impacts = {}
    Watchers = {}
    FeedLinks = {}
    Comments = {}
    Notifications = {}
    Attachments = {}
    Policies <- OnePolicy
    StatusInputs = {"Open"}
    SeverityInputs = {"Medium"}
    ManualDues <- NoInts
    MaxNow = 4
SYMMETRY VulnSymmetry
\* Every id may be used up and every record deleted.
CHECK_DEADLOCK FALSE
INVARIANTS
    FeedCanApply
