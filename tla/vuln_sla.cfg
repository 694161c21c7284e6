\* One record, both policies, every link table.
SPECIFICATION Spec
CONSTANTS
    v1 = v1
    v2 = v2
    v3 = v3
    p1 = p1
    None = None
    Vulns = {v1}
    Products = {p1}
    Vectors = {a1, a2}
    Impacts = {i1, i2}
    Watchers = {u1}
    FeedLinks = {k1}
    Comments = {}
    Notifications = {}
    Attachments = {x1}
    Policies <- BothPolicies
    StatusInputs = {"Open"}
    SeverityInputs = {"High", "Low"}
    ManualDues = {0}
    MaxNow = 2
\* Every id may be used up and every record deleted.
CHECK_DEADLOCK FALSE
INVARIANTS
    TypeOK
PROPERTIES
    SlaFollowsSeverity
