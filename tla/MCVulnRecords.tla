---------------------------- MODULE MCVulnRecords ----------------------------
(* Model values and small domains for VulnRecords.                         *)
EXTENDS VulnRecords, TLC

CONSTANTS v1, v2, v3, p1

DefaultPolicy ==
    [global |-> [Critical |-> 7, High |-> 14, Medium |-> 30, Low |-> 60, None |-> 90],
     overrides |-> {}]

\* A product owner asked for three days on High.
StrictPolicy ==
    [DefaultPolicy EXCEPT !.overrides = {[product |-> p1, severity |-> "High", days |-> 3]}]

OnePolicy == {DefaultPolicy}
BothPolicies == {DefaultPolicy, StrictPolicy}

NoInts == {}

VulnSymmetry == Permutations(Vulns)

\* Two records with everything that hangs from them, or three and the notifications alone.
InDetail == (\E v \in Vulns : rows[v].phase = "unused") /\ Notifications = FreeNotifications
InOutline ==
    /\ \A v \in Vulns : products[v] = {} /\ links[v] = {} /\ rows[v].status # "Resolved"
    /\ \A c \in Comments : filed[c] = NotFiled
DetailOrOutline == InDetail \/ InOutline
=============================================================================
