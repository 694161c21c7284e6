---------------------------- MODULE MCVulnRequests ----------------------------
(* Model values and small domains for VulnRequests.                        *)
EXTENDS VulnRequests, TLC

CONSTANTS v1, v2, v3, w1, w2

DefaultPolicy ==
    [global |-> [Critical |-> 7, High |-> 14, Medium |-> 30, Low |-> 60, None |-> 90],
     overrides |-> {}]

OnePolicy == {DefaultPolicy}

NoInts == {}

\* Records and workers are interchangeable.
RequestSymmetry == Permutations(Vulns) \cup Permutations(Workers)
=============================================================================
