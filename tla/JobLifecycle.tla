---------------------------- MODULE JobLifecycle ----------------------------
(***************************************************************************)
(* What those who poll plugin runs and reports may rely on, whoever        *)
(* executes them: a job is submitted once and settled once, unless its     *)
(* message came twice; a report can be fetched from the moment it is ready *)
(* until the purge withdraws it or another execution fails.                *)
(***************************************************************************)
CONSTANTS Jobs,
          Reports  \* the jobs that end with a file

VARIABLES status,     \* job -> what its row says
          fetchable,  \* reports that can be downloaded
          again       \* jobs that may be executed once more

lifecycleVars == <<status, fetchable, again>>

Outcomes(j) == IF j \in Reports THEN {"ready", "failed"} ELSE {"ready", "failed", "partial"}
Present(j) == status[j] \notin {"none", "purged"}

Submit(j) ==
  /\ status[j] = "none" /\ status' = [status EXCEPT ![j] = "working"]
  /\ UNCHANGED <<fetchable, again>>

Settle(j, outcome) ==
  /\ status[j] = "working" \/ (j \in again /\ Present(j))
  /\ status' = [status EXCEPT ![j] = outcome]
  /\ fetchable' = IF j \in Reports /\ outcome = "ready" THEN fetchable \cup {j}
                                                        ELSE fetchable \ {j}
  /\ UNCHANGED again

Repeat(j) ==
  /\ status[j] # "none" /\ again' = again \cup {j}
  /\ UNCHANGED <<status, fetchable>>

\* The file goes first ...
Withdraw(r) ==
  /\ fetchable' = fetchable \ {r} /\ UNCHANGED <<status, again>>

\* ... then the rows, all at once.
Purge(js) ==
  /\ \A j \in js : Present(j)
  /\ status' = [j \in Jobs |-> IF j \in js THEN "purged" ELSE status[j]]
  /\ fetchable' = fetchable \ js /\ UNCHANGED again

Init ==
  /\ status = [j \in Jobs |-> "none"] /\ fetchable = {} /\ again = {}

Next ==
  \/ \E j \in Jobs : Submit(j) \/ Repeat(j) \/ \E outcome \in Outcomes(j) : Settle(j, outcome)
  \/ \E r \in Reports : Withdraw(r)
  \/ \E js \in SUBSET Jobs : Purge(js)

Spec == Init /\ [][Next]_lifecycleVars
=============================================================================
