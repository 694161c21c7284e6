----------------------------- MODULE MCBackground -----------------------------
(* What goes on behind the requests, checked side by side: a behaviour is a behaviour of
   the part that its initial state chooses; the other parts stay in their initial state. *)
EXTENDS BackgroundJobs, LiveHub, ResponseCache

CONSTANT Parts
VARIABLE part

BackgroundInit == part \in Parts /\ Init /\ HubInit /\ CacheInit

BackgroundNext ==
  \/ part = "jobs" /\ Next /\ UNCHANGED <<part, hubVars, cacheVars>>
  \/ part = "hub" /\ HubNext /\ UNCHANGED <<part, vars, cacheVars>>
  \/ part = "cache" /\ CacheNext /\ UNCHANGED <<part, vars, hubVars>>

BackgroundSpec ==
  /\ BackgroundInit /\ [][BackgroundNext]_<<part, vars, hubVars, cacheVars>>
  /\ Fairness /\ HubFairness /\ CacheFairness
=============================================================================
