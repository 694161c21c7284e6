----------------------------- MODULE VulnRequests -----------------------------
(***************************************************************************)
(* The handlers of VulnRecords when requests overlap.  The web workers     *)
(* share nothing but the database, which runs READ COMMITTED, and no query *)
(* locks a row or checks a version.  A request that changes a record       *)
(* therefore has two steps: it loads the record, checks its guards and     *)
(* keeps the loaded values in its session; later it flushes the columns it *)
(* changed and commits.  A merge has a third in between: it reads the rows *)
(* that hang from its records and relinks them, and whatever is inserted   *)
(* before its commit it has not read.  What the other handlers query late  *)
(* (policy, mappings, link rows) is read in the second step.  Handlers     *)
(* that write only rows of their own keep their one step.                  *)
(*                                                                         *)
(* A request that waits for a row lock commits after the one that holds it *)
(* or fails: the order of the commits is the order of the steps here.  No  *)
(* record has version mappings, whose rows a merge treats like the links.  *)
(***************************************************************************)
EXTENDS VulnRecords

CONSTANT Workers      \* requests served at a time

VARIABLE req          \* req[w]: what w has loaded, or Idle

rvars == <<vars, req>>

Idle == [kind |-> "idle"]

\* A request names its records and remembers how it saw them.  What else the
\* client sent plays no part before the commit and is chosen there, and so does
\* which handler of a loaded record it called.
Begin(w, kind, on, into) ==
    /\ req[w] = Idle
    /\ req' = [req EXCEPT ![w] = [kind |-> kind, on |-> on, into |-> into,
                                  seen |-> [v \in on |-> rows[v]]]]
    /\ UNCHANGED vars

Finish(w) == req' = [req EXCEPT ![w] = Idle]

InFlight(w, kind) == req[w].kind = kind

\* The flush writes the columns whose value differs from the loaded one.
Overlay(current, loaded, edited) ==
    [c \in DOMAIN current |-> IF edited[c] # loaded[c] THEN edited[c] ELSE current[c]]

-----------------------------------------------------------------------------

\* POST /vulnerabilities/<target>/merge
LoadMerge(w, t, s) ==
    /\ MergeAllowed(t, s, rows[t], rows[s])
    /\ Begin(w, "merge", {t, s}, t)

\* Fault: comments are not relinked.
RelinkedNotComments(s) == {n \in Notifications : filed[n].under = s}

\* What the bulk UPDATEs of a merge find under the source.
Relinked(s) == {x \in Filed \ Attachments : filed[x].under = s}

Under(v) == {x \in Comments \cup Notifications : filed[x].under = v}

\* The queries and bulk UPDATEs of a merge: the link rows of the source and the
\* keys the target has, and what is filed under the source (hung is kept for
\* NothingLost and Undisturbed alone).
Relink(w) ==
    /\ InFlight(w, "merge")
    /\ LET t == req[w].into
           s == CHOOSE v \in req[w].on : v # t
       IN  req' = [req EXCEPT ![w] =
              [kind |-> "moving", on |-> req[w].on, into |-> t, from |-> s,
               seen |-> req[w].seen, took |-> links[s], had |-> links[t],
               moves |-> Relinked(s),
               hung |-> Under(s)]]
    /\ UNCHANGED vars

\* The link rows a merge has read are written by their own ids, each where it is by
\* now, since another merge of the source may have taken it along: those of keys the
\* target had are deleted, the others go to the target unless it has got the key from
\* elsewhere (IntegrityError).  What is filed moves if it is still there.
MoveTaken(w) ==
    LET t == req[w].into
        s == req[w].from
        moved == req[w].took \ req[w].had
    IN  \E at \in [req[w].took -> Live] :
           /\ \A k \in req[w].took : /\ ~rows[s].isMerged => at[k] = s
                                     /\ k \notin moved => at[k] # t
           /\ \A k \in moved : /\ k \in links[at[k]]
                               /\ k \in links[t] => at[k] = t
           /\ links' = [v \in Vulns |-> IF v = t THEN links[t] \cup moved
                                        ELSE links[v] \ {k \in req[w].took : at[k] = v}]
           /\ filed' = [x \in Filed |->
                 IF x \in req[w].moves /\ filed[x].under = s
                 THEN [filed[x] EXCEPT !.under = t] ELSE filed[x]]

\* The flush of the two records, each of which must still be there (StaleDataError),
\* and the commit of the whole transaction.
CommitMerge(w) ==
    /\ InFlight(w, "moving")
    /\ req[w].on \subseteq Live
    /\ LET t == req[w].into
           s == req[w].from
           seen == req[w].seen
       IN  rows' = [rows EXCEPT ![s] = Overlay(@, seen[s], MergedAway(seen[s], t, now + 1)),
                                ![t] = Overlay(@, seen[t], Absorbing(seen[t]))]
    /\ MoveTaken(w)
    /\ Tick
    /\ Finish(w)
    /\ UNCHANGED <<products, affected, policy>>

\* The other handlers load the record they are about before anything else, the batch
\* update each of its records.
LoadEdited(w, vs) == vs # {} /\ vs \subseteq Live /\ Begin(w, "edit", vs, None)

\* PUT /vulnerabilities/<id> without attack_vectors
CommitUpdate(w, v, status, severity) ==
    /\ InFlight(w, "edit") /\ req[w].on = {v}
    /\ v \in Live
    /\ LET loaded == req[w].seen[v]
           st == IF status = Absent THEN loaded.status ELSE status
           se == IF severity = Absent THEN loaded.severity ELSE severity
       IN  rows' = [rows EXCEPT ![v] = Overlay(@, loaded,
                       Edited(loaded, st, se, products[v], policy, now + 1))]
    /\ Notify(v)
    /\ Tick
    /\ Finish(w)
    /\ UNCHANGED <<products, affected, links, policy>>

\* Fault: merged records are edited like any other.
CommitBatchMergedToo(w, patch) ==
    /\ InFlight(w, "edit")
    /\ req[w].on \subseteq Live
    /\ rows' = [v \in Vulns |->
          IF v \notin req[w].on THEN rows[v]
          ELSE Overlay(rows[v], req[w].seen[v],
                       BatchEdited(req[w].seen[v], patch, products[v], policy, now + 1))]
    /\ Tick
    /\ Finish(w)
    /\ UNCHANGED <<products, affected, links, filed, policy>>

\* PATCH /vulnerabilities/batch: is_merged is the loaded one, and one record
\* deleted meanwhile fails the whole batch.
CommitBatch(w, patch) ==
    /\ InFlight(w, "edit")
    /\ LET seen == req[w].seen
           targets == {v \in req[w].on : ~seen[v].isMerged}
       IN  /\ targets \subseteq Live
           /\ rows' = [v \in Vulns |->
                 IF v \notin targets THEN rows[v]
                 ELSE Overlay(rows[v], seen[v],
                              BatchEdited(seen[v], patch, products[v], policy, now + 1))]
    /\ Tick
    /\ Finish(w)
    /\ UNCHANGED <<products, affected, links, filed, policy>>

\* POST /vulnerabilities/<id>/enrich: the upstream is asked between the steps.
CommitEnrich(w, v, severity, force, refs, rescored) ==
    /\ InFlight(w, "edit") /\ req[w].on = {v}
    /\ v \in Live
    /\ LET loaded == req[w].seen[v]
           new == IF force THEN severity ELSE loaded.severity
           due == IF new # loaded.severity \/ rescored
                  THEN SlaDays(new, products[v], policy) ELSE loaded.dueDays
       IN  rows' = [rows EXCEPT ![v] = Overlay(@, loaded,
                       [loaded EXCEPT !.severity = new, !.dueDays = due,
                                      !.marker = @ /\ ~(force /\ refs)])]
    /\ Notify(v)
    /\ Finish(w)
    /\ UNCHANGED <<products, affected, links, policy, now>>

\* A feed item for a record that is there: the references that refuse it are the
\* loaded ones; the source row and the correlated components are queried late.
CommitFeed(w, v, severity, refs, keys) ==
    /\ InFlight(w, "edit") /\ req[w].on = {v}
    /\ v \in Live
    /\ LET loaded == req[w].seen[v]
       IN  /\ CanApply(loaded, refs)
           /\ severity \in SeverityInputs \cup {loaded.severity}
           /\ rows' = [rows EXCEPT ![v] =
                          Overlay(@, loaded, [loaded EXCEPT !.severity = severity])]
    /\ links' = [links EXCEPT ![v] = @ \cup keys]
    /\ Finish(w)
    /\ UNCHANGED <<products, affected, filed, policy, now>>

\* DELETE /vulnerabilities/<id>
CommitDelete(w, v) ==
    InFlight(w, "edit") /\ req[w].on = {v} /\ Delete(v) /\ Finish(w)

\* The request fails, its worker is killed or the upstream times out.
Abort(w) == req[w] # Idle /\ Finish(w) /\ UNCHANGED vars

-----------------------------------------------------------------------------

RInit == Init /\ req = [w \in Workers |-> Idle]

RequestStep(w) ==
    \/ \E t, s \in Vulns : LoadMerge(w, t, s)
    \/ Relink(w)
    \/ CommitMerge(w)
    \/ \E vs \in SUBSET Vulns : LoadEdited(w, vs)
    \/ \E v \in Vulns, st \in StatusInputs \cup {Absent},
          se \in SeverityInputs \cup {Absent} : CommitUpdate(w, v, st, se)
    \/ \E v \in Vulns, se \in SeverityInputs, force, refs, rescored \in BOOLEAN :
          CommitEnrich(w, v, se, force, refs, rescored)
    \/ \E v \in Vulns, se \in Severities, refs \in BOOLEAN, ks \in SUBSET FeedLinks :
          CommitFeed(w, v, se, refs, ks)
    \/ \E v \in Vulns : CommitDelete(w, v)
    \/ \E patch \in Patches : CommitBatch(w, patch)
    \/ Abort(w)

\* Handlers in one step, beside the requests in flight.
OneStep ==
    /\ \/ \E v \in Vulns, st \in StatusInputs, se \in SeverityInputs :
             Create(v, st, se, {}, {})
       \/ \E v \in Vulns, se \in SeverityInputs, refs \in BOOLEAN, ks \in SUBSET FeedLinks :
             rows[v].phase = "unused" /\ Ingest(v, se, refs, ks)
       \/ \E v \in Vulns, c \in Comments : PostComment(c, v)
    /\ UNCHANGED req

RNext == OneStep \/ \E w \in Workers : RequestStep(w)

RSpec == RInit /\ [][RNext]_rvars

-----------------------------------------------------------------------------
(* Properties.                                                             *)

\* A request whose records are at its commit as they were when it loaded them, and
\* a merge under whose records nothing was linked or filed since it relinked their
\* rows, does in one step what its handler does alone: interference is the only way
\* for two overlapping requests to leave what no serial execution would.
RowsUndisturbed(w) ==
    req[w].kind = "moving" =>
        /\ links[req[w].from] = req[w].took /\ links[req[w].into] = req[w].had
        /\ Under(req[w].from) = req[w].hung

Undisturbed(w) == /\ \A v \in req[w].on : rows[v] = req[w].seen[v]
                  /\ RowsUndisturbed(w)

UndisturbedIsSerial ==
    [][(\A w \in Workers : req[w] # Idle /\ req'[w] = Idle => Undisturbed(w)) => Next]_vars

\* A merge deletes a link row as a duplicate on the word of a row of the target that
\* it has read.  The key goes with it when that row has gone meanwhile, as it does
\* when the opposite merge deletes the other of the two as its duplicate.
DuplicateGone(k) ==
    \E w \in Workers : /\ req[w].kind = "moving" /\ req'[w] = Idle
                       /\ k \in req[w].took \cap req[w].had
                       /\ k \notin links[req[w].into]

\* However requests overlap, no merge and no edit loses evidence while no record is
\* deleted: each comment and notification stays under a live record, and each link
\* unless it was the duplicate of a row that has gone; and what was filed under a
\* record when a merge relinked its rows goes to the target with the merge's commit,
\* whatever was inserted in between, unless another merge took it first.
NothingLost ==
    [][(\A v \in Vulns : rows[v].phase = "live" => rows'[v].phase = "live") =>
          /\ \A v \in Live : \A k \in links[v] :
                (\E u \in Live : k \in links'[u]) \/ DuplicateGone(k)
          /\ \A x \in Comments \cup Notifications :
                filed[x].under # None => filed'[x].under \in Live
          /\ \A w \in Workers : req[w].kind = "moving" /\ req'[w] = Idle =>
                \A x \in req[w].hung : filed[x].under = req[w].from =>
                                          filed'[x].under = req[w].into]_vars

=============================================================================
