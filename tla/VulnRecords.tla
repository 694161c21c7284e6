----------------------------- MODULE VulnRecords -----------------------------
(***************************************************************************)
(* The vulnerability record: its status, remediation timestamp, SLA        *)
(* deadline and merge redirect, the product versions and link rows that    *)
(* hang from it, and the comments, notifications and attachments filed     *)
(* under it.  One action per request handler; a handler here is one        *)
(* committed database transaction, so this is the behaviour the API has    *)
(* when requests do not overlap.  VulnRequests.tla splits the handlers at  *)
(* the point where they have read and not yet written.                     *)
(*                                                                         *)
(* A row is addressed by its id.  An id is "unused" until a create or an   *)
(* ingest takes it and "deleted" afterwards: ids are never reissued.       *)
(***************************************************************************)
EXTENDS Integers

CONSTANTS
    Vulns,           \* vulnerability ids
    None,            \* SQL NULL for a vulnerability id
    Products,        \* products (each with one version) that can be affected
    Vectors, Impacts, Watchers,   \* unique keys of three of the link tables ...
    FeedLinks,       \* ... and of those the feeds fill: sources, components
    Comments, Notifications, Attachments,     \* ids of the filed records
    Policies,        \* SLA policies an administrator may store
    StatusInputs, SeverityInputs,             \* what clients and feeds send
    ManualDues,      \* deadlines a batch update may set by hand (0 clears it)
    MaxNow           \* bound on the timestamps written in a behaviour

Statuses == {"Open", "In Progress", "Resolved", "Closed"}
ResolvedStatuses == {"Resolved", "Closed"}
Severities == {"Critical", "High", "Medium", "Low", "None"}

LinkKeys == Vectors \cup Impacts \cup Watchers \cup FeedLinks

Filed == Comments \cup Notifications \cup Attachments

Policy == [global : [Severities -> Nat \ {0}],
           overrides : SUBSET [product : Products, severity : Severities,
                               days : Nat \ {0}]]

\* A deadline is kept as its distance in days from created_at; 0 is NULL.
\* Timestamps are counts of the writes that took one; 0 is NULL.
Row == [phase : {"unused", "live", "deleted"}, status : Statuses,
        severity : Severities, resolvedAt : Nat, dueDays : Nat,
        isMerged : BOOLEAN, mergedInto : Vulns \cup {None}, mergedAt : Nat,
        marker : BOOLEAN]        \* references_json holds a merge marker

ASSUME ConstantsAssumption ==
    /\ None \notin Vulns
    /\ Policies \subseteq Policy
    /\ StatusInputs \subseteq Statuses
    /\ SeverityInputs \subseteq Severities
    /\ ManualDues \subseteq Nat
    /\ Attachments \cap (Comments \cup Notifications) = {}
    /\ MaxNow \in Nat

VARIABLES
    rows,        \* the vulnerabilities table
    products,    \* products[v]: products v has a version mapping to
    affected,    \* affected[v]: those of them flagged affected
    links,       \* links[v]: keys of v's link rows
    filed,       \* filed[x]: the vulnerability x is filed under, and since when
    policy,      \* the stored SLA policy
    now          \* the clock

vars == <<rows, products, affected, links, filed, policy, now>>

-----------------------------------------------------------------------------
(* Row-level functions of the services.                                    *)

\* resolve_sla_days: the global days for the severity, lowered by every
\* override for one of the mapped products (affected or not).
SlaDays(severity, prods, pol) ==
    LET candidates == {pol.global[severity]} \cup
            {o.days : o \in {x \in pol.overrides : /\ x.severity = severity
                                                   /\ x.product \in prods}}
    IN  CHOOSE d \in candidates : \A e \in candidates : d <= e

\* Faults: resolved_at survives a reopening; every save stamps it anew.
StampNotCleared(r, at) ==
    [r EXCEPT !.resolvedAt = IF r.status \in ResolvedStatuses /\ @ = 0 THEN at ELSE @]
StampAgain(r, at) ==
    [r EXCEPT !.resolvedAt = IF r.status \in ResolvedStatuses THEN at ELSE 0]

\* stamp_resolution
Stamp(r, at) ==
    [r EXCEPT !.resolvedAt = IF r.status \notin ResolvedStatuses THEN 0
                             ELSE IF r.resolvedAt = 0 THEN at
                             ELSE r.resolvedAt]

\* update_vulnerability: assign, stamp, recompute the deadline.
Edited(r, status, severity, prods, pol, at) ==
    [Stamp([r EXCEPT !.status = status, !.severity = severity], at)
        EXCEPT !.dueDays = SlaDays(severity, prods, pol)]

\* What merge_vulnerabilities writes on the record merged away and on the
\* record that survives.
MergedAway(r, target, at) ==
    [r EXCEPT !.status = "Closed", !.isMerged = TRUE, !.mergedInto = target,
              !.mergedAt = at, !.marker = TRUE]
Absorbing(r) == [r EXCEPT !.marker = TRUE]

\* Faults: the guard that refuses a merged target, or a merged source, is lost.
MergeIntoMerged(target, source, rt, rs) ==
    /\ target # source
    /\ rt.phase = "live" /\ rs.phase = "live"
    /\ ~rs.isMerged
    /\ rt.mergedInto # source
MergeMergedAgain(target, source, rt, rs) ==
    /\ target # source
    /\ rt.phase = "live" /\ rs.phase = "live"
    /\ ~rt.isMerged

MergeAllowed(target, source, rt, rs) ==
    /\ target # source
    /\ rt.phase = "live" /\ rs.phase = "live"
    /\ ~rs.isMerged
    /\ ~rt.isMerged
    /\ rt.mergedInto # source

Blank == [phase |-> "unused", status |-> "Open", severity |-> "Medium",
          resolvedAt |-> 0, dueDays |-> 0, isMerged |-> FALSE,
          mergedInto |-> None, mergedAt |-> 0, marker |-> FALSE]

NotFiled == [under |-> None, since |-> 0]

-----------------------------------------------------------------------------

Init ==
    /\ rows = [v \in Vulns |-> Blank]
    /\ products = [v \in Vulns |-> {}]
    /\ affected = [v \in Vulns |-> {}]
    /\ links = [v \in Vulns |-> {}]
    /\ filed = [x \in Filed |-> NotFiled]
    /\ policy \in Policies
    /\ now = 0

Live == {v \in Vulns : rows[v].phase = "live"}

Tick == now < MaxNow /\ now' = now + 1

\* Records xs filed under v at a time.
Filing(xs, v, at) ==
    [x \in Filed |-> IF x \in xs THEN [under |-> v, since |-> at] ELSE filed[x]]

\* The notifications a change or a mention may leave for watchers and for the
\* users mentioned; which of them get one is not modelled.
FreeNotifications == {n \in Notifications : filed[n] = NotFiled}

Notify(v) == \E ns \in SUBSET FreeNotifications : filed' = Filing(ns, v, now)

\* POST /vulnerabilities
Create(v, status, severity, prods, vectors) ==
    /\ rows[v].phase = "unused"
    /\ rows' = [rows EXCEPT ![v] =
                    Edited([Blank EXCEPT !.phase = "live"],
                           status, severity, prods, policy, now + 1)]
    /\ products' = [products EXCEPT ![v] = prods]
    /\ affected' = [affected EXCEPT ![v] = prods]
    /\ links' = [links EXCEPT ![v] = vectors]
    /\ Tick
    /\ UNCHANGED <<filed, policy>>

\* PUT /vulnerabilities/<id>: nothing here looks at is_merged.  A request that
\* names attack_vectors replaces them all.
Update(v, status, severity, vectors) ==
    /\ v \in Live
    /\ rows' = [rows EXCEPT ![v] =
                    Edited(@, status, severity, products[v], policy, now + 1)]
    /\ links' = [links EXCEPT ![v] = (@ \ Vectors) \cup vectors]
    /\ Notify(v)
    /\ Tick
    /\ UNCHANGED <<products, affected, policy>>

\* What the batch update does to one record: stamp only when the request has a
\* status, and either the deadline it gives or a recomputed one.
Absent == "absent"
Recompute == -1

Patches == [status : StatusInputs \cup {Absent}, severity : SeverityInputs \cup {Absent},
            due : ManualDues \cup {Recompute}]

\* Fault: the deadline of the request is stored even when it has none.
BatchEditedRaw(r, patch, prods, pol, at) ==
    [r EXCEPT !.dueDays = patch.due]

BatchEdited(r, patch, prods, pol, at) ==
    LET severity == IF patch.severity = Absent THEN r.severity ELSE patch.severity
        stamped  == IF patch.status = Absent THEN r
                    ELSE Stamp([r EXCEPT !.status = patch.status], at)
    IN  [stamped EXCEPT !.severity = severity,
                        !.dueDays = IF patch.due # Recompute THEN patch.due
                                    ELSE SlaDays(severity, prods, pol)]

\* PATCH /vulnerabilities/batch: merged records are reported and left alone.
BatchUpdate(vs, patch) ==
    /\ vs # {}
    /\ vs \subseteq Live
    /\ rows' = [v \in Vulns |->
                    IF v \in vs /\ ~rows[v].isMerged
                    THEN BatchEdited(rows[v], patch, products[v], policy, now + 1)
                    ELSE rows[v]]
    /\ Tick
    /\ UNCHANGED <<products, affected, links, filed, policy>>

\* Faults: comments stay behind; the flag of a mapping both have is not OR-ed.
MoveRowsNotComments(target, source) ==
    /\ products' = [products EXCEPT ![target] = @ \cup products[source], ![source] = {}]
    /\ affected' = [affected EXCEPT ![target] = @ \cup affected[source], ![source] = {}]
    /\ links' = [links EXCEPT ![target] = @ \cup links[source], ![source] = {}]
    /\ UNCHANGED filed
MoveRowsKeepFlag(target, source) ==
    /\ products' = [products EXCEPT ![target] = @ \cup products[source], ![source] = {}]
    /\ affected' = [affected EXCEPT ![target] = @ \cup (affected[source] \ products[target]),
                                    ![source] = {}]
    /\ links' = [links EXCEPT ![target] = @ \cup links[source], ![source] = {}]
    /\ filed' = [x \in Filed |-> IF x \notin Attachments /\ filed[x].under = source
                                  THEN [filed[x] EXCEPT !.under = target] ELSE filed[x]]

\* Mapping rows, link rows and checkpoints go to the target, which keeps its own
\* where both have one; comments and notifications are relinked.
MoveRows(target, source) ==
    /\ products' = [products EXCEPT ![target] = @ \cup products[source],
                                    ![source] = {}]
    /\ affected' = [affected EXCEPT ![target] = @ \cup affected[source],
                                    ![source] = {}]
    /\ links' = [links EXCEPT ![target] = @ \cup links[source],
                              ![source] = {}]
    /\ filed' = [x \in Filed |->
                    IF x \notin Attachments /\ filed[x].under = source
                    THEN [filed[x] EXCEPT !.under = target]
                    ELSE filed[x]]

\* POST /vulnerabilities/<target>/merge
Merge(target, source) ==
    /\ MergeAllowed(target, source, rows[target], rows[source])
    /\ rows' = [rows EXCEPT ![source] = MergedAway(@, target, now + 1),
                            ![target] = Absorbing(@)]
    /\ MoveRows(target, source)
    /\ Tick
    /\ UNCHANGED policy

\* Fault: the redirects into the record are left (no foreign keys enforced).
DeleteOnly(v) ==
    /\ v \in Live
    /\ rows' = [rows EXCEPT ![v] = [Blank EXCEPT !.phase = "deleted"]]
    /\ UNCHANGED <<products, affected, links, filed, policy, now>>

\* DELETE /vulnerabilities/<id>: rows below it go by cascade, redirects into it
\* become NULL; notifications.vulnerability_id has no ON DELETE, so a record
\* with notifications cannot be deleted.
Delete(v) ==
    /\ v \in Live
    /\ \A n \in Notifications : filed[n].under # v
    /\ rows' = [u \in Vulns |->
                   IF u = v THEN [Blank EXCEPT !.phase = "deleted"]
                   ELSE [rows[u] EXCEPT !.mergedInto = IF @ = v THEN None ELSE @]]
    /\ products' = [products EXCEPT ![v] = {}]
    /\ affected' = [affected EXCEPT ![v] = {}]
    /\ links' = [links EXCEPT ![v] = {}]
    /\ filed' = [x \in Filed |-> IF filed[x].under = v THEN NotFiled ELSE filed[x]]
    /\ UNCHANGED <<policy, now>>

\* set(existing) in _apply_normalized: a record whose references hold a merge
\* marker (a dict) rejects an item that brings references.
CanApply(r, refs) == ~(refs /\ r.marker)

\* Feed ingest of one item: a new record takes the column defaults and no
\* deadline; a known one, merged or not, gets the feed's severity and no new
\* deadline.  It adds a source row and correlated components.
Ingest(v, severity, refs, keys) ==
    /\ rows[v].phase # "deleted"
    /\ CanApply(rows[v], refs)
    /\ rows' = [rows EXCEPT ![v].phase = "live", ![v].severity = severity]
    /\ links' = [links EXCEPT ![v] = @ \cup keys]
    /\ UNCHANGED <<products, affected, filed, policy, now>>

\* Fault: the deadline is recomputed for a new score alone.
EnrichKeepsDeadline(v, severity, force, refs, rescored) ==
    /\ v \in Live
    /\ LET new == IF force THEN severity ELSE rows[v].severity
           due == IF rescored THEN SlaDays(new, products[v], policy) ELSE rows[v].dueDays
       IN  rows' = [rows EXCEPT ![v].severity = new, ![v].dueDays = due,
                                ![v].marker = @ /\ ~(force /\ refs)]
    /\ Notify(v)
    /\ UNCHANGED <<products, affected, links, policy, now>>

\* POST /vulnerabilities/<id>/enrich: severity is never empty, so only force
\* replaces it, and the references (when the upstream has some) with it; a new
\* score or severity recomputes the deadline.
Enrich(v, severity, force, refs, rescored) ==
    /\ v \in Live
    /\ LET new == IF force THEN severity ELSE rows[v].severity
           due == IF new # rows[v].severity \/ rescored
                  THEN SlaDays(new, products[v], policy) ELSE rows[v].dueDays
       IN  rows' = [rows EXCEPT ![v].severity = new, ![v].dueDays = due,
                                ![v].marker = @ /\ ~(force /\ refs)]
    /\ Notify(v)
    /\ UNCHANGED <<products, affected, links, policy, now>>

\* Version mappings: attach, flag, detach.  None of them recomputes a deadline,
\* and their event is not one that watchers are notified of.
AttachVersions(v, ps) ==
    /\ v \in Live
    /\ products' = [products EXCEPT ![v] = @ \cup ps]
    /\ affected' = [affected EXCEPT ![v] = @ \cup (ps \ products[v])]
    /\ UNCHANGED <<rows, links, filed, policy, now>>

PatchVersion(v, p) ==
    /\ v \in Live
    /\ p \in products[v]
    /\ affected' = [affected EXCEPT ![v] = IF p \in @ THEN @ \ {p} ELSE @ \cup {p}]
    /\ UNCHANGED <<rows, products, links, filed, policy, now>>

DetachVersion(v, p) ==
    /\ v \in Live
    /\ p \in products[v]
    /\ products' = [products EXCEPT ![v] = @ \ {p}]
    /\ affected' = [affected EXCEPT ![v] = @ \ {p}]
    /\ UNCHANGED <<rows, links, filed, policy, now>>

\* DELETE /products/<id>, or of a version: its mappings go by cascade.
DeleteProduct(p) ==
    /\ products' = [v \in Vulns |-> products[v] \ {p}]
    /\ affected' = [v \in Vulns |-> affected[v] \ {p}]
    /\ UNCHANGED <<rows, links, filed, policy, now>>

\* The link tables.  A handler adds the missing keys it is given, replaces one
\* key by another, or drops one.
SetLinks(v, ks) ==
    /\ v \in Live
    /\ links' = [links EXCEPT ![v] = ks]
    /\ UNCHANGED <<rows, products, affected, filed, policy, now>>

Watch(v, u)          == SetLinks(v, links[v] \cup {u})
Unwatch(v, u)        == SetLinks(v, links[v] \ {u})
AttachVectors(v, ks) == SetLinks(v, links[v] \cup ks)
PatchVector(v, k, l) == /\ k \in links[v]
                        /\ l \notin links[v]
                        /\ SetLinks(v, (links[v] \ {k}) \cup {l})
DetachVector(v, k)   == k \in links[v] /\ SetLinks(v, links[v] \ {k})
AttachImpacts(v, ks) == SetLinks(v, links[v] \cup ks)
PatchImpact(v, k, l) == /\ k \in links[v]
                        /\ l \notin links[v]
                        /\ SetLinks(v, (links[v] \ {k}) \cup {l})
DetachImpact(v, k)   == k \in links[v] /\ SetLinks(v, links[v] \ {k})

\* DELETE of an attack vector or of a terminal impact: its links go by cascade.
DropKey(k) ==
    /\ links' = [v \in Vulns |-> links[v] \ {k}]
    /\ UNCHANGED <<rows, products, affected, filed, policy, now>>

\* Comments may mention users, who are notified; attachments are just stored.
PostComment(c, v) ==
    /\ v \in Live
    /\ filed[c] = NotFiled
    /\ \E ns \in SUBSET FreeNotifications : filed' = Filing({c} \cup ns, v, now + 1)
    /\ Tick
    /\ UNCHANGED <<rows, products, affected, links, policy>>

EditComment(c) ==
    /\ filed[c].under \in Live
    /\ Notify(filed[c].under)
    /\ UNCHANGED <<rows, products, affected, links, policy, now>>

UploadAttachment(x, v) ==
    /\ v \in Live
    /\ filed[x] = NotFiled
    /\ filed' = Filing({x}, v, now + 1)
    /\ Tick
    /\ UNCHANGED <<rows, products, affected, links, policy>>

Unfile(x) ==
    /\ filed[x].under \in Live
    /\ filed' = [filed EXCEPT ![x] = NotFiled]
    /\ UNCHANGED <<rows, products, affected, links, policy, now>>

DeleteComment(c)    == Unfile(c)
DeleteAttachment(x) == Unfile(x)

\* PUT /sla_policy: existing deadlines are left as they are.
UpdatePolicy(pol) ==
    /\ policy' = pol
    /\ UNCHANGED <<rows, products, affected, links, filed, now>>

Next ==
    \/ \E v \in Vulns, st \in StatusInputs, se \in SeverityInputs,
          ps \in SUBSET Products, ks \in SUBSET Vectors : Create(v, st, se, ps, ks)
    \/ \E v \in Vulns, st \in Statuses, se \in Severities, ks \in SUBSET Vectors :
          /\ st \in StatusInputs \cup {rows[v].status}
          /\ se \in SeverityInputs \cup {rows[v].severity}
          /\ Update(v, st, se, ks)
    \/ \E vs \in SUBSET Vulns, patch \in Patches : BatchUpdate(vs, patch)
    \/ \E t, s \in Vulns : Merge(t, s)
    \/ \E v \in Vulns : Delete(v)
    \/ \E v \in Vulns, se \in Severities, refs \in BOOLEAN, ks \in SUBSET FeedLinks :
          /\ se \in SeverityInputs \cup {rows[v].severity}
          /\ Ingest(v, se, refs, ks)
    \/ \E v \in Vulns, se \in SeverityInputs, force, refs, rescored \in BOOLEAN :
          Enrich(v, se, force, refs, rescored)
    \/ \E v \in Vulns : \/ \E ps \in SUBSET Products : AttachVersions(v, ps)
                        \/ \E p \in Products : PatchVersion(v, p) \/ DetachVersion(v, p)
                        \/ \E u \in Watchers : Watch(v, u) \/ Unwatch(v, u)
                        \/ \E ks \in SUBSET Vectors : AttachVectors(v, ks)
                        \/ \E k, l \in Vectors : PatchVector(v, k, l) \/ DetachVector(v, k)
                        \/ \E ks \in SUBSET Impacts : AttachImpacts(v, ks)
                        \/ \E k, l \in Impacts : PatchImpact(v, k, l) \/ DetachImpact(v, k)
                        \/ \E c \in Comments : PostComment(c, v)
                        \/ \E x \in Attachments : UploadAttachment(x, v)
    \/ \E p \in Products : DeleteProduct(p)
    \/ \E k \in Vectors \cup Impacts : DropKey(k)
    \/ \E c \in Comments : EditComment(c) \/ DeleteComment(c)
    \/ \E x \in Attachments : DeleteAttachment(x)
    \/ \E pol \in Policies : UpdatePolicy(pol)

Spec == Init /\ [][Next]_vars

-----------------------------------------------------------------------------
(* Properties.                                                             *)

\* Every column, mapping, link and filing holds a value of its domain, and only
\* live records have any.
TypeOK ==
    /\ rows \in [Vulns -> Row]
    /\ products \in [Vulns -> SUBSET Products]
    /\ affected \in [Vulns -> SUBSET Products]
    /\ links \in [Vulns -> SUBSET LinkKeys]
    /\ filed \in [Filed -> [under : Vulns \cup {None}, since : Nat]]
    /\ policy \in Policy
    /\ now \in Nat

\* The redirects left by merging never lead back to where they started: every
\* non-empty set of records holds one that does not redirect into the set.  The
\* route only refuses the two-step cycle (dedup.py:214); that longer ones cannot
\* arise follows from a merged record being neither source nor target again.
MergeForest ==
    \A C \in (SUBSET Vulns) \ {{}} : \E v \in C : rows[v].mergedInto \notin C

\* A redirect leads from a merged record to an existing one, and is only missing
\* from a merged record after the record it led to was deleted.
RedirectIntact ==
    \A v \in Live :
        /\ rows[v].mergedInto # None =>
              rows[v].isMerged /\ rows[v].mergedInto \in Live
        /\ rows[v].isMerged /\ rows[v].mergedInto = None =>
              \E u \in Vulns : rows[u].phase = "deleted"

\* Remediation time (MTTR) counts a record exactly while it is resolved: across
\* PUT, batch updates, merges and ingests, resolved_at is set only in a resolved
\* status and always there, save on a record that a merge has closed.
ResolutionStamped ==
    \A v \in Live :
        /\ rows[v].resolvedAt # 0 => rows[v].status \in ResolvedStatuses
        /\ rows[v].status \in ResolvedStatuses /\ ~rows[v].isMerged =>
              rows[v].resolvedAt # 0

\* What a merge leaves behind: a comment or notification found under a merged
\* record was filed there after the merge, never before it.
MergedRecordIsDrained ==
    \A x \in Comments \cup Notifications :
        LET v == filed[x].under
        IN  v # None /\ rows[v].isMerged => filed[x].since >= rows[v].mergedAt

\* A resolution keeps the time it was first reached, whatever resolved statuses
\* and merges follow, until the record is reopened or deleted.
ResolutionKept ==
    [][\A v \in Vulns : LET was == rows[v].resolvedAt
                            is  == rows'[v].resolvedAt
                        IN  was # 0 /\ is # 0 => is = was]_vars

\* A redirect, once given, is only ever lost with its record or with the record
\* it leads to: no later merge takes a record over from an earlier one.
RedirectKept ==
    [][\A v \in Vulns :
          /\ rows[v].isMerged => rows'[v].isMerged \/ rows'[v].phase = "deleted"
          /\ rows[v].mergedInto # None /\ rows'[v].mergedInto # rows[v].mergedInto =>
                "deleted" \in {rows'[v].phase, rows'[rows[v].mergedInto].phase}]_vars

\* Merging conserves the evidence: what hung from the record merged away hangs
\* from the one that survives, in the step that closes it, and from no other.
EvidenceFollowsMerge ==
    [][\A v \in Vulns : ~rows[v].isMerged /\ rows'[v].isMerged =>
          LET t == rows'[v].mergedInto
          IN  /\ links'[v] = {} /\ products'[v] = {}
              /\ links'[t] = links[t] \cup links[v]
              /\ products'[t] = products[t] \cup products[v]
              /\ affected'[t] = affected[t] \cup affected[v]
              /\ \A x \in Comments \cup Notifications :
                    filed[x].under = v => filed'[x].under = t]_vars

\* A severity changed through the API is never left with the deadline of the old
\* one: the same step gives the record the deadline of the new severity, unless
\* it is a batch request that sets one by hand or a feed's.  A step that could be a
\* PUT, or an enrichment, is held to be one.
Rescored(v) ==
    rows[v].phase = "live" /\ rows'[v].phase = "live" /\ rows'[v].severity # rows[v].severity

IsPut(v) == \E st \in Statuses, se \in Severities, ks \in SUBSET Vectors : Update(v, st, se, ks)

IsEnrichment(v) == \E se \in SeverityInputs, force, refs, rescored \in BOOLEAN :
                      Enrich(v, se, force, refs, rescored)

SlaFollowsSeverity ==
    [][\A v \in Vulns : Rescored(v) =>
          \/ rows'[v].dueDays = SlaDays(rows'[v].severity, products[v], policy)
          \/ /\ \E vs \in SUBSET Vulns, patch \in Patches :
                   v \in vs /\ patch.due # Recompute /\ BatchUpdate(vs, patch)
             /\ ~IsPut(v)
          \/ /\ \E refs \in BOOLEAN, ks \in SUBSET FeedLinks :
                   Ingest(v, rows'[v].severity, refs, ks)
             /\ ~IsEnrichment(v)]_vars

-----------------------------------------------------------------------------
(* What the repository says and the code does not do; each is refuted by a *)
(* run.                                                                    *)

\* stamp_resolution's contract: resolved_at is stamped when the record sits in a
\* resolved-family status.  merge_vulnerabilities closes without stamping.
ClosedIsStamped ==
    \A v \in Live : rows[v].status \in ResolvedStatuses => rows[v].resolvedAt # 0

\* Every feed item can be applied to the record it names.
FeedCanApply == \A v \in Live : CanApply(rows[v], TRUE)

=============================================================================
