-------------------------- MODULE VulnRecordsProofs --------------------------
(* Theorems about VulnRecords for every set of records, products, keys and *)
(* policies, and for every bound on the clock.                             *)
EXTENDS VulnRecords, WellFoundedInduction, TLAPS

(***************************************************************************)
(* Lemmas on natural numbers and on the row-level operators.               *)
(***************************************************************************)

\* Every non-empty set of naturals has a least element: what makes the CHOOSE
\* of resolve_sla_days (a min() in the code) well defined.
LEMMA LeastNat ==
    ASSUME NEW S \in SUBSET Nat, S # {}
    PROVE  \E d \in S : \A e \in S : d <= e
<1>1. \E d \in S : \A e \in S : ~(<<e, d>> \in OpToRel(<, Nat))
  BY WFMin, NatLessThanWellFounded, Zenon
<1>2. PICK d \in S : \A e \in S : ~(<<e, d>> \in OpToRel(<, Nat))
  BY <1>1
<1>3. ASSUME NEW e \in S PROVE d <= e
  <2>1. ~(e < d)
    BY <1>2 DEF OpToRel
  <2> QED BY <2>1
<1> QED BY <1>3

\* The SLA days of a severity are positive and never exceed the global days nor
\* those of an override that applies (resolve_sla_days takes the strictest).
LEMMA SlaDaysStrictest ==
    ASSUME NEW severity \in Severities, NEW prods, NEW pol \in Policy
    PROVE  /\ SlaDays(severity, prods, pol) \in Nat \ {0}
           /\ SlaDays(severity, prods, pol) <= pol.global[severity]
           /\ \A o \in pol.overrides :
                 o.severity = severity /\ o.product \in prods
                    => SlaDays(severity, prods, pol) <= o.days
<1> DEFINE applying == {x \in pol.overrides : x.severity = severity /\ x.product \in prods}
           candidates == {pol.global[severity]} \cup {o.days : o \in applying}
<1>1. pol.global[severity] \in Nat \ {0}
  BY DEF Policy
<1>2. \A o \in pol.overrides : o.days \in Nat \ {0}
  BY DEF Policy
<1>3. candidates \in SUBSET Nat /\ 0 \notin candidates /\ candidates # {}
  BY <1>1, <1>2
<1>4. \E d \in candidates : \A e \in candidates : d <= e
  BY <1>3, LeastNat
<1>5. SlaDays(severity, prods, pol) = CHOOSE d \in candidates : \A e \in candidates : d <= e
  BY DEF SlaDays
<1> HIDE DEF candidates
<1>6. /\ SlaDays(severity, prods, pol) \in candidates
      /\ \A e \in candidates : SlaDays(severity, prods, pol) <= e
  BY <1>4, <1>5
<1>7. pol.global[severity] \in candidates /\ \A o \in applying : o.days \in candidates
  BY DEF candidates
<1> QED BY <1>3, <1>6, <1>7

\* stamp_resolution touches nothing but resolved_at, and leaves it set exactly in
\* the resolved statuses.
LEMMA StampRow ==
    ASSUME NEW r \in Row, NEW at \in Nat
    PROVE  /\ Stamp(r, at) \in Row
           /\ Stamp(r, at) = [r EXCEPT !.resolvedAt = Stamp(r, at).resolvedAt]
           /\ r.status \notin ResolvedStatuses => Stamp(r, at).resolvedAt = 0
           /\ r.status \in ResolvedStatuses /\ at # 0 => Stamp(r, at).resolvedAt # 0
           /\ r.status \in ResolvedStatuses /\ r.resolvedAt # 0
                 => Stamp(r, at).resolvedAt = r.resolvedAt
BY DEF Stamp, Row

\* What a change of status may do to the rest of a row: the redirect and the phase
\* stay, and the remediation time goes with the status.
SameRedirect(r, e) ==
    /\ e.phase = r.phase /\ e.isMerged = r.isMerged
    /\ e.mergedInto = r.mergedInto /\ e.mergedAt = r.mergedAt

ResolvedLike(r, e) ==
    /\ e.resolvedAt # 0 <=> e.status \in ResolvedStatuses
    /\ r.resolvedAt # 0 /\ e.resolvedAt # 0 => e.resolvedAt = r.resolvedAt

\* What the updates write: status, severity, remediation time and deadline.
Written(r, st, se, at, due) ==
    [r EXCEPT !.status = st, !.severity = se, !.resolvedAt = at, !.dueDays = due]

\* Writing them leaves a row of the table and touches no other column.
LEMMA WrittenRow ==
    ASSUME NEW r \in Row, NEW st \in Statuses, NEW se \in Severities,
           NEW at \in Nat, NEW due \in Nat
    PROVE  LET e == Written(r, st, se, at, due)
           IN  /\ e \in Row
               /\ e.phase = r.phase /\ e.isMerged = r.isMerged
               /\ e.mergedInto = r.mergedInto /\ e.mergedAt = r.mergedAt
               /\ e.status = st /\ e.resolvedAt = at
<1> DEFINE e == Written(r, st, se, at, due)
<1>1. e \in Row
  BY DEF Written, Row
<1>2. /\ e.phase = r.phase /\ e.isMerged = r.isMerged
      /\ e.mergedInto = r.mergedInto /\ e.mergedAt = r.mergedAt
      /\ e.status = st /\ e.resolvedAt = at
  BY DEF Written, Row
<1> QED BY <1>1, <1>2

\* update_vulnerability leaves a row of the table, resolved consistently, with
\* the redirect and the phase it had.
LEMMA EditedRow ==
    ASSUME NEW r \in Row, NEW status \in Statuses, NEW severity \in Severities,
           NEW prods, NEW pol \in Policy, NEW at \in Nat \ {0},
           NEW e, e = Edited(r, status, severity, prods, pol, at)
    PROVE  e \in Row /\ SameRedirect(r, e) /\ ResolvedLike(r, e)
<1> DEFINE r1 == [r EXCEPT !.status = status, !.severity = severity]
           s1 == Stamp(r1, at)
<1>1. r1 \in Row /\ r1.resolvedAt = r.resolvedAt /\ r1.status = status
  BY DEF Row
<1>2. SlaDays(severity, prods, pol) \in Nat
  BY SlaDaysStrictest
<1>3. e = [s1 EXCEPT !.dueDays = SlaDays(severity, prods, pol)]
  BY DEF Edited
<1>4. s1 = [r1 EXCEPT !.resolvedAt = s1.resolvedAt] /\ s1 \in Row
  BY <1>1, StampRow
<1>5. /\ status \notin ResolvedStatuses => s1.resolvedAt = 0
      /\ status \in ResolvedStatuses => s1.resolvedAt # 0
      /\ status \in ResolvedStatuses /\ r.resolvedAt # 0 => s1.resolvedAt = r.resolvedAt
  BY <1>1, StampRow
<1>6. s1.resolvedAt \in Nat
  BY <1>4 DEF Row
<1> HIDE DEF s1
<1>7. e = Written(r, status, severity, s1.resolvedAt, SlaDays(severity, prods, pol))
  BY <1>3, <1>4 DEF Written, Row
<1>8. /\ e \in Row
      /\ e.phase = r.phase /\ e.isMerged = r.isMerged
      /\ e.mergedInto = r.mergedInto /\ e.mergedAt = r.mergedAt
      /\ e.status = status /\ e.resolvedAt = s1.resolvedAt
  BY <1>2, <1>6, <1>7, WrittenRow
<1>9. e.resolvedAt # 0 <=> e.status \in ResolvedStatuses
  BY <1>5, <1>8
<1>10. r.resolvedAt # 0 /\ e.resolvedAt # 0 => e.resolvedAt = r.resolvedAt
  BY <1>5, <1>8
<1> QED BY <1>8, <1>9, <1>10 DEF SameRedirect, ResolvedLike

\* A batch update leaves a row of the table with the redirect and phase it had;
\* without a status in the patch the resolution is left alone.
LEMMA BatchEditedRow ==
    ASSUME NEW r \in Row, NEW patch \in Patches, NEW prods, NEW pol \in Policy,
           NEW at \in Nat \ {0}, NEW e, e = BatchEdited(r, patch, prods, pol, at)
    PROVE  /\ e \in Row
           /\ SameRedirect(r, e)
           /\ \/ e.status = r.status /\ e.resolvedAt = r.resolvedAt
              \/ ResolvedLike(r, e)
<1> DEFINE severity == IF patch.severity = Absent THEN r.severity ELSE patch.severity
           r1 == [r EXCEPT !.status = patch.status]
           stamped == IF patch.status = Absent THEN r ELSE Stamp(r1, at)
           due == IF patch.due # Recompute THEN patch.due
                  ELSE SlaDays(severity, prods, pol)
<1>1. /\ patch.severity # Absent => patch.severity \in Severities
      /\ patch.status # Absent => patch.status \in Statuses
      /\ patch.due # Recompute => patch.due \in Nat
  BY ConstantsAssumption DEF Patches
<1>2. severity \in Severities
  BY <1>1 DEF Row
<1>3. due \in Nat
  BY <1>1, <1>2, SlaDaysStrictest
<1>4. CASE patch.status = Absent
  <2>1. e = [r EXCEPT !.severity = severity, !.dueDays = due]
    BY <1>4 DEF BatchEdited
  <2> HIDE DEF severity, due
  <2>2. /\ e \in Row
        /\ e.phase = r.phase /\ e.isMerged = r.isMerged
        /\ e.mergedInto = r.mergedInto /\ e.mergedAt = r.mergedAt
        /\ e.status = r.status /\ e.resolvedAt = r.resolvedAt
    BY <1>2, <1>3, <2>1 DEF Row
  <2> QED BY <2>2 DEF SameRedirect
<1>5. CASE patch.status # Absent
  <2>1. r1 \in Row /\ r1.status = patch.status /\ r1.resolvedAt = r.resolvedAt
    BY <1>1, <1>5 DEF Row
  <2>2. /\ stamped \in Row
        /\ stamped = [r1 EXCEPT !.resolvedAt = stamped.resolvedAt]
        /\ stamped.resolvedAt # 0 <=> patch.status \in ResolvedStatuses
        /\ r.resolvedAt # 0 /\ stamped.resolvedAt # 0 => stamped.resolvedAt = r.resolvedAt
    BY <1>5, <2>1, StampRow
  <2>3. e = [stamped EXCEPT !.severity = severity, !.dueDays = due]
    BY DEF BatchEdited
  <2> HIDE DEF severity, due, stamped
  <2>4. e = Written(r, patch.status, severity, stamped.resolvedAt, due)
    BY <2>2, <2>3 DEF Written, Row
  <2>5. stamped.resolvedAt \in Nat
    BY <2>2 DEF Row
  <2>6. /\ e \in Row
        /\ e.phase = r.phase /\ e.isMerged = r.isMerged
        /\ e.mergedInto = r.mergedInto /\ e.mergedAt = r.mergedAt
        /\ e.status = patch.status /\ e.resolvedAt = stamped.resolvedAt
    BY <1>1, <1>2, <1>3, <1>5, <2>4, <2>5, WrittenRow
  <2>7. e.resolvedAt # 0 <=> e.status \in ResolvedStatuses
    BY <2>2, <2>6
  <2>8. r.resolvedAt # 0 /\ e.resolvedAt # 0 => e.resolvedAt = r.resolvedAt
    BY <2>2, <2>6
  <2> QED BY <2>6, <2>7, <2>8 DEF SameRedirect, ResolvedLike
<1> QED BY <1>4, <1>5

\* A new id starts from a row of the table, and the row-level writes of a merge,
\* a delete, an ingest and an enrichment lead from such rows to such rows.
LEMMA BlankRow == Blank \in Row
BY DEF Blank, Row, Statuses, Severities

\* What a merge writes on its source is a row of the table.
LEMMA MergedAwayRow ==
    ASSUME NEW r \in Row, NEW t \in Vulns, NEW at \in Nat
    PROVE  MergedAway(r, t, at) \in Row
BY DEF MergedAway, Row, Statuses

\* What a merge writes on its target is a row of the table.
LEMMA AbsorbingRow == ASSUME NEW r \in Row PROVE Absorbing(r) \in Row
BY DEF Absorbing, Row

\* A redirect cleared or set leaves a row of the table.
LEMMA RedirectRow ==
    ASSUME NEW r \in Row, NEW t \in Vulns \cup {None}
    PROVE  [r EXCEPT !.mergedInto = t] \in Row
BY DEF Row

\* What a feed item writes is a row of the table.
LEMMA IngestedRow ==
    ASSUME NEW r \in Row, NEW se \in Severities
    PROVE  [r EXCEPT !.phase = "live", !.severity = se] \in Row
BY DEF Row

\* What an enrichment writes is a row of the table.
LEMMA EnrichedRow ==
    ASSUME NEW r \in Row, NEW se \in Severities, NEW due \in Nat, NEW mark \in BOOLEAN
    PROVE  [r EXCEPT !.severity = se, !.dueDays = due, !.marker = mark] \in Row
BY DEF Row

\* A blank row in another phase is a row of the table.
LEMMA PhasedRow ==
    ASSUME NEW phase \in {"live", "deleted"}
    PROVE  [Blank EXCEPT !.phase = phase] \in Row
BY BlankRow DEF Row

(***************************************************************************)
(* Type correctness.                                                       *)
(***************************************************************************)

\* Records filed under an existing id keep the type of the table.
LEMMA FilingType ==
    ASSUME TypeOK, NEW xs, NEW v \in Vulns, NEW at \in Nat
    PROVE  Filing(xs, v, at) \in [Filed -> [under : Vulns \cup {None}, since : Nat]]
BY DEF Filing, TypeOK

\* Notifications change nothing but the filings.
LEMMA NotifyType ==
    ASSUME TypeOK, NEW v \in Vulns, Notify(v)
    PROVE  filed' \in [Filed -> [under : Vulns \cup {None}, since : Nat]]
<1>1. PICK ns \in SUBSET FreeNotifications : filed' = Filing(ns, v, now)
  BY DEF Notify
<1>2. now \in Nat
  BY DEF TypeOK
<1> QED BY <1>1, <1>2, FilingType

\* Writing link rows of one record keeps the type of every variable.
LEMMA SetLinksType ==
    ASSUME TypeOK, NEW v \in Vulns, NEW ks \in SUBSET LinkKeys, SetLinks(v, ks)
    PROVE  TypeOK'
BY DEF SetLinks, TypeOK

\* The empty tables have their types.
LEMMA InitType == Init => TypeOK
<1> SUFFICES ASSUME Init PROVE TypeOK
  OBVIOUS
<1>1. policy \in Policy
  BY ConstantsAssumption DEF Init
<1>2. NotFiled \in [under : Vulns \cup {None}, since : Nat]
  BY DEF NotFiled
<1> QED BY <1>1, <1>2, BlankRow DEF Init, TypeOK

\* Each handler keeps the type of the table it writes.
LEMMA StepType == TypeOK /\ [Next]_vars => TypeOK'
<1> SUFFICES ASSUME TypeOK, [Next]_vars PROVE TypeOK'
  OBVIOUS
<1>a. /\ rows \in [Vulns -> Row]
      /\ policy \in Policy
      /\ now \in Nat
      /\ now + 1 \in Nat \ {0}
  BY DEF TypeOK
<1>b. \A v \in Vulns : rows[v] \in Row
  BY <1>a
<1>0. CASE UNCHANGED vars
  BY <1>0 DEF vars, TypeOK
<1>1. ASSUME NEW v \in Vulns, NEW st \in StatusInputs, NEW se \in SeverityInputs,
             NEW ps \in SUBSET Products, NEW ks \in SUBSET Vectors,
             Create(v, st, se, ps, ks)
      PROVE  TypeOK'
  <2>1. st \in Statuses /\ se \in Severities
    BY ConstantsAssumption
  <2>2. Edited([Blank EXCEPT !.phase = "live"], st, se, ps, policy, now + 1) \in Row
    BY <1>a, <2>1, PhasedRow, EditedRow
  <2>3. rows' \in [Vulns -> Row]
    BY <1>1, <1>a, <2>2 DEF Create
  <2> QED BY <1>1, <2>3 DEF Create, Tick, LinkKeys, TypeOK
<1>2. ASSUME NEW v \in Vulns, NEW st \in Statuses, NEW se \in Severities,
             NEW ks \in SUBSET Vectors, Update(v, st, se, ks)
      PROVE  TypeOK'
  <2>1. Edited(rows[v], st, se, products[v], policy, now + 1) \in Row
    BY <1>a, <1>b, EditedRow
  <2>2. rows' \in [Vulns -> Row]
    BY <1>2, <1>a, <2>1 DEF Update
  <2>3. filed' \in [Filed -> [under : Vulns \cup {None}, since : Nat]]
    BY <1>2, NotifyType DEF Update
  <2> QED BY <1>2, <2>2, <2>3 DEF Update, Tick, LinkKeys, TypeOK
<1>3. ASSUME NEW vs \in SUBSET Vulns, NEW patch \in Patches, BatchUpdate(vs, patch)
      PROVE  TypeOK'
  <2>1. \A v \in Vulns : BatchEdited(rows[v], patch, products[v], policy, now + 1) \in Row
    BY <1>a, <1>b, BatchEditedRow
  <2>2. rows' \in [Vulns -> Row]
    BY <1>3, <1>b, <2>1 DEF BatchUpdate
  <2> QED BY <1>3, <2>2 DEF BatchUpdate, Tick, TypeOK
<1>4. ASSUME NEW t \in Vulns, NEW s \in Vulns, Merge(t, s)
      PROVE  TypeOK'
  <2>1. MergedAway(rows[s], t, now + 1) \in Row /\ Absorbing(rows[t]) \in Row
    BY <1>a, <1>b, MergedAwayRow, AbsorbingRow
  <2>2. t # s
    BY <1>4 DEF Merge, MergeAllowed
  <2>3. rows' \in [Vulns -> Row]
    BY <1>4, <1>a, <2>1, <2>2 DEF Merge
  <2>4. /\ products' \in [Vulns -> SUBSET Products]
        /\ affected' \in [Vulns -> SUBSET Products]
        /\ links' \in [Vulns -> SUBSET LinkKeys]
    BY <1>4 DEF Merge, MoveRows, TypeOK
  <2>5. filed' \in [Filed -> [under : Vulns \cup {None}, since : Nat]]
    BY <1>4 DEF Merge, MoveRows, TypeOK
  <2> QED BY <1>4, <1>a, <2>3, <2>4, <2>5 DEF Merge, Tick, TypeOK
<1>5. ASSUME NEW v \in Vulns, Delete(v)
      PROVE  TypeOK'
  <2>1. [Blank EXCEPT !.phase = "deleted"] \in Row
    BY PhasedRow
  <2>2. \A u \in Vulns : rows[u].mergedInto \in Vulns \cup {None}
    BY <1>b DEF Row
  <2>3. \A u \in Vulns :
          [rows[u] EXCEPT !.mergedInto = IF rows[u].mergedInto = v THEN None
                                         ELSE rows[u].mergedInto] \in Row
    BY <1>b, <2>2, RedirectRow
  <2>4. rows' \in [Vulns -> Row]
    BY <1>5, <2>1, <2>3 DEF Delete
  <2>5. filed' \in [Filed -> [under : Vulns \cup {None}, since : Nat]]
    BY <1>5 DEF Delete, NotFiled, TypeOK
  <2> QED BY <1>5, <2>4, <2>5 DEF Delete, TypeOK
<1>6. ASSUME NEW v \in Vulns, NEW se \in Severities, NEW refs, NEW ks \in SUBSET FeedLinks,
             Ingest(v, se, refs, ks)
      PROVE  TypeOK'
  <2>1. [rows[v] EXCEPT !.phase = "live", !.severity = se] \in Row
    BY <1>b, IngestedRow
  <2>2. rows' = [rows EXCEPT ![v] = [rows[v] EXCEPT !.phase = "live", !.severity = se]]
    BY <1>6, <1>a DEF Ingest
  <2>3. rows' \in [Vulns -> Row]
    BY <1>a, <2>1, <2>2
  <2> QED BY <1>6, <2>3 DEF Ingest, LinkKeys, TypeOK
<1>7. ASSUME NEW v \in Vulns, NEW se \in SeverityInputs, NEW force \in BOOLEAN,
             NEW refs \in BOOLEAN, NEW rescored \in BOOLEAN,
             Enrich(v, se, force, refs, rescored)
      PROVE  TypeOK'
  <2> DEFINE new == IF force THEN se ELSE rows[v].severity
             due == IF new # rows[v].severity \/ rescored
                    THEN SlaDays(new, products[v], policy) ELSE rows[v].dueDays
             mark == rows[v].marker /\ ~(force /\ refs)
  <2>1. new \in Severities
    BY <1>b, ConstantsAssumption DEF Row
  <2>2. due \in Nat
    BY <1>a, <1>b, <2>1, SlaDaysStrictest DEF Row
  <2>3. mark \in BOOLEAN
    OBVIOUS
  <2>4. rows' = [rows EXCEPT ![v] =
                   [rows[v] EXCEPT !.severity = new, !.dueDays = due, !.marker = mark]]
    BY <1>7, <1>a DEF Enrich
  <2> HIDE DEF new, due, mark
  <2>5. [rows[v] EXCEPT !.severity = new, !.dueDays = due, !.marker = mark] \in Row
    BY <1>b, <2>1, <2>2, <2>3, EnrichedRow
  <2>6. rows' \in [Vulns -> Row]
    BY <1>a, <2>4, <2>5
  <2>7. filed' \in [Filed -> [under : Vulns \cup {None}, since : Nat]]
    BY <1>7, NotifyType DEF Enrich
  <2> QED BY <1>7, <2>6, <2>7 DEF Enrich, TypeOK
<1>c. links \in [Vulns -> SUBSET LinkKeys]
  BY DEF TypeOK
<1>8. ASSUME NEW v \in Vulns, NEW ps \in SUBSET Products, AttachVersions(v, ps)
      PROVE  TypeOK'
  BY <1>8 DEF AttachVersions, TypeOK
<1>9. ASSUME NEW v \in Vulns, NEW p \in Products, PatchVersion(v, p) \/ DetachVersion(v, p)
      PROVE  TypeOK'
  BY <1>9 DEF PatchVersion, DetachVersion, TypeOK
<1>10. ASSUME NEW v \in Vulns, NEW u \in Watchers, Watch(v, u) \/ Unwatch(v, u)
       PROVE  TypeOK'
  BY <1>10, <1>c, SetLinksType DEF Watch, Unwatch, LinkKeys
<1>11. ASSUME NEW v \in Vulns, NEW ks \in SUBSET Vectors, AttachVectors(v, ks)
       PROVE  TypeOK'
  BY <1>11, <1>c, SetLinksType DEF AttachVectors, LinkKeys
<1>12. ASSUME NEW v \in Vulns, NEW k \in Vectors, NEW l \in Vectors,
              PatchVector(v, k, l) \/ DetachVector(v, k)
       PROVE  TypeOK'
  BY <1>12, <1>c, SetLinksType DEF PatchVector, DetachVector, LinkKeys
<1>13. ASSUME NEW v \in Vulns, NEW ks \in SUBSET Impacts, AttachImpacts(v, ks)
       PROVE  TypeOK'
  BY <1>13, <1>c, SetLinksType DEF AttachImpacts, LinkKeys
<1>14. ASSUME NEW v \in Vulns, NEW k \in Impacts, NEW l \in Impacts,
              PatchImpact(v, k, l) \/ DetachImpact(v, k)
       PROVE  TypeOK'
  BY <1>14, <1>c, SetLinksType DEF PatchImpact, DetachImpact, LinkKeys
<1>15. ASSUME NEW v \in Vulns, NEW c \in Comments, PostComment(c, v)
       PROVE  TypeOK'
  <2>1. PICK ns \in SUBSET FreeNotifications : filed' = Filing({c} \cup ns, v, now + 1)
    BY <1>15 DEF PostComment
  <2>2. filed' \in [Filed -> [under : Vulns \cup {None}, since : Nat]]
    BY <1>a, <2>1, FilingType
  <2>3. UNCHANGED <<rows, products, affected, links, policy>> /\ now' = now + 1
    BY <1>15 DEF PostComment, Tick
  <2> QED BY <1>a, <2>2, <2>3 DEF TypeOK
<1>16. ASSUME NEW v \in Vulns, NEW x \in Attachments, UploadAttachment(x, v)
       PROVE  TypeOK'
  <2>1. filed' \in [Filed -> [under : Vulns \cup {None}, since : Nat]]
    BY <1>16, <1>a, FilingType DEF UploadAttachment
  <2>2. UNCHANGED <<rows, products, affected, links, policy>> /\ now' = now + 1
    BY <1>16 DEF UploadAttachment, Tick
  <2> QED BY <1>a, <2>1, <2>2 DEF TypeOK
<1>17. ASSUME NEW p \in Products, DeleteProduct(p)
       PROVE  TypeOK'
  BY <1>17 DEF DeleteProduct, TypeOK
<1>18. ASSUME NEW k, DropKey(k)
       PROVE  TypeOK'
  BY <1>18 DEF DropKey, TypeOK
<1>19. ASSUME NEW x \in Filed, Unfile(x)
       PROVE  TypeOK'
  BY <1>19 DEF Unfile, NotFiled, TypeOK
<1>20. ASSUME NEW c \in Comments, EditComment(c)
       PROVE  TypeOK'
  <2>1. filed[c].under \in Vulns
    BY <1>20 DEF EditComment, Live
  <2>2. filed' \in [Filed -> [under : Vulns \cup {None}, since : Nat]]
    BY <1>20, <2>1, NotifyType DEF EditComment
  <2> QED BY <1>20, <2>2 DEF EditComment, TypeOK
<1>21. ASSUME NEW pol \in Policies, UpdatePolicy(pol)
       PROVE  TypeOK'
  BY <1>21, ConstantsAssumption DEF UpdatePolicy, TypeOK
<1> QED
  BY <1>0, <1>1, <1>2, <1>3, <1>4, <1>5, <1>6, <1>7, <1>8, <1>9, <1>10, <1>11, <1>12,
     <1>13, <1>14, <1>15, <1>16, <1>17, <1>18, <1>19, <1>20, <1>21
     DEF Next, DeleteComment, DeleteAttachment, Filed

\* Every column, mapping, link and filing always holds a value of its domain:
\* what the CHECK constraints and the validators of the routes are there for.
THEOREM TypeCorrect == Spec => []TypeOK
BY InitType, StepType, PTL DEF Spec

(***************************************************************************)
(* The inductive invariant.  MergeForest alone is not inductive: that a    *)
(* merge closes no cycle rests on the order in which the records of a      *)
(* chain were merged away, on ids that are not live redirecting nowhere,   *)
(* and on a redirect always leading to a live record.                      *)
(***************************************************************************)

\* A record that is not live is as it was before it existed.
Vacant ==
    \A v \in Vulns : rows[v].phase # "live" =>
        /\ ~rows[v].isMerged /\ rows[v].mergedInto = None /\ rows[v].mergedAt = 0
        /\ rows[v].resolvedAt = 0 /\ rows[v].status = "Open"

\* A redirect leads from a merged record to a live one, which was merged away
\* later if at all; merges happened in the past.
RedirectOrder ==
    \A v \in Vulns :
        /\ rows[v].mergedAt <= now
        /\ rows[v].mergedInto # None =>
              /\ rows[v].isMerged
              /\ rows[rows[v].mergedInto].phase = "live"
              /\ rows[rows[v].mergedInto].mergedInto # None =>
                    rows[v].mergedAt < rows[rows[v].mergedInto].mergedAt

\* A redirect that is missing was lost with the record it led to.
LostRedirect ==
    \A v \in Vulns : rows[v].isMerged /\ rows[v].mergedInto = None =>
        \E u \in Vulns : rows[u].phase = "deleted"

\* Status and remediation time agree, save on a record closed by a merge.
Resolution ==
    \A v \in Vulns :
        /\ rows[v].resolvedAt # 0 => rows[v].status \in ResolvedStatuses
        /\ rows[v].status \in ResolvedStatuses /\ ~rows[v].isMerged =>
              rows[v].resolvedAt # 0

IInv == TypeOK /\ Vacant /\ RedirectOrder /\ LostRedirect /\ Resolution

\* What every handler but merge and delete does to a row: the redirect stays, an
\* id may be taken, and a record that changes is resolved consistently.
Quiet(r, q) ==
    /\ q.isMerged = r.isMerged /\ q.mergedInto = r.mergedInto /\ q.mergedAt = r.mergedAt
    /\ q.phase = r.phase \/ (r.phase = "unused" /\ q.phase = "live")
    /\ q.phase # "live" => q = r
    /\ \/ q.status = r.status /\ q.resolvedAt = r.resolvedAt
       \/ ResolvedLike(r, q)

\* An untouched row is a quiet change.
LEMMA QuietSelf == ASSUME NEW r PROVE Quiet(r, r)
BY DEF Quiet

\* Editing a live row (PUT, create) is a quiet change: redirect and phase stay.
LEMMA EditedQuiet ==
    ASSUME NEW r \in Row, r.phase = "live", NEW status \in Statuses,
           NEW severity \in Severities, NEW prods, NEW pol \in Policy, NEW at \in Nat \ {0}
    PROVE  Quiet(r, Edited(r, status, severity, prods, pol, at))
<1> DEFINE e == Edited(r, status, severity, prods, pol, at)
<1>1. e = Edited(r, status, severity, prods, pol, at)
  OBVIOUS
<1> HIDE DEF e
<1>2. SameRedirect(r, e) /\ ResolvedLike(r, e)
  BY <1>1, EditedRow
<1>3. Quiet(r, e)
  BY <1>2 DEF Quiet, SameRedirect
<1> QED BY <1>1, <1>3

\* Every handler but merge and delete changes every row quietly.
LEMMA QuietActions ==
    ASSUME TypeOK, Vacant, Next
    PROVE  \/ \E t, s \in Vulns : Merge(t, s)
           \/ \E v \in Vulns : Delete(v)
           \/ /\ \A v \in Vulns : Quiet(rows[v], rows'[v])
              /\ now' = now \/ now' = now + 1
<1> DEFINE Calm == /\ \A v \in Vulns : Quiet(rows[v], rows'[v])
                   /\ now' = now \/ now' = now + 1
<1>a. /\ rows \in [Vulns -> Row]
      /\ policy \in Policy
      /\ now \in Nat
      /\ now + 1 \in Nat \ {0}
  BY DEF TypeOK
<1>b. \A v \in Vulns : rows[v] \in Row
  BY <1>a
<1>0. ASSUME UNCHANGED rows, now' = now \/ now' = now + 1 PROVE Calm
  BY <1>0, QuietSelf
<1>d. ASSUME NEW v \in Vulns, NEW q, Quiet(rows[v], q),
             rows' = [rows EXCEPT ![v] = q], now' = now \/ now' = now + 1
      PROVE  Calm
  BY <1>d, <1>a, QuietSelf
<1> HIDE DEF Calm
<1>1. ASSUME NEW v \in Vulns, NEW st \in StatusInputs, NEW se \in SeverityInputs,
             NEW ps \in SUBSET Products, NEW ks \in SUBSET Vectors,
             Create(v, st, se, ps, ks)
      PROVE  Calm
  <2> DEFINE fresh == [Blank EXCEPT !.phase = "live"]
             q == Edited(fresh, st, se, ps, policy, now + 1)
  <2>1. st \in Statuses /\ se \in Severities
    BY ConstantsAssumption
  <2>2. fresh \in Row
    BY PhasedRow
  <2>3. /\ fresh.phase = "live" /\ fresh.isMerged = FALSE
        /\ fresh.mergedInto = None /\ fresh.mergedAt = 0
    BY DEF Blank
  <2> HIDE DEF fresh
  <2>4. Quiet(fresh, q)
    BY <1>a, <2>1, <2>2, <2>3, EditedQuiet
  <2>5. /\ rows[v].phase = "unused" /\ rows[v].isMerged = FALSE
        /\ rows[v].mergedInto = None /\ rows[v].mergedAt = 0 /\ rows[v].resolvedAt = 0
        /\ rows[v].status = "Open" /\ fresh.status = "Open" /\ fresh.resolvedAt = 0
    BY <1>1, <1>b DEF Create, Vacant, Row, fresh, Blank
  <2> HIDE DEF q
  <2>6. Quiet(rows[v], q)
    BY <2>3, <2>4, <2>5 DEF Quiet, ResolvedLike
  <2>7. rows' = [rows EXCEPT ![v] = q] /\ now' = now + 1
    BY <1>1 DEF Create, Tick, q, fresh
  <2> QED BY <1>d, <2>6, <2>7
<1>2. ASSUME NEW v \in Vulns, NEW st \in Statuses, NEW se \in Severities,
             NEW ks \in SUBSET Vectors, Update(v, st, se, ks)
      PROVE  Calm
  <2> DEFINE q == Edited(rows[v], st, se, products[v], policy, now + 1)
  <2>1. rows[v].phase = "live"
    BY <1>2 DEF Update, Live
  <2>2. Quiet(rows[v], q)
    BY <1>a, <1>b, <2>1, EditedQuiet
  <2>3. rows' = [rows EXCEPT ![v] = q] /\ now' = now + 1
    BY <1>2 DEF Update, Tick
  <2> HIDE DEF q
  <2> QED BY <1>d, <2>2, <2>3
<1>3. ASSUME NEW vs \in SUBSET Vulns, NEW patch \in Patches, BatchUpdate(vs, patch)
      PROVE  Calm
  <2>1. ASSUME NEW v \in Vulns PROVE Quiet(rows[v], rows'[v])
    <3> DEFINE q == BatchEdited(rows[v], patch, products[v], policy, now + 1)
    <3>1. CASE v \in vs /\ ~rows[v].isMerged
      <4>1. rows[v].phase = "live"
        BY <1>3, <3>1 DEF BatchUpdate, Live
      <4>2. /\ SameRedirect(rows[v], q)
            /\ \/ q.status = rows[v].status /\ q.resolvedAt = rows[v].resolvedAt
               \/ ResolvedLike(rows[v], q)
        BY <1>a, <1>b, BatchEditedRow
      <4>3. rows'[v] = q
        BY <1>3, <3>1 DEF BatchUpdate
      <4> HIDE DEF q
      <4> QED BY <4>1, <4>2, <4>3 DEF Quiet, SameRedirect
    <3>2. CASE ~(v \in vs /\ ~rows[v].isMerged)
      <4>1. rows'[v] = rows[v]
        BY <1>3, <3>2 DEF BatchUpdate
      <4> QED BY <4>1, QuietSelf
    <3> QED BY <3>1, <3>2
  <2>2. now' = now + 1
    BY <1>3 DEF BatchUpdate, Tick
  <2> QED BY <2>1, <2>2 DEF Calm
<1>4. ASSUME NEW v \in Vulns, NEW se \in Severities, NEW refs, NEW ks, Ingest(v, se, refs, ks)
      PROVE  Calm
  <2> DEFINE q == [rows[v] EXCEPT !.phase = "live", !.severity = se]
  <2>1. rows[v].phase \in {"unused", "live"}
    BY <1>4, <1>b DEF Ingest, Row
  <2>2. /\ q.phase = "live" /\ q.isMerged = rows[v].isMerged
        /\ q.mergedInto = rows[v].mergedInto /\ q.mergedAt = rows[v].mergedAt
        /\ q.status = rows[v].status /\ q.resolvedAt = rows[v].resolvedAt
    BY <1>b DEF Row
  <2>3. rows' = [rows EXCEPT ![v] = q] /\ now' = now
    BY <1>4, <1>a DEF Ingest
  <2> HIDE DEF q
  <2>4. Quiet(rows[v], q)
    BY <2>1, <2>2 DEF Quiet
  <2> QED BY <1>d, <2>3, <2>4
<1>5. ASSUME NEW v \in Vulns, NEW se, NEW force, NEW refs, NEW rescored,
             Enrich(v, se, force, refs, rescored)
      PROVE  Calm
  <2> DEFINE new == IF force THEN se ELSE rows[v].severity
             due == IF new # rows[v].severity \/ rescored
                    THEN SlaDays(new, products[v], policy) ELSE rows[v].dueDays
             mark == rows[v].marker /\ ~(force /\ refs)
             q == [rows[v] EXCEPT !.severity = new, !.dueDays = due, !.marker = mark]
  <2>1. rows[v].phase = "live"
    BY <1>5 DEF Enrich, Live
  <2>2. rows' = [rows EXCEPT ![v] = q] /\ now' = now
    BY <1>5, <1>a DEF Enrich
  <2> HIDE DEF new, due, mark
  <2>3. /\ q.phase = rows[v].phase /\ q.isMerged = rows[v].isMerged
        /\ q.mergedInto = rows[v].mergedInto /\ q.mergedAt = rows[v].mergedAt
        /\ q.status = rows[v].status /\ q.resolvedAt = rows[v].resolvedAt
    BY <1>b DEF Row
  <2> HIDE DEF q
  <2>4. Quiet(rows[v], q)
    BY <2>1, <2>3 DEF Quiet
  <2> QED BY <1>d, <2>2, <2>4
<1>6. ASSUME NEW v, NEW ks, SetLinks(v, ks) PROVE Calm
  BY <1>6, <1>0 DEF SetLinks
<1>7. ASSUME NEW x, Unfile(x) PROVE Calm
  BY <1>7, <1>0 DEF Unfile
<1> QED
  <2>1. ASSUME NEW v \in Vulns, NEW ps, AttachVersions(v, ps) PROVE Calm
    BY <2>1, <1>0 DEF AttachVersions
  <2>2. ASSUME NEW v \in Vulns, NEW p, PatchVersion(v, p) \/ DetachVersion(v, p) PROVE Calm
    BY <2>2, <1>0 DEF PatchVersion, DetachVersion
  <2>3. ASSUME NEW v \in Vulns, NEW k, NEW l, NEW ks,
               \/ Watch(v, k) \/ Unwatch(v, k) \/ AttachVectors(v, ks) \/ PatchVector(v, k, l)
               \/ DetachVector(v, k) \/ AttachImpacts(v, ks) \/ PatchImpact(v, k, l)
               \/ DetachImpact(v, k)
        PROVE  Calm
    BY <2>3, <1>6 DEF Watch, Unwatch, AttachVectors, PatchVector, DetachVector,
                      AttachImpacts, PatchImpact, DetachImpact
  <2>4. ASSUME NEW x, NEW v, PostComment(x, v) \/ UploadAttachment(x, v) \/ EditComment(x)
        PROVE  Calm
    BY <2>4, <1>0 DEF PostComment, UploadAttachment, EditComment, Tick
  <2>5. ASSUME NEW k, DeleteProduct(k) \/ DropKey(k) \/ UpdatePolicy(k) PROVE Calm
    BY <2>5, <1>0 DEF DeleteProduct, DropKey, UpdatePolicy
  <2>6. ASSUME ~\E t, s \in Vulns : Merge(t, s), ~\E v \in Vulns : Delete(v)
        PROVE  Calm
    BY <2>6, <1>1, <1>2, <1>3, <1>4, <1>5, <1>7, <2>1, <2>2, <2>3, <2>4, <2>5
       DEF Next, DeleteComment, DeleteAttachment
  <2> QED BY <2>6 DEF Calm

\* What the other two do: a merge redirects an unmerged live record to another one
\* and leaves every other redirect; a delete clears the redirects into the record.
LEMMA MergeEffect ==
    ASSUME TypeOK, NEW t \in Vulns, NEW s \in Vulns, Merge(t, s)
    PROVE  /\ t # s
           /\ rows[t].phase = "live" /\ rows[s].phase = "live"
           /\ ~rows[t].isMerged /\ ~rows[s].isMerged
           /\ now' = now + 1
           /\ rows'[s] = MergedAway(rows[s], t, now + 1)
           /\ rows'[t] = Absorbing(rows[t])
           /\ \A v \in Vulns \ {s, t} : rows'[v] = rows[v]
<1>1. t # s
  BY DEF Merge, MergeAllowed
<1>2. rows \in [Vulns -> Row]
  BY DEF TypeOK
<1>3. rows' = [rows EXCEPT ![s] = MergedAway(rows[s], t, now + 1), ![t] = Absorbing(rows[t])]
  BY <1>1 DEF Merge
<1> QED BY <1>1, <1>2, <1>3 DEF Merge, MergeAllowed, Tick

\* The fields of a merge's source afterwards.
LEMMA MergedAwayFields ==
    ASSUME NEW r \in Row, NEW t, NEW at, NEW q, q = MergedAway(r, t, at)
    PROVE  /\ q.phase = r.phase /\ q.isMerged /\ q.mergedInto = t
           /\ q.mergedAt = at /\ q.status = "Closed" /\ q.resolvedAt = r.resolvedAt
BY DEF MergedAway, Row

\* The fields of a merge's target afterwards.
LEMMA AbsorbingFields ==
    ASSUME NEW r \in Row
    PROVE  LET q == Absorbing(r)
           IN  /\ q.phase = r.phase /\ q.isMerged = r.isMerged
               /\ q.mergedInto = r.mergedInto /\ q.mergedAt = r.mergedAt
               /\ q.status = r.status /\ q.resolvedAt = r.resolvedAt
BY DEF Absorbing, Row

\* The fields of every row after a merge.
LEMMA MergeFields ==
    ASSUME TypeOK, NEW t \in Vulns, NEW s \in Vulns, Merge(t, s), NEW v \in Vulns
    PROVE  /\ rows'[v].phase = rows[v].phase
           /\ rows'[v].resolvedAt = rows[v].resolvedAt
           /\ v = s => /\ rows'[v].isMerged /\ rows'[v].mergedInto = t
                       /\ rows'[v].mergedAt = now + 1 /\ rows'[v].status = "Closed"
           /\ v # s => /\ rows'[v].isMerged = rows[v].isMerged
                       /\ rows'[v].mergedInto = rows[v].mergedInto
                       /\ rows'[v].mergedAt = rows[v].mergedAt
                       /\ rows'[v].status = rows[v].status
<1>1. rows[v] \in Row
  BY DEF TypeOK
<1>2. CASE v = s
  <2>1. rows'[v] = MergedAway(rows[v], t, now + 1)
    BY <1>2, MergeEffect
  <2>2. /\ rows'[v].phase = rows[v].phase /\ rows'[v].isMerged /\ rows'[v].mergedInto = t
        /\ rows'[v].mergedAt = now + 1 /\ rows'[v].status = "Closed"
        /\ rows'[v].resolvedAt = rows[v].resolvedAt
    BY <1>1, <2>1, MergedAwayFields
  <2> QED BY <1>2, <2>2
<1>3. CASE v = t
  BY <1>1, <1>3, MergeEffect, AbsorbingFields
<1>4. CASE v # s /\ v # t
  BY <1>4, MergeEffect
<1> QED BY <1>2, <1>3, <1>4

\* The fields of every row after a delete.
LEMMA DeleteFields ==
    ASSUME TypeOK, NEW d \in Vulns, Delete(d), NEW v \in Vulns
    PROVE  /\ v = d => /\ rows'[v].phase = "deleted" /\ rows'[v].isMerged = FALSE
                       /\ rows'[v].mergedInto = None /\ rows'[v].mergedAt = 0
                       /\ rows'[v].resolvedAt = 0 /\ rows'[v].status = "Open"
           /\ v # d => /\ rows'[v].phase = rows[v].phase
                       /\ rows'[v].isMerged = rows[v].isMerged
                       /\ rows'[v].mergedAt = rows[v].mergedAt
                       /\ rows'[v].status = rows[v].status
                       /\ rows'[v].resolvedAt = rows[v].resolvedAt
                       /\ rows[v].mergedInto = d => rows'[v].mergedInto = None
                       /\ rows[v].mergedInto # d => rows'[v].mergedInto = rows[v].mergedInto
<1>1. rows[v] \in Row
  BY DEF TypeOK
<1>2. CASE v = d
  BY <1>2 DEF Delete, Blank
<1>3. CASE v # d
  <2>1. rows'[v] = [rows[v] EXCEPT !.mergedInto =
                      IF rows[v].mergedInto = d THEN None ELSE rows[v].mergedInto]
    BY <1>3 DEF Delete
  <2> QED BY <1>1, <1>3, <2>1 DEF Row
<1> QED BY <1>2, <1>3

\* The empty tables satisfy the inductive invariant.
LEMMA InitInv == Init => IInv
BY InitType DEF Init, IInv, Vacant, RedirectOrder, LostRedirect, Resolution, Blank,
                ResolvedStatuses

\* Every step keeps it: quiet handlers together, then merge, then delete.
LEMMA StepInv == IInv /\ [Next]_vars => IInv'
<1> SUFFICES ASSUME IInv, [Next]_vars PROVE IInv'
  OBVIOUS
<1>a. TypeOK /\ Vacant /\ RedirectOrder /\ LostRedirect /\ Resolution
  BY DEF IInv
<1>b. TypeOK'
  BY <1>a, StepType
<1>c. now \in Nat /\ \A v \in Vulns : /\ rows[v] \in Row /\ rows'[v] \in Row
                                       /\ rows[v].mergedAt \in Nat
                                       /\ rows[v].mergedInto \in Vulns \cup {None}
                                       /\ rows'[v].mergedInto \in Vulns \cup {None}
  BY <1>a, <1>b DEF TypeOK, Row
<1>n. None \notin Vulns
  BY ConstantsAssumption
<1>1. CASE UNCHANGED vars
  BY <1>1, <1>a, <1>b DEF IInv, Vacant, RedirectOrder, LostRedirect, Resolution, vars
<1>2. ASSUME \A v \in Vulns : Quiet(rows[v], rows'[v]), now' = now \/ now' = now + 1
      PROVE  IInv'
  <2>1. Vacant'
    BY <1>2, <1>a DEF Vacant, Quiet
  <2>2. RedirectOrder'
    <3>1. \A v \in Vulns : /\ rows'[v].isMerged = rows[v].isMerged
                           /\ rows'[v].mergedInto = rows[v].mergedInto
                           /\ rows'[v].mergedAt = rows[v].mergedAt
                           /\ rows[v].phase = "live" => rows'[v].phase = "live"
      BY <1>2 DEF Quiet
    <3> QED BY <1>2, <1>a, <1>c, <3>1 DEF RedirectOrder
  <2>3. LostRedirect'
    BY <1>2, <1>a DEF LostRedirect, Quiet
  <2>4. Resolution'
    BY <1>2, <1>a DEF Resolution, Quiet, ResolvedLike
  <2> QED BY <1>b, <2>1, <2>2, <2>3, <2>4 DEF IInv
<1>3. ASSUME NEW t \in Vulns, NEW s \in Vulns, Merge(t, s)
      PROVE  IInv'
  <2>1. Vacant'
    BY <1>3, <1>a, MergeFields, MergeEffect DEF Vacant
  <2>2. RedirectOrder'
    <3>1. ~rows[t].isMerged /\ ~rows[s].isMerged /\ t # s /\ rows[t].phase = "live"
          /\ now' = now + 1
      BY <1>3, <1>a, MergeEffect
    <3>2. rows[t].mergedInto = None
      BY <1>a, <3>1 DEF RedirectOrder
    <3>3. SUFFICES ASSUME NEW v \in Vulns
                   PROVE  /\ rows'[v].mergedAt <= now'
                          /\ rows'[v].mergedInto # None =>
                               /\ rows'[v].isMerged
                               /\ rows'[rows'[v].mergedInto].phase = "live"
                               /\ rows'[rows'[v].mergedInto].mergedInto # None =>
                                    rows'[v].mergedAt < rows'[rows'[v].mergedInto].mergedAt
      BY DEF RedirectOrder
    <3>4. CASE v = s
      BY <1>3, <1>a, <1>c, <3>1, <3>2, <3>4, MergeFields
    <3>5. CASE v # s
      <4>1. /\ rows'[v].isMerged = rows[v].isMerged
            /\ rows'[v].mergedInto = rows[v].mergedInto
            /\ rows'[v].mergedAt = rows[v].mergedAt
        BY <1>3, <1>a, <3>5, MergeFields
      <4>2. rows[v].mergedAt <= now
        BY <1>a DEF RedirectOrder
      <4>3. ASSUME rows[v].mergedInto # None
            PROVE  /\ rows'[v].isMerged
                   /\ rows'[rows[v].mergedInto].phase = "live"
                   /\ rows'[rows[v].mergedInto].mergedInto # None =>
                        rows[v].mergedAt < rows'[rows[v].mergedInto].mergedAt
        <5> DEFINE u == rows[v].mergedInto
        <5>1. u \in Vulns
          BY <1>c, <4>3
        <5>2. /\ rows[v].isMerged /\ rows[u].phase = "live"
              /\ rows[u].mergedInto # None => rows[v].mergedAt < rows[u].mergedAt
          BY <1>a, <4>3 DEF RedirectOrder
        <5> HIDE DEF u
        <5>3. rows'[u].phase = "live"
          BY <1>3, <1>a, <5>1, <5>2, MergeFields
        <5>4. CASE u = s
          <6>1. rows'[u].mergedAt = now + 1
            BY <1>3, <1>a, <5>4, MergeFields
          <6> QED BY <1>c, <4>1, <4>2, <5>2, <5>3, <6>1 DEF u
        <5>5. CASE u # s
          <6>1. rows'[u].mergedAt = rows[u].mergedAt /\ rows'[u].mergedInto = rows[u].mergedInto
            BY <1>3, <1>a, <5>1, <5>5, MergeFields
          <6> QED BY <4>1, <5>2, <5>3, <6>1 DEF u
        <5> QED BY <5>4, <5>5
      <4> QED BY <1>c, <3>1, <4>1, <4>2, <4>3
    <3> QED BY <3>4, <3>5
  <2>3. LostRedirect'
    BY <1>3, <1>a, <1>n, MergeFields DEF LostRedirect
  <2>4. Resolution'
    <3> SUFFICES ASSUME NEW v \in Vulns
                 PROVE  /\ rows'[v].resolvedAt # 0 => rows'[v].status \in ResolvedStatuses
                        /\ rows'[v].status \in ResolvedStatuses /\ ~rows'[v].isMerged =>
                              rows'[v].resolvedAt # 0
      BY DEF Resolution
    <3>1. rows'[v].resolvedAt = rows[v].resolvedAt
      BY <1>3, <1>a, MergeFields
    <3>2. CASE v = s
      <4>1. rows'[v].status = "Closed" /\ rows'[v].isMerged
        BY <1>3, <1>a, <3>2, MergeFields
      <4> QED BY <4>1 DEF ResolvedStatuses
    <3>3. CASE v # s
      <4>1. rows'[v].isMerged = rows[v].isMerged /\ rows'[v].status = rows[v].status
        BY <1>3, <1>a, <3>3, MergeFields
      <4> QED BY <1>a, <3>1, <4>1 DEF Resolution
    <3> QED BY <3>2, <3>3
  <2> QED BY <1>b, <2>1, <2>2, <2>3, <2>4 DEF IInv
<1>4. ASSUME NEW d \in Vulns, Delete(d)
      PROVE  IInv'
  <2>1. Vacant'
    <3> SUFFICES ASSUME NEW v \in Vulns, rows'[v].phase # "live"
                 PROVE  /\ ~rows'[v].isMerged /\ rows'[v].mergedInto = None
                        /\ rows'[v].mergedAt = 0 /\ rows'[v].resolvedAt = 0
                        /\ rows'[v].status = "Open"
      BY DEF Vacant
    <3>1. CASE v = d
      BY <1>4, <1>a, <3>1, DeleteFields
    <3>2. CASE v # d
      <4>1. /\ rows'[v].phase = rows[v].phase /\ rows'[v].isMerged = rows[v].isMerged
            /\ rows'[v].mergedAt = rows[v].mergedAt /\ rows'[v].status = rows[v].status
            /\ rows'[v].resolvedAt = rows[v].resolvedAt
            /\ rows[v].mergedInto = d => rows'[v].mergedInto = None
            /\ rows[v].mergedInto # d => rows'[v].mergedInto = rows[v].mergedInto
        BY <1>4, <1>a, <3>2, DeleteFields
      <4> QED BY <1>a, <4>1 DEF Vacant
    <3> QED BY <3>1, <3>2
  <2>2. now' = now
    BY <1>4 DEF Delete
  <2>3. RedirectOrder'
    <3>1. SUFFICES ASSUME NEW v \in Vulns
                   PROVE  /\ rows'[v].mergedAt <= now'
                          /\ rows'[v].mergedInto # None =>
                               /\ rows'[v].isMerged
                               /\ rows'[rows'[v].mergedInto].phase = "live"
                               /\ rows'[rows'[v].mergedInto].mergedInto # None =>
                                    rows'[v].mergedAt < rows'[rows'[v].mergedInto].mergedAt
      BY DEF RedirectOrder
    <3>2. CASE v = d
      <4>1. rows'[v].mergedInto = None /\ rows'[v].mergedAt = 0
        BY <1>4, <1>a, <3>2, DeleteFields
      <4> QED BY <1>c, <2>2, <4>1
    <3>3. CASE v # d
      <4>a. /\ rows'[v].isMerged = rows[v].isMerged
            /\ rows'[v].mergedAt = rows[v].mergedAt
            /\ rows[v].mergedInto = d => rows'[v].mergedInto = None
            /\ rows[v].mergedInto # d => rows'[v].mergedInto = rows[v].mergedInto
        BY <1>4, <1>a, <3>3, DeleteFields
      <4>1. /\ rows'[v].isMerged = rows[v].isMerged
            /\ rows'[v].mergedInto # None => rows'[v].mergedInto = rows[v].mergedInto
            /\ rows'[v].mergedInto # d
            /\ rows'[v].mergedAt = rows[v].mergedAt
        BY <1>n, <4>a
      <4>2. ASSUME rows'[v].mergedInto # None
            PROVE  /\ rows'[v].isMerged
                   /\ rows'[rows'[v].mergedInto].phase = "live"
                   /\ rows'[rows'[v].mergedInto].mergedInto # None =>
                        rows'[v].mergedAt < rows'[rows'[v].mergedInto].mergedAt
        <5> DEFINE u == rows'[v].mergedInto
        <5>1. u \in Vulns /\ u # d /\ u = rows[v].mergedInto /\ u # None
          BY <1>c, <4>1, <4>2
        <5> HIDE DEF u
        <5>2. /\ rows[v].isMerged /\ rows[u].phase = "live"
              /\ rows[u].mergedInto # None => rows[v].mergedAt < rows[u].mergedAt
          BY <1>a, <5>1 DEF RedirectOrder
        <5>3. /\ rows'[u].phase = rows[u].phase /\ rows'[u].mergedAt = rows[u].mergedAt
              /\ rows'[u].mergedInto # None => rows[u].mergedInto # None
          BY <1>4, <1>a, <5>1, DeleteFields
        <5> QED BY <4>1, <5>2, <5>3 DEF u
      <4> QED BY <1>a, <2>2, <4>1, <4>2 DEF RedirectOrder
    <3> QED BY <3>2, <3>3
  <2>4. LostRedirect'
    BY <1>4, <1>a, DeleteFields DEF LostRedirect
  <2>5. Resolution'
    <3> SUFFICES ASSUME NEW v \in Vulns
                 PROVE  /\ rows'[v].resolvedAt # 0 => rows'[v].status \in ResolvedStatuses
                        /\ rows'[v].status \in ResolvedStatuses /\ ~rows'[v].isMerged =>
                              rows'[v].resolvedAt # 0
      BY DEF Resolution
    <3>1. CASE v = d
      <4>1. rows'[v].resolvedAt = 0 /\ rows'[v].status = "Open"
        BY <1>4, <1>a, <3>1, DeleteFields
      <4> QED BY <4>1 DEF ResolvedStatuses
    <3>2. CASE v # d
      <4>1. /\ rows'[v].isMerged = rows[v].isMerged /\ rows'[v].status = rows[v].status
            /\ rows'[v].resolvedAt = rows[v].resolvedAt
        BY <1>4, <1>a, <3>2, DeleteFields
      <4> QED BY <1>a, <4>1 DEF Resolution
    <3> QED BY <3>1, <3>2
  <2> QED BY <1>b, <2>1, <2>3, <2>4, <2>5 DEF IInv
<1> QED
  BY <1>1, <1>2, <1>3, <1>4, <1>a, QuietActions

\* The inductive invariant holds in every reachable state.
THEOREM InductiveInvariant == Spec => []IInv
BY InitInv, StepInv, PTL DEF Spec

(***************************************************************************)
(* What the inductive invariant is for.                                    *)
(***************************************************************************)

\* However many records are merged and deleted, in whatever order, the redirects
\* form a forest.  In a set of records that all redirect into the set, take one
\* that was merged away last: the record it redirects to was merged away later.
THEOREM RedirectsFormForest == Spec => []MergeForest
<1>1. IInv => MergeForest
  <2> SUFFICES ASSUME IInv, NEW C \in SUBSET Vulns, C # {},
                      \A v \in C : rows[v].mergedInto \in C
               PROVE  FALSE
    BY DEF MergeForest
  <2>1. RedirectOrder /\ TypeOK
    BY DEF IInv
  <2>2. now \in Nat /\ \A v \in C : rows[v].mergedAt \in Nat /\ rows[v].mergedAt <= now
    BY <2>1 DEF TypeOK, Row, RedirectOrder
  <2>3. \A v \in C : rows[v].mergedInto # None
    BY ConstantsAssumption
  <2> DEFINE ages == {now - rows[v].mergedAt : v \in C}
  <2>4. ages \in SUBSET Nat /\ ages # {}
    BY <2>2
  <2>5. PICK a \in ages : \A b \in ages : a <= b
    BY <2>4, LeastNat
  <2>6. PICK v \in C : a = now - rows[v].mergedAt
    BY <2>5
  <2> DEFINE u == rows[v].mergedInto
  <2>7. u \in C
    BY <2>6
  <2>8. rows[v].mergedAt < rows[u].mergedAt
    BY <2>1, <2>3, <2>6, <2>7 DEF RedirectOrder
  <2>9. now - rows[v].mergedAt <= now - rows[u].mergedAt
    BY <2>5, <2>6, <2>7
  <2> HIDE DEF u
  <2> QED BY <2>2, <2>6, <2>7, <2>8, <2>9
<1> QED BY <1>1, InductiveInvariant, PTL

\* A redirect leads from a merged record to an existing one, or was lost with it.
THEOREM RedirectsIntact == Spec => []RedirectIntact
<1>1. IInv => RedirectIntact
  <2> SUFFICES ASSUME IInv, NEW v \in Live
               PROVE  /\ rows[v].mergedInto # None =>
                            rows[v].isMerged /\ rows[v].mergedInto \in Live
                      /\ rows[v].isMerged /\ rows[v].mergedInto = None =>
                            \E u \in Vulns : rows[u].phase = "deleted"
    BY DEF RedirectIntact
  <2>1. v \in Vulns /\ rows[v].mergedInto \in Vulns \cup {None}
    BY DEF Live, IInv, TypeOK, Row
  <2> QED BY <2>1 DEF IInv, RedirectOrder, LostRedirect, Live
<1> QED BY <1>1, InductiveInvariant, PTL

\* resolved_at is there exactly while a record is resolved, merges apart.
THEOREM ResolutionConsistent == Spec => []ResolutionStamped
<1>1. IInv => ResolutionStamped
  BY DEF IInv, Resolution, ResolutionStamped, Live
<1> QED BY <1>1, InductiveInvariant, PTL

\* A resolution keeps the time it was first reached until it is reopened.
THEOREM ResolutionPersists == Spec => ResolutionKept
<1> DEFINE Kept == \A v \in Vulns : LET was == rows[v].resolvedAt
                                       is  == rows'[v].resolvedAt
                                   IN  was # 0 /\ is # 0 => is = was
<1>1. IInv /\ [Next]_vars => [Kept]_vars
  <2> SUFFICES ASSUME IInv, Next PROVE Kept
    OBVIOUS
  <2>a. TypeOK /\ Vacant
    BY DEF IInv
  <2>1. CASE \A v \in Vulns : Quiet(rows[v], rows'[v])
    BY <2>1 DEF Quiet, ResolvedLike
  <2>2. CASE \E t, s \in Vulns : Merge(t, s)
    BY <2>2, <2>a, MergeFields
  <2>3. CASE \E d \in Vulns : Delete(d)
    BY <2>3, <2>a, DeleteFields
  <2> QED BY <2>a, <2>1, <2>2, <2>3, QuietActions
<1> QED BY <1>1, InductiveInvariant, PTL DEF Spec, ResolutionKept

\* A redirect is only lost with its record or with the record it leads to, and no
\* later merge takes a merged record over.
THEOREM RedirectsKept == Spec => RedirectKept
<1> DEFINE Kept == \A v \in Vulns :
              /\ rows[v].isMerged => rows'[v].isMerged \/ rows'[v].phase = "deleted"
              /\ rows[v].mergedInto # None /\ rows'[v].mergedInto # rows[v].mergedInto =>
                    "deleted" \in {rows'[v].phase, rows'[rows[v].mergedInto].phase}
<1>1. IInv /\ [Next]_vars => [Kept]_vars
  <2> SUFFICES ASSUME IInv, Next PROVE Kept
    OBVIOUS
  <2>a. TypeOK /\ Vacant /\ RedirectOrder
    BY DEF IInv
  <2>1. CASE \A v \in Vulns : Quiet(rows[v], rows'[v])
    BY <2>1 DEF Quiet
  <2>2. ASSUME NEW t \in Vulns, NEW s \in Vulns, Merge(t, s) PROVE Kept
    <3>1. ~rows[s].isMerged /\ rows[s].mergedInto = None
      BY <2>2, <2>a, MergeEffect DEF RedirectOrder
    <3> QED BY <2>2, <2>a, <3>1, MergeFields
  <2>3. ASSUME NEW d \in Vulns, Delete(d) PROVE Kept
    BY <2>3, <2>a, DeleteFields
  <2> QED BY <2>a, <2>1, <2>2, <2>3, QuietActions
<1> QED BY <1>1, InductiveInvariant, PTL DEF Spec, RedirectKept


(***************************************************************************)
(* What merging does to the evidence, and severity changes to deadlines.   *)
(***************************************************************************)

\* Outside merges and deletes a filing is left, removed, or made anew no earlier
\* than now, under a live record.
LEMMA FilingSteps ==
    ASSUME TypeOK, Next, ~\E t, s \in Vulns : Merge(t, s), ~\E d \in Vulns : Delete(d)
    PROVE  \A x \in Filed : \/ filed'[x] = filed[x]
                            \/ filed'[x].under = None
                            \/ filed'[x].since >= now
<1> DEFINE Later == \A x \in Filed : \/ filed'[x] = filed[x]
                                     \/ filed'[x].under = None
                                     \/ filed'[x].since >= now
<1>a. now \in Nat
  BY DEF TypeOK
<1>1. ASSUME UNCHANGED filed PROVE Later
  BY <1>1
<1>2. ASSUME NEW xs, NEW v, NEW at \in {now, now + 1}, filed' = Filing(xs, v, at)
      PROVE  Later
  BY <1>2, <1>a DEF Filing
<1>3. ASSUME NEW v, Notify(v) PROVE Later
  BY <1>2, <1>3 DEF Notify
<1>4. ASSUME NEW x \in Filed, Unfile(x) PROVE Later
  BY <1>4 DEF Unfile, NotFiled, TypeOK
<1> HIDE DEF Later
<1>5. ASSUME NEW c, NEW v, PostComment(c, v) PROVE Later
  BY <1>2, <1>5 DEF PostComment
<1>6. ASSUME NEW x, NEW v, UploadAttachment(x, v) PROVE Later
  BY <1>2, <1>6 DEF UploadAttachment
<1>7. ASSUME NEW v, NEW a, NEW b, NEW c, NEW d,
             \/ Create(v, a, b, c, d) \/ BatchUpdate(v, a) \/ Ingest(v, a, b, c)
             \/ AttachVersions(v, a) \/ PatchVersion(v, a) \/ DetachVersion(v, a)
             \/ DeleteProduct(a) \/ DropKey(a) \/ UpdatePolicy(a)
      PROVE  Later
  BY <1>1, <1>7 DEF Create, BatchUpdate, Ingest, AttachVersions, PatchVersion, DetachVersion,
                    DeleteProduct, DropKey, UpdatePolicy
<1>8. ASSUME NEW v, NEW a, NEW b, NEW c, NEW d,
             Update(v, a, b, c) \/ Enrich(v, a, b, c, d) \/ EditComment(v)
      PROVE  Later
  BY <1>3, <1>8 DEF Update, Enrich, EditComment
<1>9. ASSUME NEW v, NEW k, NEW l, NEW ks,
             \/ Watch(v, k) \/ Unwatch(v, k) \/ AttachVectors(v, ks) \/ PatchVector(v, k, l)
             \/ DetachVector(v, k) \/ AttachImpacts(v, ks) \/ PatchImpact(v, k, l)
             \/ DetachImpact(v, k)
      PROVE  Later
  BY <1>1, <1>9 DEF Watch, Unwatch, AttachVectors, PatchVector, DetachVector,
                    AttachImpacts, PatchImpact, DetachImpact, SetLinks
<1>10. Later
  BY <1>4, <1>5, <1>6, <1>7, <1>8, <1>9 DEF Next, DeleteComment, DeleteAttachment, Filed
<1> QED BY <1>10 DEF Later

\* What a merge leaves behind is drained, and stays so: what is found under a
\* merged record was filed there after the merge, for every number of merges,
\* deletes and filings in between.
THEOREM MergedRecordsDrained == Spec => []MergedRecordIsDrained
<1>1. Init => MergedRecordIsDrained
  BY DEF Init, MergedRecordIsDrained, NotFiled, Filed
<1>2. IInv /\ MergedRecordIsDrained /\ [Next]_vars => MergedRecordIsDrained'
  <2> SUFFICES ASSUME IInv, MergedRecordIsDrained, [Next]_vars,
                      NEW x \in Comments \cup Notifications,
                      filed'[x].under # None, rows'[filed'[x].under].isMerged
               PROVE  filed'[x].since >= rows'[filed'[x].under].mergedAt
    BY DEF MergedRecordIsDrained
  <2> DEFINE v == filed'[x].under
  <2>a. TypeOK /\ Vacant /\ RedirectOrder /\ TypeOK'
    BY StepType DEF IInv
  <2>b. v \in Vulns /\ x \in Filed /\ filed'[x].since \in Nat /\ filed[x].since \in Nat
    BY <2>a DEF TypeOK, Filed
  <2>c. now \in Nat /\ rows[v].mergedAt \in Nat /\ rows[v].mergedAt <= now
    BY <2>a, <2>b DEF TypeOK, Row, RedirectOrder
  <2>d. filed[x].under = v /\ rows[v].isMerged => filed[x].since >= rows[v].mergedAt
    BY <2>b, ConstantsAssumption DEF MergedRecordIsDrained
  <2>1. CASE UNCHANGED vars
    BY <2>1, <2>d DEF vars
  <2>2. ASSUME NEW t \in Vulns, NEW s \in Vulns, Merge(t, s)
        PROVE  filed'[x].since >= rows'[v].mergedAt
    <3>1. t # s /\ ~rows[t].isMerged /\ ~rows'[t].isMerged
      BY <2>2, <2>a, MergeEffect, MergeFields
    <3>2. filed'[x] = IF x \notin Attachments /\ filed[x].under = s
                      THEN [filed[x] EXCEPT !.under = t] ELSE filed[x]
      BY <2>2, <2>b DEF Merge, MoveRows
    <3>3. x \notin Attachments
      BY ConstantsAssumption
    <3> QED BY <2>2, <2>a, <2>b, <2>d, <3>1, <3>2, <3>3, MergeFields
  <2>3. ASSUME NEW d \in Vulns, Delete(d)
        PROVE  filed'[x].since >= rows'[v].mergedAt
    <3>1. filed'[x] = IF filed[x].under = d THEN NotFiled ELSE filed[x]
      BY <2>3, <2>b DEF Delete
    <3>2. filed[x].under # d /\ filed'[x] = filed[x]
      BY <2>b, <3>1, ConstantsAssumption DEF NotFiled
    <3> QED BY <2>3, <2>a, <2>b, <2>d, <3>2, DeleteFields
  <2>4. CASE Next /\ (~\E t, s \in Vulns : Merge(t, s)) /\ (~\E d \in Vulns : Delete(d))
    <3>1. rows'[v].isMerged = rows[v].isMerged /\ rows'[v].mergedAt = rows[v].mergedAt
      BY <2>4, <2>a, <2>b, QuietActions DEF Quiet
    <3>2. filed'[x] = filed[x] \/ filed'[x].since >= now
      BY <2>4, <2>a, <2>b, FilingSteps, ConstantsAssumption
    <3> QED BY <2>b, <2>c, <2>d, <3>1, <3>2
  <2> QED BY <2>1, <2>2, <2>3, <2>4
<1> QED BY <1>1, <1>2, InductiveInvariant, PTL DEF Spec

\* A merge conserves the evidence: it all hangs from the surviving record in the
\* step that closes the other, and only a merge closes a record that way.
THEOREM EvidenceKept == Spec => EvidenceFollowsMerge
<1> DEFINE Follows(v) ==
             LET t == rows'[v].mergedInto
             IN  /\ links'[v] = {} /\ products'[v] = {}
                 /\ links'[t] = links[t] \cup links[v]
                 /\ products'[t] = products[t] \cup products[v]
                 /\ affected'[t] = affected[t] \cup affected[v]
                 /\ \A x \in Comments \cup Notifications :
                       filed[x].under = v => filed'[x].under = t
<1>1. ASSUME IInv, Next, NEW v \in Vulns, ~rows[v].isMerged, rows'[v].isMerged
      PROVE  Follows(v)
  <2>a. TypeOK /\ Vacant
    BY <1>1 DEF IInv
  <2>1. CASE \A u \in Vulns : Quiet(rows[u], rows'[u])
    BY <1>1, <2>1 DEF Quiet
  <2>2. ASSUME NEW t \in Vulns, NEW s \in Vulns, Merge(t, s) PROVE Follows(v)
    <3>1. v = s /\ t # s /\ rows'[v].mergedInto = t
      BY <1>1, <2>2, <2>a, MergeFields, MergeEffect
    <3>2. /\ links'[s] = {} /\ products'[s] = {}
          /\ links'[t] = links[t] \cup links[s]
          /\ products'[t] = products[t] \cup products[s]
          /\ affected'[t] = affected[t] \cup affected[s]
      BY <2>2, <2>a, <3>1 DEF Merge, MoveRows, TypeOK
    <3>3. ASSUME NEW x \in Comments \cup Notifications, filed[x].under = s
          PROVE  filed'[x].under = t
      <4>1. x \in Filed /\ filed[x] \in [under : Vulns \cup {None}, since : Nat]
        BY <2>a DEF TypeOK, Filed
      <4>2. filed'[x] = [filed[x] EXCEPT !.under = t]
        BY <2>2, <3>3, <4>1, ConstantsAssumption DEF Merge, MoveRows
      <4> QED BY <4>1, <4>2
    <3> QED BY <3>1, <3>2, <3>3
  <2>3. ASSUME NEW d \in Vulns, Delete(d) PROVE Follows(v)
    BY <1>1, <2>3, <2>a, DeleteFields
  <2> QED BY <1>1, <2>a, <2>1, <2>2, <2>3, QuietActions
<1>2. IInv /\ [Next]_vars =>
        [\A v \in Vulns : ~rows[v].isMerged /\ rows'[v].isMerged => Follows(v)]_vars
  BY <1>1
<1> QED BY <1>2, InductiveInvariant, PTL DEF Spec, EvidenceFollowsMerge
\* The deadline update_vulnerability and the batch update write is that of the
\* severity they write, unless the batch sets one by hand.
LEMMA EditedDeadline ==
    ASSUME NEW r \in Row, NEW status \in Statuses, NEW severity \in Severities,
           NEW prods, NEW pol \in Policy, NEW at \in Nat \ {0},
           NEW e, e = Edited(r, status, severity, prods, pol, at)
    PROVE  e.severity = severity /\ e.dueDays = SlaDays(severity, prods, pol)
<1> DEFINE r1 == [r EXCEPT !.status = status, !.severity = severity]
           s1 == Stamp(r1, at)
<1>1. r1 \in Row /\ r1.severity = severity
  BY DEF Row
<1>2. s1 \in Row /\ s1 = [r1 EXCEPT !.resolvedAt = s1.resolvedAt]
  BY <1>1, StampRow
<1>3. e = [s1 EXCEPT !.dueDays = SlaDays(severity, prods, pol)]
  BY DEF Edited
<1> HIDE DEF r1, s1
<1>4. s1.severity = severity
  BY <1>1, <1>2 DEF Row
<1> QED BY <1>2, <1>3, <1>4 DEF Row

\* The same of the batch update.
LEMMA BatchDeadline ==
    ASSUME NEW r \in Row, NEW patch \in Patches, patch.due = Recompute,
           NEW prods, NEW pol \in Policy, NEW at \in Nat \ {0},
           NEW e, e = BatchEdited(r, patch, prods, pol, at)
    PROVE  e.dueDays = SlaDays(e.severity, prods, pol)
<1> DEFINE severity == IF patch.severity = Absent THEN r.severity ELSE patch.severity
           stamped == IF patch.status = Absent THEN r
                      ELSE Stamp([r EXCEPT !.status = patch.status], at)
<1>1. patch.status # Absent => patch.status \in Statuses
  BY ConstantsAssumption DEF Patches
<1>2. stamped \in Row
  <2>1. CASE patch.status = Absent
    BY <2>1
  <2>2. CASE patch.status # Absent
    <3>1. [r EXCEPT !.status = patch.status] \in Row
      BY <1>1, <2>2 DEF Row
    <3> QED BY <2>2, <3>1, StampRow
  <2> QED BY <2>1, <2>2
<1>3. e = [stamped EXCEPT !.severity = severity, !.dueDays = SlaDays(severity, prods, pol)]
  BY DEF BatchEdited
<1> HIDE DEF stamped, severity
<1> QED BY <1>2, <1>3 DEF Row

\* A severity changed through the API is never left with the deadline of the old
\* one, whatever the policies, products and batches are: a step excused as a feed's is
\* none that an enrichment could take, one excused as set by hand none of a PUT.
THEOREM SlaRecomputed == Spec => SlaFollowsSeverity
<1> DEFINE Excused(v) ==
             \/ rows'[v].dueDays = SlaDays(rows'[v].severity, products[v], policy)
             \/ /\ \E vs \in SUBSET Vulns, patch \in Patches :
                      v \in vs /\ patch.due # Recompute /\ BatchUpdate(vs, patch)
                /\ ~IsPut(v)
             \/ /\ \E refs \in BOOLEAN, ks \in SUBSET FeedLinks :
                      Ingest(v, rows'[v].severity, refs, ks)
                /\ ~IsEnrichment(v)
           Timely(v) == Rescored(v) => Excused(v)
<1>1. ASSUME TypeOK, Next, NEW v \in Vulns PROVE Timely(v)
  <2>a. /\ rows \in [Vulns -> Row] /\ rows[v] \in Row
        /\ policy \in Policy /\ now + 1 \in Nat \ {0}
    BY <1>1 DEF TypeOK
  <2>0. ASSUME rows'[v].severity = rows[v].severity PROVE Timely(v)
    BY <2>0 DEF Rescored
  <2>1. ASSUME NEW w \in Vulns, NEW st, NEW se, NEW ps, NEW ks, Create(w, st, se, ps, ks)
        PROVE  Timely(v)
    BY <2>1, <2>a DEF Create, Rescored
  <2>2. ASSUME NEW w \in Vulns, NEW st \in Statuses, NEW se \in Severities, NEW ks,
               Update(w, st, se, ks)
        PROVE  Timely(v)
    <3>1. CASE w = v
      <4>1. rows'[v] = Edited(rows[v], st, se, products[v], policy, now + 1)
        BY <2>2, <2>a, <3>1 DEF Update
      <4>2. /\ rows'[v].severity = se
            /\ rows'[v].dueDays = SlaDays(se, products[v], policy)
        BY <2>a, <4>1, EditedDeadline
      <4> QED BY <4>2
    <3>2. CASE w # v
      BY <2>0, <2>2, <2>a, <3>2 DEF Update
    <3> QED BY <3>1, <3>2
  <2>3. ASSUME NEW vs \in SUBSET Vulns, NEW patch \in Patches, BatchUpdate(vs, patch)
        PROVE  Timely(v)
    <3>1. CASE ~(v \in vs /\ ~rows[v].isMerged)
      <4>1. rows'[v] = rows[v]
        BY <2>3, <3>1 DEF BatchUpdate
      <4> QED BY <2>0, <4>1
    <3>2. CASE v \in vs /\ ~rows[v].isMerged /\ patch.due # Recompute
      <4>1. CASE IsPut(v) BY <2>2, <4>1 DEF IsPut
      <4>2. CASE ~IsPut(v) BY <2>3, <3>2, <4>2
      <4> QED BY <4>1, <4>2
    <3>3. CASE v \in vs /\ ~rows[v].isMerged /\ patch.due = Recompute
      <4>1. rows'[v] = BatchEdited(rows[v], patch, products[v], policy, now + 1)
        BY <2>3, <3>3 DEF BatchUpdate
      <4>2. rows'[v].dueDays = SlaDays(rows'[v].severity, products[v], policy)
        BY <2>a, <3>3, <4>1, BatchDeadline
      <4> QED BY <4>2
    <3> QED BY <3>1, <3>2, <3>3
  <2>4. ASSUME NEW w \in Vulns, NEW se, NEW force, NEW refs, NEW rescored,
               Enrich(w, se, force, refs, rescored)
        PROVE  Timely(v)
    <3>1. CASE w = v
      <4> DEFINE new == IF force THEN se ELSE rows[v].severity
                 due == IF new # rows[v].severity \/ rescored
                        THEN SlaDays(new, products[v], policy) ELSE rows[v].dueDays
                 mark == rows[v].marker /\ ~(force /\ refs)
      <4>1. rows' = [rows EXCEPT ![v] =
                       [rows[v] EXCEPT !.severity = new, !.dueDays = due, !.marker = mark]]
        BY <2>4, <2>a, <3>1 DEF Enrich
      <4>2. new # rows[v].severity => due = SlaDays(new, products[v], policy)
        OBVIOUS
      <4> HIDE DEF new, due, mark
      <4>3. rows'[v].severity = new /\ rows'[v].dueDays = due
        BY <2>a, <4>1 DEF Row
      <4> QED BY <2>0, <4>2, <4>3
    <3>2. CASE w # v
      BY <2>0, <2>4, <2>a, <3>2 DEF Enrich
    <3> QED BY <3>1, <3>2
  <2>5. ASSUME NEW w \in Vulns, NEW se \in Severities, NEW refs \in BOOLEAN,
               NEW ks \in SUBSET FeedLinks, Ingest(w, se, refs, ks)
        PROVE  Timely(v)
    <3>1. CASE w = v
      <4>1. rows' = [rows EXCEPT ![v] = [rows[v] EXCEPT !.phase = "live", !.severity = se]]
        BY <2>5, <2>a, <3>1 DEF Ingest
      <4>2. rows'[v].severity = se
        BY <2>a, <4>1 DEF Row
      <4>3. Ingest(v, rows'[v].severity, refs, ks)
        BY <2>5, <3>1, <4>2
      <4>4. CASE IsEnrichment(v) BY <2>4, <4>4 DEF IsEnrichment
      <4>5. CASE ~IsEnrichment(v) BY <4>3, <4>5
      <4> QED BY <4>4, <4>5
    <3>2. CASE w # v
      BY <2>0, <2>5, <2>a, <3>2 DEF Ingest
    <3> QED BY <3>1, <3>2
  <2>6. ASSUME NEW t \in Vulns, NEW s \in Vulns, Merge(t, s) PROVE Timely(v)
    <3>1. \/ rows'[v] = rows[v]
          \/ rows'[v] = MergedAway(rows[v], t, now + 1)
          \/ rows'[v] = Absorbing(rows[v])
      BY <1>1, <2>6, MergeEffect
    <3>2. rows'[v].severity = rows[v].severity
      BY <2>a, <3>1 DEF MergedAway, Absorbing, Row
    <3> QED BY <2>0, <3>2
  <2>7. ASSUME NEW d \in Vulns, Delete(d) PROVE Timely(v)
    <3>1. CASE v = d
      BY <1>1, <2>7, <3>1, DeleteFields DEF Rescored
    <3>2. CASE v # d
      <4>1. rows'[v] = [rows[v] EXCEPT !.mergedInto =
                          IF rows[v].mergedInto = d THEN None ELSE rows[v].mergedInto]
        BY <2>7, <3>2 DEF Delete
      <4>2. rows'[v].severity = rows[v].severity
        BY <2>a, <4>1 DEF Row
      <4> QED BY <2>0, <4>2
    <3> QED BY <3>1, <3>2
  <2>8. ASSUME UNCHANGED rows PROVE Timely(v)
    BY <2>0, <2>8
  <2> HIDE DEF Timely
  <2>9. ASSUME NEW w, NEW a, NEW b, NEW ks,
               \/ AttachVersions(w, a) \/ PatchVersion(w, a) \/ DetachVersion(w, a)
               \/ DeleteProduct(a) \/ DropKey(a) \/ UpdatePolicy(a)
               \/ PostComment(a, w) \/ UploadAttachment(a, w) \/ EditComment(a) \/ Unfile(a)
        PROVE  Timely(v)
    BY <2>8, <2>9 DEF AttachVersions, PatchVersion, DetachVersion, DeleteProduct, DropKey,
                      UpdatePolicy, PostComment, UploadAttachment, EditComment, Unfile
  <2>10. ASSUME NEW w, NEW a, NEW b, NEW ks,
                \/ Watch(w, a) \/ Unwatch(w, a) \/ AttachVectors(w, ks)
                \/ PatchVector(w, a, b) \/ DetachVector(w, a) \/ AttachImpacts(w, ks)
                \/ PatchImpact(w, a, b) \/ DetachImpact(w, a)
         PROVE  Timely(v)
    BY <2>8, <2>10 DEF Watch, Unwatch, AttachVectors, PatchVector, DetachVector,
                       AttachImpacts, PatchImpact, DetachImpact, SetLinks
  <2>11. SeverityInputs \subseteq Severities /\ StatusInputs \subseteq Statuses
    BY ConstantsAssumption
  <2> QED
    BY <1>1, <2>1, <2>2, <2>3, <2>4, <2>5, <2>6, <2>7, <2>9, <2>10, <2>11
       DEF Next, DeleteComment, DeleteAttachment
<1>2. TypeOK /\ [Next]_vars => [\A v \in Vulns : Timely(v)]_vars
  BY <1>1
<1> QED BY <1>2, TypeCorrect, PTL DEF Spec, SlaFollowsSeverity

=============================================================================
