-------------------------- MODULE VulnRequestsProofs --------------------------
(***************************************************************************)
(* Theorems about requests that overlap, for every set of records and of   *)
(* requests, and for every bound on the clock.                             *)
(*                                                                         *)
(* A request knows its records as they were when it loaded them, and no    *)
(* invariant says that they still are so: only that it loaded rows its     *)
(* handler accepts (Loaded).  What it writes of them later are columns     *)
(* over rows that others have written, which keeps the redirects intact    *)
(* because only a merge writes a redirect, to a record it finds, and only  *)
(* a delete removes one.                                                   *)
(***************************************************************************)
EXTENDS VulnRequests, VulnRecordsProofs

Kinds == {"merge", "moving", "edit"}

Seen == UNION {[on -> Row] : on \in SUBSET Vulns}

\* A request before it has written anything; a merge that has relinked its rows.
Requests ==
  [kind : {"merge", "edit"}, on : (SUBSET Vulns) \ {{}}, into : Vulns \cup {None}, seen : Seen]
Movings ==
  [kind : {"moving"}, on : (SUBSET Vulns) \ {{}}, into : Vulns, from : Vulns, seen : Seen,
   took : SUBSET LinkKeys, had : SUBSET LinkKeys, moves : SUBSET Filed,
   hung : SUBSET (Comments \cup Notifications)]

\* What a request has loaded its handler accepts.
Loaded(r) ==
  /\ r.seen \in [r.on -> Row]
  /\ \A v \in r.on : /\ r.seen[v].phase = "live"
                     /\ r.seen[v].mergedInto # None => r.seen[v].isMerged
  /\ r.kind = "merge" =>
       \E s \in Vulns : /\ r.into \in Vulns /\ r.on = {r.into, s}
                        /\ MergeAllowed(r.into, s, r.seen[r.into], r.seen[s])
  /\ r.kind = "moving" =>
       /\ r.on = {r.into, r.from} /\ MergeAllowed(r.into, r.from, r.seen[r.into], r.seen[r.from])
       /\ r.hung \subseteq r.moves /\ r.moves \cap Attachments = {}

\* What is filed is filed under a record that exists.
FiledLive == \A x \in Filed : filed[x].under # None => filed[x].under \in Live

\* An id not taken redirects nowhere.
UnusedBlank ==
  \A v \in Vulns : rows[v].phase = "unused" => ~rows[v].isMerged /\ rows[v].mergedInto = None

\* No request here gives a record a version mapping.
NoMappings == products = [v \in Vulns |-> {}] /\ affected = [v \in Vulns |-> {}]

\* The inductive invariant.
RInv ==
  /\ TypeOK /\ req \in [Workers -> {Idle} \cup Requests \cup Movings]
  /\ \A w \in Workers : req[w] # Idle => Loaded(req[w])
  /\ FiledLive /\ UnusedBlank /\ RedirectIntact /\ NoMappings

\* What every step does that neither merges nor deletes.
Steady ==
  /\ \A v \in Vulns :
       \/ /\ rows'[v].phase = rows[v].phase /\ rows'[v].isMerged = rows[v].isMerged
          /\ rows'[v].mergedInto = rows[v].mergedInto
       \/ /\ rows[v].phase = "unused" /\ rows'[v].phase = "live"
          /\ ~rows'[v].isMerged /\ rows'[v].mergedInto = None
  /\ \A v \in Live : links[v] \subseteq links'[v]
  /\ \A x \in Filed : filed'[x] = filed[x] \/ filed'[x].under \in Live
  /\ UNCHANGED <<products, affected>>
  /\ \A w \in Workers : req[w].kind = "moving" => req'[w] # Idle

\* What NothingLost says of a step.
LosesNothing ==
  (\A v \in Vulns : rows[v].phase = "live" => rows'[v].phase = "live") =>
    /\ \A v \in Live : \A k \in links[v] :
          (\E u \in Live : k \in links'[u]) \/ DuplicateGone(k)
    /\ \A x \in Comments \cup Notifications :
          filed[x].under # None => filed'[x].under \in Live
    /\ \A w \in Workers : req[w].kind = "moving" /\ req'[w] = Idle =>
          \A x \in req[w].hung : filed[x].under = req[w].from =>
                                    filed'[x].under = req[w].into

\* What a step keeps of the tables.
TablesKept == FiledLive' /\ UnusedBlank' /\ RedirectIntact' /\ NoMappings' /\ LosesNothing

-----------------------------------------------------------------------------
\* The flush of a row: every column is the current one or the edited one.
LEMMA OverlayRow ==
  ASSUME NEW r \in Row, NEW l \in Row, NEW e \in Row
  PROVE  /\ Overlay(r, l, e) \in Row
         /\ Overlay(r, l, e).phase = IF e.phase # l.phase THEN e.phase ELSE r.phase
         /\ Overlay(r, l, e).isMerged = IF e.isMerged # l.isMerged THEN e.isMerged ELSE r.isMerged
         /\ Overlay(r, l, e).mergedInto
              = IF e.mergedInto # l.mergedInto THEN e.mergedInto ELSE r.mergedInto
BY DEF Overlay, Row

\* A row that nobody else has written becomes what was edited.
LEMMA OverlayAlone ==
  ASSUME NEW l \in Row, NEW e \in Row
  PROVE  Overlay(l, l, e) = e
BY DEF Overlay, Row

\* Columns other than the redirect are written over a row that keeps its redirect.
LEMMA OverlayKeeps ==
  ASSUME NEW r \in Row, NEW l \in Row, NEW e \in Row,
         e.phase = l.phase, e.isMerged = l.isMerged, e.mergedInto = l.mergedInto
  PROVE  /\ Overlay(r, l, e) \in Row /\ Overlay(r, l, e).phase = r.phase
         /\ Overlay(r, l, e).isMerged = r.isMerged /\ Overlay(r, l, e).mergedInto = r.mergedInto
BY OverlayRow

\* A steady step keeps the tables.
LEMMA SteadyKeeps ==
  ASSUME RInv, Steady
  PROVE  TablesKept
<1>1. /\ \A v \in Live : v \in Vulns /\ rows'[v].phase = "live" /\ v \in Live'
      /\ \A v \in Vulns : rows[v].phase = "deleted" => rows'[v].phase = "deleted"
  BY DEF Steady, Live
<1>2. FiledLive'
  <2> SUFFICES ASSUME NEW x \in Filed, filed'[x].under # None PROVE filed'[x].under \in Live'
    BY DEF FiledLive
  <2>1. filed'[x].under \in Live BY DEF Steady, RInv, FiledLive
  <2> QED BY <1>1, <2>1
<1>3. UnusedBlank' BY DEF Steady, RInv, UnusedBlank
<1>4. RedirectIntact'
  <2> SUFFICES ASSUME NEW v \in Live'
               PROVE  /\ rows'[v].mergedInto # None =>
                           rows'[v].isMerged /\ rows'[v].mergedInto \in Live'
                      /\ rows'[v].isMerged /\ rows'[v].mergedInto = None =>
                           \E u \in Vulns : rows'[u].phase = "deleted"
    BY DEF RedirectIntact
  <2>1. v \in Vulns /\ rows'[v].phase = "live" BY DEF Live
  <2>2. CASE /\ rows'[v].phase = rows[v].phase /\ rows'[v].isMerged = rows[v].isMerged
             /\ rows'[v].mergedInto = rows[v].mergedInto
    <3>1. v \in Live BY <2>1, <2>2 DEF Live
    <3>2. /\ rows[v].mergedInto # None => rows[v].isMerged /\ rows[v].mergedInto \in Live
          /\ rows[v].isMerged /\ rows[v].mergedInto = None =>
               \E u \in Vulns : rows[u].phase = "deleted"
      BY <3>1 DEF RInv, RedirectIntact
    <3> QED BY <1>1, <2>2, <3>2
  <2>3. CASE ~rows'[v].isMerged /\ rows'[v].mergedInto = None BY <2>3
  <2> QED BY <2>1, <2>2, <2>3 DEF Steady
<1>5. LosesNothing
  <2>1. \A v \in Live : \A k \in links[v] : \E u \in Live : k \in links'[u]
    BY DEF Steady
  <2>2. ASSUME NEW x \in Comments \cup Notifications, filed[x].under # None
        PROVE  filed'[x].under \in Live
    BY <2>2 DEF Steady, RInv, FiledLive, Filed
  <2>3. \A w \in Workers : req[w].kind = "moving" => req'[w] # Idle BY DEF Steady
  <2> QED BY <2>1, <2>2, <2>3 DEF LosesNothing
<1>6. NoMappings' BY DEF Steady, RInv, NoMappings
<1> QED BY <1>2, <1>3, <1>4, <1>5, <1>6 DEF TablesKept

\* A request that has loaded a record and ends is not a merge that has relinked rows.
LEMMA EditsEnd ==
  ASSUME NEW w \in Workers, InFlight(w, "edit"), req \in [Workers -> {Idle} \cup Requests \cup Movings],
         Finish(w)
  PROVE  \A u \in Workers : req[u].kind = "moving" => req'[u] # Idle
BY DEF InFlight, Finish, Idle

\* Notifications are filed under the record that changed.
LEMMA NotifySteady ==
  ASSUME TypeOK, NEW v \in Live, Notify(v)
  PROVE  \A x \in Filed : filed'[x] = filed[x] \/ filed'[x].under \in Live
<1>1. PICK ns \in SUBSET FreeNotifications : filed' = Filing(ns, v, now) BY DEF Notify
<1> QED BY <1>1 DEF Filing

-----------------------------------------------------------------------------
\* Nothing is loaded at first.
LEMMA RInitInv == RInit => RInv
<1> SUFFICES ASSUME RInit PROVE RInv
  OBVIOUS
<1>1. Init /\ req = [w \in Workers |-> Idle] BY DEF RInit
<1>2. TypeOK BY <1>1, InitType
<1>3. Live = {} BY <1>1 DEF Init, Live, Blank
<1>4. RedirectIntact BY <1>3 DEF RedirectIntact
<1>5. FiledLive BY <1>1 DEF Init, FiledLive, NotFiled
<1>6. UnusedBlank /\ NoMappings BY <1>1 DEF Init, UnusedBlank, Blank, NoMappings
<1> QED BY <1>1, <1>2, <1>4, <1>5, <1>6 DEF RInv

\* A request that begins has loaded what is there.
LEMMA BeginInv ==
  ASSUME RInv, NEW w \in Workers, NEW kind \in {"merge", "edit"}, NEW on \in SUBSET Live, on # {},
         NEW into \in Vulns \cup {None}, Begin(w, kind, on, into),
         kind = "merge" => \E s \in Vulns : /\ into \in Vulns /\ on = {into, s}
                                            /\ MergeAllowed(into, s, rows[into], rows[s])
  PROVE  RInv'
<1> DEFINE seen == [v \in on |-> rows[v]]
           r == [kind |-> kind, on |-> on, into |-> into, seen |-> seen]
<1>1. req' = [req EXCEPT ![w] = r] /\ UNCHANGED vars BY DEF Begin
<1>2. on \in SUBSET Vulns /\ \A v \in on : rows[v].phase = "live" /\ rows[v] \in Row
  BY DEF Live, RInv, TypeOK
<1>3. seen \in [on -> Row] /\ \A v \in on : seen[v] = rows[v] BY <1>2
<1> HIDE DEF seen
<1>4. r \in Requests BY <1>2, <1>3 DEF Requests, Seen
<1>5. Loaded(r)
  <2>1. \A v \in on : rows[v].mergedInto # None => rows[v].isMerged
    BY DEF RInv, RedirectIntact
  <2>2. kind = "merge" => \E s \in Vulns : /\ into \in Vulns /\ on = {into, s}
                                           /\ MergeAllowed(into, s, seen[into], seen[s])
    BY <1>3
  <2> QED BY <1>2, <1>3, <2>1, <2>2 DEF Loaded
<1> HIDE DEF r
<1>6. req' \in [Workers -> {Idle} \cup Requests \cup Movings] BY <1>1, <1>4 DEF RInv
<1>7. \A u \in Workers : req'[u] # Idle => Loaded(req'[u]) BY <1>1, <1>5 DEF RInv
<1>8. TypeOK' /\ FiledLive' /\ UnusedBlank' /\ RedirectIntact' /\ NoMappings'
  BY <1>1 DEF vars, RInv, TypeOK, FiledLive, UnusedBlank, RedirectIntact, NoMappings, Live
<1> QED BY <1>6, <1>7, <1>8 DEF RInv

\* A request that has begun.
LEMMA Underway ==
  ASSUME RInv, NEW w \in Workers, NEW kind \in Kinds, InFlight(w, kind)
  PROVE  /\ req[w] # Idle /\ Loaded(req[w])
         /\ req[w] \in (IF kind = "moving" THEN Movings ELSE Requests)
         /\ req[w].on \subseteq Vulns /\ req[w].on # {}
         /\ \A v \in req[w].on : req[w].seen[v] \in Row
<1>1. req[w] # Idle BY DEF InFlight, Idle, Kinds
<1>2. Loaded(req[w]) /\ req[w] \in Requests \cup Movings BY <1>1 DEF RInv
<1>3. req[w] \in (IF kind = "moving" THEN Movings ELSE Requests)
  BY <1>2 DEF InFlight, Requests, Movings, Kinds
<1>4. req[w].on \subseteq Vulns /\ req[w].on # {} BY <1>2 DEF Requests, Movings
<1> QED BY <1>1, <1>2, <1>3, <1>4 DEF Loaded

\* A request that is over leaves the others as they are.
LEMMA Finished ==
  ASSUME RInv, NEW w \in Workers, Finish(w), TypeOK', TablesKept
  PROVE  RInv' /\ req'[w] = Idle
BY DEF Finish, RInv, TablesKept

-----------------------------------------------------------------------------
(* Handlers in one step *)

\* What is created, fed or posted is new.
LEMMA OneStepKeeps ==
  ASSUME RInv, OneStep
  PROVE  RInv' /\ LosesNothing /\ Next
<1>0. \A w \in Workers : req[w].kind = "moving" => req'[w] # Idle BY DEF OneStep, Idle
<1>1. Steady /\ Next
  <2>1. ASSUME NEW v \in Vulns, NEW st \in StatusInputs, NEW se \in SeverityInputs,
               Create(v, st, se, {}, {})
        PROVE  Steady /\ Next
    <3> DEFINE r == [Blank EXCEPT !.phase = "live"]
               e == Edited(r, st, se, {}, policy, now + 1)
    <3>1. r \in Row /\ r.phase = "live" /\ ~r.isMerged /\ r.mergedInto = None
      BY PhasedRow DEF Blank
    <3>2. now + 1 \in Nat \ {0} /\ policy \in Policy /\ st \in Statuses /\ se \in Severities
      BY ConstantsAssumption DEF RInv, TypeOK
    <3> HIDE DEF r
    <3>3. e \in Row /\ SameRedirect(r, e) BY <3>1, <3>2, EditedRow
    <3> HIDE DEF e
    <3>4. rows[v].phase = "unused" /\ rows' = [rows EXCEPT ![v] = e] BY <2>1 DEF Create, e, r
    <3>5. \A u \in Vulns : \/ u = v /\ rows'[u] = e
                           \/ rows'[u] = rows[u]
      BY <3>4 DEF RInv, TypeOK
    <3>6. \A u \in Live : links[u] \subseteq links'[u] /\ filed' = filed
      BY <2>1, <3>4 DEF Create, Live, RInv, TypeOK
    <3>7. filed' = filed BY <2>1 DEF Create
    <3>10. UNCHANGED <<products, affected>>
      BY <2>1 DEF Create, RInv, NoMappings
    <3>8. Steady BY <1>0, <3>1, <3>3, <3>4, <3>5, <3>6, <3>7, <3>10 DEF Steady, SameRedirect
    <3>9. Next BY <2>1 DEF Next
    <3> QED BY <3>8, <3>9
  <2>2. ASSUME NEW v \in Vulns, NEW se \in SeverityInputs, NEW refs \in BOOLEAN,
               NEW ks \in SUBSET FeedLinks, rows[v].phase = "unused", Ingest(v, se, refs, ks)
        PROVE  Steady /\ Next
    <3>1. rows \in [Vulns -> Row] /\ rows[v] \in Row /\ se \in Severities
      BY ConstantsAssumption DEF RInv, TypeOK
    <3>2. rows' = [rows EXCEPT ![v] = [rows[v] EXCEPT !.phase = "live", !.severity = se]]
      BY <2>2, <3>1 DEF Ingest
    <3>3. /\ rows'[v].phase = "live" /\ rows'[v].isMerged = rows[v].isMerged
          /\ rows'[v].mergedInto = rows[v].mergedInto
          /\ \A u \in Vulns \ {v} : rows'[u] = rows[u]
      BY <3>1, <3>2 DEF Row
    <3>4. ~rows[v].isMerged /\ rows[v].mergedInto = None BY <2>2 DEF RInv, UnusedBlank
    <3>5. filed' = filed /\ \A u \in Live : links[u] \subseteq links'[u]
      BY <2>2 DEF Ingest, Live, RInv, TypeOK
    <3>6. Steady BY <1>0, <2>2, <3>3, <3>4, <3>5 DEF Steady, Ingest
    <3>7. Next BY <2>2, <3>1 DEF Next
    <3> QED BY <3>6, <3>7
  <2>3. ASSUME NEW v \in Vulns, NEW c \in Comments, PostComment(c, v)
        PROVE  Steady /\ Next
    <3>1. PICK ns \in SUBSET FreeNotifications : filed' = Filing({c} \cup ns, v, now + 1)
      BY <2>3 DEF PostComment
    <3>2. v \in Live /\ UNCHANGED <<rows, links, products, affected>> BY <2>3 DEF PostComment
    <3>3. \A x \in Filed : filed'[x] = filed[x] \/ filed'[x].under \in Live
      BY <3>1, <3>2 DEF Filing
    <3>4. Steady BY <1>0, <3>2, <3>3 DEF Steady
    <3>5. Next BY <2>3 DEF Next
    <3> QED BY <3>4, <3>5
  <2> QED BY <2>1, <2>2, <2>3 DEF OneStep
<1>2. TypeOK' BY <1>1, StepType DEF RInv
<1>3. TablesKept BY <1>1, SteadyKeeps
<1>4. req' = req BY DEF OneStep
<1> QED BY <1>1, <1>2, <1>3, <1>4 DEF RInv, TablesKept

-----------------------------------------------------------------------------
(* Commits *)

\* An edit of one record: the columns it changes are written, links added and
\* notifications filed.
LEMMA OneRowWritten ==
  ASSUME RInv, NEW w \in Workers, NEW v \in Live, NEW l \in Row, NEW e \in Row,
         rows' = [rows EXCEPT ![v] = Overlay(rows[v], l, e)],
         e.phase = l.phase, e.isMerged = l.isMerged, e.mergedInto = l.mergedInto,
         links' \in [Vulns -> SUBSET LinkKeys], \A u \in Vulns : links[u] \subseteq links'[u],
         Notify(v), now' \in Nat, InFlight(w, "edit"), Finish(w),
         UNCHANGED <<products, affected, policy>>
  PROVE  RInv' /\ LosesNothing
<1>1. v \in Vulns /\ rows \in [Vulns -> Row] /\ rows[v] \in Row BY DEF Live, RInv, TypeOK
<1> DEFINE o == Overlay(rows[v], l, e)
<1>2. /\ o \in Row /\ o.phase = rows[v].phase /\ o.isMerged = rows[v].isMerged
      /\ o.mergedInto = rows[v].mergedInto
  BY <1>1, OverlayKeeps
<1> HIDE DEF o
<1>3. rows' = [rows EXCEPT ![v] = o] BY DEF o
<1>4. rows' \in [Vulns -> Row] BY <1>1, <1>2, <1>3
<1>5. filed' \in [Filed -> [under : Vulns \cup {None}, since : Nat]]
  BY <1>1, NotifyType DEF RInv
<1>6. TypeOK' BY <1>4, <1>5 DEF RInv, TypeOK
<1>7. \A u \in Vulns : /\ rows'[u].phase = rows[u].phase /\ rows'[u].isMerged = rows[u].isMerged
                       /\ rows'[u].mergedInto = rows[u].mergedInto
  BY <1>1, <1>2, <1>3
<1>8. \A x \in Filed : filed'[x] = filed[x] \/ filed'[x].under \in Live
  BY NotifySteady DEF RInv
<1>9. Steady
  <2>1. \A u \in Workers : req[u].kind = "moving" => req'[u] # Idle BY EditsEnd DEF RInv
  <2> QED BY <1>7, <1>8, <2>1 DEF Steady, Live
<1>10. TablesKept BY <1>9, SteadyKeeps
<1> QED BY <1>6, <1>10, Finished DEF TablesKept

\* PUT: alone, the update of the row as it is.
LEMMA UpdateKeeps ==
  ASSUME RInv, NEW w \in Workers, NEW v \in Vulns, NEW status \in StatusInputs \cup {Absent},
         NEW severity \in SeverityInputs \cup {Absent}, CommitUpdate(w, v, status, severity)
  PROVE  RInv' /\ LosesNothing /\ (Undisturbed(w) => Next)
<1> DEFINE l == req[w].seen[v]
           st == IF status = Absent THEN l.status ELSE status
           se == IF severity = Absent THEN l.severity ELSE severity
           e == Edited(l, st, se, products[v], policy, now + 1)
<1>1. InFlight(w, "edit") /\ req[w].on = {v} /\ v \in Live BY DEF CommitUpdate
<1>2. l \in Row BY <1>1, Underway DEF Kinds
<1>3. /\ st \in Statuses /\ st \in StatusInputs \cup {l.status}
      /\ se \in Severities /\ se \in SeverityInputs \cup {l.severity}
  BY <1>2, ConstantsAssumption DEF Row
<1>4. now \in Nat /\ now + 1 \in Nat \ {0} /\ policy \in Policy BY DEF RInv, TypeOK
<1>5. rows' = [rows EXCEPT ![v] = Overlay(rows[v], l, e)] BY DEF CommitUpdate
<1> HIDE DEF l, st, se
<1>6. e \in Row /\ SameRedirect(l, e) BY <1>2, <1>3, <1>4, EditedRow
<1> HIDE DEF e
<1>7. now' \in Nat BY <1>4 DEF CommitUpdate, Tick
<1>8. RInv' /\ LosesNothing
  <2>1. links' = links /\ links \in [Vulns -> SUBSET LinkKeys]
    BY DEF CommitUpdate, RInv, TypeOK
  <2> QED BY <1>1, <1>2, <1>5, <1>6, <1>7, <2>1, OneRowWritten DEF CommitUpdate, SameRedirect
<1>9. ASSUME Undisturbed(w) PROVE Next
  <2>1. l = rows[v] BY <1>1, <1>9 DEF Undisturbed, l
  <2>2. rows' = [rows EXCEPT ![v] = e] BY <1>2, <1>5, <1>6, <2>1, OverlayAlone
  <2>3. rows' = [rows EXCEPT ![v] = Edited(rows[v], st, se, products[v], policy, now + 1)]
    BY <2>1, <2>2 DEF e
  <2> DEFINE ks == links[v] \cap Vectors
  <2>4. links' = [links EXCEPT ![v] = (links[v] \ Vectors) \cup ks]
    <3>1. (links[v] \ Vectors) \cup ks = links[v] OBVIOUS
    <3>2. links' = links BY DEF CommitUpdate
    <3> QED BY <3>1, <3>2 DEF RInv, TypeOK
  <2>5. Update(v, st, se, ks) BY <1>1, <2>3, <2>4 DEF CommitUpdate, Update
  <2>6. ks \in SUBSET Vectors OBVIOUS
  <2> HIDE DEF ks
  <2> QED BY <1>3, <2>1, <2>5, <2>6 DEF Next
<1> QED BY <1>8, <1>9

\* Enrichment: alone, the enrichment of the row as it is.
LEMMA EnrichKeeps ==
  ASSUME RInv, NEW w \in Workers, NEW v \in Vulns, NEW severity \in SeverityInputs,
         NEW force \in BOOLEAN, NEW refs \in BOOLEAN, NEW rescored \in BOOLEAN,
         CommitEnrich(w, v, severity, force, refs, rescored)
  PROVE  RInv' /\ LosesNothing /\ (Undisturbed(w) => Next)
<1> DEFINE l == req[w].seen[v]
           new == IF force THEN severity ELSE l.severity
           due == IF new # l.severity \/ rescored
                  THEN SlaDays(new, products[v], policy) ELSE l.dueDays
           mark == l.marker /\ ~(force /\ refs)
           e == [l EXCEPT !.severity = new, !.dueDays = due, !.marker = mark]
<1>1. InFlight(w, "edit") /\ req[w].on = {v} /\ v \in Live BY DEF CommitEnrich
<1>2. l \in Row BY <1>1, Underway DEF Kinds
<1>3. new \in Severities BY <1>2, ConstantsAssumption DEF Row
<1>4. now \in Nat /\ policy \in Policy /\ rows \in [Vulns -> Row] BY DEF RInv, TypeOK
<1>5. due \in Nat BY <1>2, <1>3, <1>4, SlaDaysStrictest DEF Row
<1>6. mark \in BOOLEAN OBVIOUS
<1>7. rows' = [rows EXCEPT ![v] = Overlay(rows[v], l, e)] BY DEF CommitEnrich
<1> HIDE DEF l, new, due, mark
<1>8. e \in Row BY <1>2, <1>3, <1>5, <1>6, EnrichedRow
<1>9. e.phase = l.phase /\ e.isMerged = l.isMerged /\ e.mergedInto = l.mergedInto
  BY <1>2 DEF Row
<1> HIDE DEF e
<1>10. now' \in Nat BY <1>4 DEF CommitEnrich
<1>11. RInv' /\ LosesNothing
  <2>1. links' = links /\ links \in [Vulns -> SUBSET LinkKeys]
    BY DEF CommitEnrich, RInv, TypeOK
  <2> QED BY <1>1, <1>2, <1>7, <1>8, <1>9, <1>10, <2>1, OneRowWritten DEF CommitEnrich
<1>12. ASSUME Undisturbed(w) PROVE Next
  <2>1. l = rows[v] BY <1>1, <1>12 DEF Undisturbed, l
  <2>2. rows' = [rows EXCEPT ![v] = [rows[v] EXCEPT !.severity = new, !.dueDays = due,
                                                    !.marker = mark]]
    BY <1>2, <1>7, <1>8, <2>1, OverlayAlone DEF e
  <2>3. rows' = [rows EXCEPT ![v].severity = new, ![v].dueDays = due, ![v].marker = mark]
    BY <1>4, <2>2
  <2>4. /\ new = IF force THEN severity ELSE rows[v].severity
        /\ due = IF new # rows[v].severity \/ rescored
                 THEN SlaDays(new, products[v], policy) ELSE rows[v].dueDays
        /\ mark = (rows[v].marker /\ ~(force /\ refs))
    BY <2>1 DEF new, due, mark
  <2>5. Enrich(v, severity, force, refs, rescored)
    BY <1>1, <1>4, <2>3, <2>4 DEF CommitEnrich, Enrich
  <2> QED BY <2>5 DEF Next
<1> QED BY <1>11, <1>12

\* A feed item: alone, the item on the row as it is.
LEMMA FeedKeeps ==
  ASSUME RInv, NEW w \in Workers, NEW v \in Vulns, NEW severity \in Severities,
         NEW refs \in BOOLEAN, NEW keys \in SUBSET FeedLinks,
         CommitFeed(w, v, severity, refs, keys)
  PROVE  RInv' /\ LosesNothing /\ (Undisturbed(w) => Next)
<1> DEFINE l == req[w].seen[v]
           e == [l EXCEPT !.severity = severity]
<1>1. InFlight(w, "edit") /\ req[w].on = {v} /\ v \in Live BY DEF CommitFeed
<1>2. l \in Row BY <1>1, Underway DEF Kinds
<1>3. /\ rows' = [rows EXCEPT ![v] = Overlay(rows[v], l, e)]
      /\ CanApply(l, refs) /\ severity \in SeverityInputs \cup {l.severity}
  BY DEF CommitFeed
<1> HIDE DEF l
<1>4. /\ e \in Row /\ e.phase = l.phase /\ e.isMerged = l.isMerged
      /\ e.mergedInto = l.mergedInto
  BY <1>2 DEF Row
<1> HIDE DEF e
<1>5. /\ links' \in [Vulns -> SUBSET LinkKeys]
      /\ \A u \in Vulns : links[u] \subseteq links'[u]
  BY DEF CommitFeed, RInv, TypeOK, LinkKeys
<1>6. Notify(v)
  <2>1. filed \in [Filed -> [under : Vulns \cup {None}, since : Nat]] /\ filed' = filed
    BY DEF CommitFeed, RInv, TypeOK
  <2>2. filed' = Filing({}, v, now) BY <2>1 DEF Filing
  <2> QED BY <2>2 DEF Notify
<1>7. now' \in Nat BY DEF CommitFeed, RInv, TypeOK
<1>8. RInv' /\ LosesNothing
  BY <1>1, <1>2, <1>3, <1>4, <1>5, <1>6, <1>7, OneRowWritten DEF CommitFeed
<1>9. ASSUME Undisturbed(w) PROVE Next
  <2>1. l = rows[v] /\ rows \in [Vulns -> Row]
    BY <1>1, <1>9 DEF Undisturbed, l, RInv, TypeOK
  <2>2. rows' = [rows EXCEPT ![v] = [rows[v] EXCEPT !.severity = severity]]
    BY <1>2, <1>3, <1>4, <2>1, OverlayAlone DEF e
  <2>3. rows[v] \in Row /\ rows[v].phase = "live" BY <1>1, <2>1 DEF Live
  <2>4. [rows[v] EXCEPT !.severity = severity]
          = [rows[v] EXCEPT !.phase = "live", !.severity = severity]
    BY <2>3 DEF Row
  <2>5. rows' = [rows EXCEPT ![v].phase = "live", ![v].severity = severity]
    BY <2>1, <2>2, <2>4
  <2>6. Ingest(v, severity, refs, keys) BY <1>3, <2>1, <2>3, <2>5 DEF CommitFeed, Ingest
  <2> QED BY <1>3, <2>1, <2>6 DEF Next
<1> QED BY <1>8, <1>9

\* The batch: alone, the batch on the rows as they are.
LEMMA BatchKeeps ==
  ASSUME RInv, NEW w \in Workers, NEW patch \in Patches, CommitBatch(w, patch)
  PROVE  RInv' /\ LosesNothing /\ (Undisturbed(w) => Next)
<1> DEFINE on == req[w].on
           seen == req[w].seen
           targets == {v \in on : ~seen[v].isMerged}
           e(v) == BatchEdited(seen[v], patch, products[v], policy, now + 1)
<1>1. InFlight(w, "edit") /\ targets \subseteq Live BY DEF CommitBatch
<1>2. /\ on \subseteq Vulns /\ on # {} /\ \A v \in on : seen[v] \in Row
      /\ \A v \in on : seen[v].phase = "live"
  BY <1>1, Underway DEF Kinds, Loaded
<1>3. rows' = [v \in Vulns |-> IF v \notin targets THEN rows[v]
                                ELSE Overlay(rows[v], seen[v], e(v))]
  BY DEF CommitBatch
<1>4. now + 1 \in Nat \ {0} /\ policy \in Policy /\ rows \in [Vulns -> Row] BY DEF RInv, TypeOK
<1>5. ASSUME NEW v \in on PROVE e(v) \in Row /\ SameRedirect(seen[v], e(v))
  BY <1>2, <1>4, BatchEditedRow
<1> HIDE DEF e
<1>6. ASSUME NEW v \in Vulns
      PROVE  /\ rows'[v] \in Row
             /\ rows'[v].phase = rows[v].phase /\ rows'[v].isMerged = rows[v].isMerged
             /\ rows'[v].mergedInto = rows[v].mergedInto
  <2>1. rows[v] \in Row BY <1>4
  <2>2. CASE v \in targets
    <3>1. rows'[v] = Overlay(rows[v], seen[v], e(v)) BY <1>3, <2>2
    <3>2. seen[v] \in Row /\ e(v) \in Row /\ SameRedirect(seen[v], e(v))
      BY <1>2, <1>5, <2>2
    <3> QED BY <2>1, <3>1, <3>2, OverlayKeeps DEF SameRedirect
  <2>3. CASE v \notin targets BY <1>3, <2>1, <2>3
  <2> QED BY <2>2, <2>3
<1>7. rows' \in [Vulns -> Row] BY <1>3, <1>6
<1>8. TypeOK' BY <1>4, <1>7 DEF CommitBatch, Tick, RInv, TypeOK
<1>9. Steady
  <2>1. \A u \in Workers : req[u].kind = "moving" => req'[u] # Idle
    BY EditsEnd DEF RInv, CommitBatch
  <2> QED BY <1>6, <2>1 DEF Steady, CommitBatch
<1>10. RInv' /\ LosesNothing
  BY <1>8, <1>9, SteadyKeeps, Finished DEF CommitBatch, TablesKept
<1>11. ASSUME Undisturbed(w) PROVE Next
  <2>1. \A v \in on : seen[v] = rows[v] BY <1>11 DEF Undisturbed
  <2>2. on \subseteq Live BY <1>2, <2>1 DEF Live
  <2>3. ASSUME NEW v \in Vulns
        PROVE  rows'[v] = IF v \in on /\ ~rows[v].isMerged
                          THEN BatchEdited(rows[v], patch, products[v], policy, now + 1)
                          ELSE rows[v]
    <3>1. CASE v \in targets
      <4>1. rows'[v] = Overlay(rows[v], rows[v], e(v)) BY <1>3, <2>1, <3>1
      <4>2. Overlay(rows[v], rows[v], e(v)) = e(v) BY <1>4, <1>5, <3>1, OverlayAlone
      <4> QED BY <2>1, <3>1, <4>1, <4>2 DEF e
    <3>2. CASE v \notin targets BY <1>3, <2>1, <3>2
    <3> QED BY <3>1, <3>2
  <2>4. rows' = [v \in Vulns |->
                   IF v \in on /\ ~rows[v].isMerged
                   THEN BatchEdited(rows[v], patch, products[v], policy, now + 1)
                   ELSE rows[v]]
    BY <1>3, <2>3
  <2>5. BatchUpdate(on, patch) BY <1>2, <2>2, <2>4 DEF CommitBatch, BatchUpdate
  <2> HIDE DEF on
  <2> QED BY <1>2, <2>5 DEF Next
<1> QED BY <1>10, <1>11

\* A delete loses what it deletes, and the redirects that led there.
LEMMA DeleteKeeps ==
  ASSUME RInv, NEW w \in Workers, NEW v \in Vulns, CommitDelete(w, v)
  PROVE  RInv' /\ LosesNothing /\ Next
<1>1. Delete(v) /\ v \in Live BY DEF CommitDelete, Delete
<1>2. Next BY <1>1 DEF Next
<1>3. TypeOK' BY <1>2, StepType DEF RInv
<1>4. rows \in [Vulns -> Row] /\ \A u \in Vulns : rows[u] \in Row BY DEF RInv, TypeOK
<1>5. /\ rows'[v].phase = "deleted" /\ ~rows'[v].isMerged /\ rows'[v].mergedInto = None
      /\ \A u \in Vulns \ {v} :
           /\ rows'[u].phase = rows[u].phase /\ rows'[u].isMerged = rows[u].isMerged
           /\ rows'[u].mergedInto = (IF rows[u].mergedInto = v THEN None ELSE rows[u].mergedInto)
  BY <1>1, <1>4 DEF Delete, Blank, Row
<1>6. /\ Live' = Live \ {v}
      /\ \A u \in Live \ {v} : u \in Vulns
  BY <1>5 DEF Live
<1>7. FiledLive'
  <2> SUFFICES ASSUME NEW x \in Filed, filed'[x].under # None PROVE filed'[x].under \in Live'
    BY DEF FiledLive
  <2>1. filed'[x] = filed[x] /\ filed[x].under # v BY <1>1 DEF Delete, NotFiled
  <2> QED BY <1>6, <2>1 DEF RInv, FiledLive
<1>8. UnusedBlank' BY <1>5 DEF RInv, UnusedBlank
<1>9. RedirectIntact'
  <2> SUFFICES ASSUME NEW u \in Live'
               PROVE  /\ rows'[u].mergedInto # None =>
                           rows'[u].isMerged /\ rows'[u].mergedInto \in Live'
                      /\ rows'[u].isMerged /\ rows'[u].mergedInto = None =>
                           \E x \in Vulns : rows'[x].phase = "deleted"
    BY DEF RedirectIntact
  <2>1. u \in Live /\ u # v /\ u \in Vulns BY <1>6
  <2>2. rows[u].mergedInto # None => rows[u].isMerged /\ rows[u].mergedInto \in Live
    BY <2>1 DEF RInv, RedirectIntact
  <2> QED BY <1>5, <1>6, <2>1, <2>2
<1>10. LosesNothing BY <1>1, <1>5 DEF LosesNothing, Live
<1>11. Finish(w) BY DEF CommitDelete
<1>12. NoMappings' BY <1>1 DEF Delete, RInv, NoMappings
<1> QED BY <1>2, <1>3, <1>7, <1>8, <1>9, <1>10, <1>11, <1>12, Finished DEF TablesKept

\* Relinking reads the rows, and accepts what the request accepted when it loaded them.
LEMMA RelinkInv ==
  ASSUME RInv, NEW w \in Workers, Relink(w)
  PROVE  RInv'
<1> DEFINE r == req[w]
           t == r.into
           s == CHOOSE v \in r.on : v # t
           m == [kind |-> "moving", on |-> r.on, into |-> t, from |-> s, seen |-> r.seen,
                 took |-> links[s], had |-> links[t], moves |-> Relinked(s), hung |-> Under(s)]
<1>1. InFlight(w, "merge") /\ req' = [req EXCEPT ![w] = m] /\ UNCHANGED vars BY DEF Relink
<1>2. Loaded(r) /\ r \in Requests /\ r.kind = "merge" BY <1>1, Underway DEF Kinds, InFlight
<1>3. PICK x \in Vulns : t \in Vulns /\ r.on = {t, x} /\ MergeAllowed(t, x, r.seen[t], r.seen[x])
  BY <1>2 DEF Loaded
<1>4. t # x BY <1>3 DEF MergeAllowed
<1>5. s = x BY <1>3, <1>4
<1> HIDE DEF s
<1>6. /\ links[s] \in SUBSET LinkKeys /\ links[t] \in SUBSET LinkKeys
      /\ Relinked(s) \in SUBSET Filed /\ Under(s) \in SUBSET (Comments \cup Notifications)
      /\ Under(s) \subseteq Relinked(s) /\ Relinked(s) \cap Attachments = {}
  BY <1>3, <1>5, ConstantsAssumption DEF RInv, TypeOK, Relinked, Under, Filed
<1>7. m \in Movings
  <2>1. r.on \in (SUBSET Vulns) \ {{}} /\ r.seen \in Seen BY <1>2 DEF Requests
  <2> HIDE DEF r
  <2> QED BY <1>3, <1>5, <1>6, <2>1 DEF Movings
<1>8. Loaded(m)
  <2>1. /\ r.seen \in [r.on -> Row]
        /\ \A v \in r.on : /\ r.seen[v].phase = "live"
                           /\ r.seen[v].mergedInto # None => r.seen[v].isMerged
    BY <1>2 DEF Loaded
  <2> QED BY <1>3, <1>5, <1>6, <2>1 DEF Loaded
<1> HIDE DEF m
<1>9. req' \in [Workers -> {Idle} \cup Requests \cup Movings] BY <1>1, <1>7 DEF RInv
<1>10. \A u \in Workers : req'[u] # Idle => Loaded(req'[u]) BY <1>1, <1>8 DEF RInv
<1>11. TypeOK' /\ FiledLive' /\ UnusedBlank' /\ RedirectIntact' /\ NoMappings'
  BY <1>1 DEF vars, RInv, TypeOK, FiledLive, UnusedBlank, RedirectIntact, NoMappings, Live
<1> QED BY <1>9, <1>10, <1>11 DEF RInv

\* A merge moves what it has read of the one record to the other, whatever the two have
\* become and wherever the rows are by now.
LEMMA MergeKeeps ==
  ASSUME RInv, NEW w \in Workers, CommitMerge(w)
  PROVE  RInv' /\ LosesNothing /\ (Undisturbed(w) => Next)
<1> DEFINE t == req[w].into
           s == req[w].from
           seen == req[w].seen
           moved == req[w].took \ req[w].had
           away == MergedAway(seen[s], t, now + 1)
           absorbing == Absorbing(seen[t])
           os == Overlay(rows[s], seen[s], away)
           ot == Overlay(rows[t], seen[t], absorbing)
<1>1. InFlight(w, "moving") /\ req[w].on \subseteq Live /\ MoveTaken(w) /\ Finish(w) /\ Tick
  BY DEF CommitMerge
<1>2. /\ Loaded(req[w]) /\ req[w].kind = "moving" /\ req[w] \in Movings
      /\ \A v \in req[w].on : seen[v] \in Row
  BY <1>1, Underway DEF Kinds, InFlight
<1>3. /\ t \in Vulns /\ s \in Vulns /\ req[w].on = {t, s}
      /\ MergeAllowed(t, s, seen[t], seen[s])
      /\ req[w].hung \subseteq req[w].moves /\ req[w].moves \cap Attachments = {}
      /\ req[w].took \in SUBSET LinkKeys /\ req[w].had \in SUBSET LinkKeys
  BY <1>2 DEF Loaded, Movings
<1>4. t # s /\ ~seen[s].isMerged BY <1>3 DEF MergeAllowed
<1>5. /\ rows' = [rows EXCEPT ![s] = os, ![t] = ot]
      /\ UNCHANGED <<products, affected, policy>>
  BY DEF CommitMerge
<1>6. PICK at \in [req[w].took -> Live] :
        /\ \A k \in req[w].took : /\ ~rows[s].isMerged => at[k] = s
                                  /\ k \notin moved => at[k] # t
        /\ \A k \in moved : /\ k \in links[at[k]]
                            /\ k \in links[t] => at[k] = t
        /\ links' = [v \in Vulns |-> IF v = t THEN links[t] \cup moved
                                     ELSE links[v] \ {k \in req[w].took : at[k] = v}]
        /\ filed' = [x \in Filed |->
              IF x \in req[w].moves /\ filed[x].under = s
              THEN [filed[x] EXCEPT !.under = t] ELSE filed[x]]
  BY <1>1 DEF MoveTaken
<1>7. /\ rows \in [Vulns -> Row] /\ rows[s] \in Row /\ rows[t] \in Row
      /\ seen[s] \in Row /\ seen[t] \in Row /\ now + 1 \in Nat
  BY <1>2, <1>3 DEF RInv, TypeOK
<1>8. away \in Row /\ absorbing \in Row BY <1>3, <1>7, MergedAwayRow, AbsorbingRow
<1>9. seen[s].mergedInto = None BY <1>2, <1>3, <1>4 DEF Loaded
<1>10. /\ away.phase = seen[s].phase /\ away.isMerged /\ away.mergedInto = t
       /\ absorbing.phase = seen[t].phase /\ absorbing.isMerged = seen[t].isMerged
       /\ absorbing.mergedInto = seen[t].mergedInto
  BY <1>7 DEF MergedAway, Absorbing, Row
<1> HIDE DEF t, s, seen, away, absorbing, moved
<1>11. /\ os \in Row /\ os.phase = rows[s].phase /\ os.isMerged /\ os.mergedInto = t
       /\ ot \in Row /\ ot.phase = rows[t].phase /\ ot.isMerged = rows[t].isMerged
       /\ ot.mergedInto = rows[t].mergedInto
  BY <1>3, <1>4, <1>7, <1>8, <1>9, <1>10, OverlayRow, ConstantsAssumption
<1>12. /\ rows' \in [Vulns -> Row] /\ rows'[s] = os /\ rows'[t] = ot
       /\ \A v \in Vulns \ {s, t} : rows'[v] = rows[v]
  <2> HIDE DEF os, ot
  <2> QED BY <1>3, <1>4, <1>5, <1>7, <1>11
<1>13. s \in Live /\ t \in Live BY <1>1, <1>3 DEF t
<1>14. Live' = Live /\ \A v \in Vulns : rows'[v].phase = rows[v].phase
  BY <1>11, <1>12 DEF Live
<1>15. /\ links' \in [Vulns -> SUBSET LinkKeys]
       /\ filed' \in [Filed -> [under : Vulns \cup {None}, since : Nat]]
  <2>1. links \in [Vulns -> SUBSET LinkKeys] /\ moved \in SUBSET LinkKeys
    BY <1>3 DEF RInv, TypeOK, moved
  <2>2. ASSUME NEW x \in Filed
        PROVE  /\ filed[x] \in [under : Vulns \cup {None}, since : Nat]
               /\ [filed[x] EXCEPT !.under = t] \in [under : Vulns \cup {None}, since : Nat]
    BY <1>3 DEF RInv, TypeOK
  <2>3. links' \in [Vulns -> SUBSET LinkKeys] BY <1>3, <1>6, <2>1
  <2>4. filed' \in [Filed -> [under : Vulns \cup {None}, since : Nat]] BY <1>6, <2>2
  <2> QED BY <2>3, <2>4
<1>16. TypeOK' BY <1>1, <1>5, <1>12, <1>15 DEF Tick, RInv, TypeOK
<1>17. \A v \in Live : \A k \in links[v] :
          \/ \E u \in Live : k \in links'[u]
          \/ k \in req[w].took \cap req[w].had /\ k \notin links[t]
  <2> SUFFICES ASSUME NEW v \in Live, NEW k \in links[v]
               PROVE  \/ k \in links'[v] \/ k \in links'[t]
                      \/ k \in req[w].took \cap req[w].had /\ k \notin links[t]
    BY <1>13
  <2>1. v \in Vulns BY DEF Live
  <2>2. links'[t] = links[t] \cup moved BY <1>3, <1>6
  <2>3. CASE v = t BY <2>2, <2>3
  <2>4. CASE v # t
    <3>1. links'[v] = links[v] \ {x \in req[w].took : at[x] = v} BY <1>6, <2>1, <2>4
    <3> QED BY <2>2, <3>1 DEF moved
  <2> QED BY <2>3, <2>4
<1>18. \A x \in Filed : \/ filed'[x].under = filed[x].under
                        \/ filed'[x].under = t
  BY <1>6 DEF RInv, TypeOK
<1>19. \A x \in Filed : filed[x].under # None => filed'[x].under \in Live
  BY <1>13, <1>18 DEF RInv, FiledLive
<1>20. FiledLive' BY <1>13, <1>14, <1>18 DEF RInv, FiledLive
<1>21. UnusedBlank'
  <2>1. rows[s].phase = "live" BY <1>13 DEF Live
  <2> QED BY <1>11, <1>12, <1>14, <2>1 DEF RInv, UnusedBlank
<1>22. RedirectIntact'
  <2> SUFFICES ASSUME NEW v \in Live
               PROVE  /\ rows'[v].mergedInto # None =>
                           rows'[v].isMerged /\ rows'[v].mergedInto \in Live
                      /\ rows'[v].isMerged /\ rows'[v].mergedInto = None =>
                           \E x \in Vulns : rows'[x].phase = "deleted"
    BY <1>14 DEF RedirectIntact
  <2>1. v \in Vulns BY DEF Live
  <2>2. CASE v = s
    <3>1. t # None BY <1>3, ConstantsAssumption
    <3> QED BY <1>11, <1>12, <1>13, <2>2, <3>1
  <2>3. CASE v # s
    <3>1. rows'[v].isMerged = rows[v].isMerged /\ rows'[v].mergedInto = rows[v].mergedInto
      BY <1>11, <1>12, <2>1, <2>3
    <3>2. /\ rows[v].mergedInto # None => rows[v].isMerged /\ rows[v].mergedInto \in Live
          /\ rows[v].isMerged /\ rows[v].mergedInto = None =>
               \E x \in Vulns : rows[x].phase = "deleted"
      BY DEF RInv, RedirectIntact
    <3> QED BY <1>14, <3>1, <3>2
  <2> QED BY <2>2, <2>3
<1>23. LosesNothing
  <2>1. req'[w] = Idle BY <1>1 DEF Finish, RInv
  <2>2. ASSUME NEW v \in Live, NEW k \in links[v]
        PROVE  (\E u \in Live : k \in links'[u]) \/ DuplicateGone(k)
    BY <1>2, <1>17, <2>1, <2>2 DEF DuplicateGone, t
  <2>3. \A u \in Workers : req[u].kind = "moving" /\ req'[u] = Idle => u = w
    BY <1>1 DEF Finish, RInv, Idle
  <2>4. ASSUME NEW x \in req[w].hung, filed[x].under = s
        PROVE  filed'[x].under = t
    <3>1. x \in req[w].moves /\ x \in Filed BY <1>2, <1>3 DEF Movings
    <3> QED BY <1>6, <2>4, <3>1 DEF RInv, TypeOK
  <2>5. \A x \in Comments \cup Notifications : filed[x].under # None => filed'[x].under \in Live
    BY <1>19 DEF Filed
  <2>6. \A x \in req[w].hung : filed[x].under = req[w].from => filed'[x].under = req[w].into
    BY <2>4 DEF t, s
  <2> QED BY <2>2, <2>3, <2>5, <2>6 DEF LosesNothing
<1>24. NoMappings' BY <1>5 DEF RInv, NoMappings
<1>25. RInv'
  BY <1>1, <1>16, <1>20, <1>21, <1>22, <1>23, <1>24, Finished DEF TablesKept
<1>26. ASSUME Undisturbed(w) PROVE Next
  <2>1. /\ rows[t] = seen[t] /\ rows[s] = seen[s]
        /\ links[s] = req[w].took /\ links[t] = req[w].had /\ Under(s) = req[w].hung
    BY <1>2, <1>3, <1>26 DEF Undisturbed, RowsUndisturbed, t, s, seen
  <2>2. MergeAllowed(t, s, rows[t], rows[s]) BY <1>3, <2>1 DEF t, s, seen
  <2>3. os = away /\ ot = absorbing BY <1>7, <1>8, <2>1, OverlayAlone
  <2>4. rows' = [rows EXCEPT ![s] = away, ![t] = absorbing] BY <1>5, <2>3
  <2>5. rows' = [rows EXCEPT ![s] = MergedAway(rows[s], t, now + 1), ![t] = Absorbing(rows[t])]
    BY <2>1, <2>4 DEF away, absorbing
  <2>6. links' = [links EXCEPT ![t] = links[t] \cup links[s], ![s] = {}]
    <3>1. \A k \in links[s] : at[k] = s BY <1>4, <1>6, <2>1
    <3>2. links \in [Vulns -> SUBSET LinkKeys] BY DEF RInv, TypeOK
    <3>3. links[t] \cup moved = links[t] \cup links[s] BY <2>1 DEF moved
    <3>4. \A v \in Vulns \ {s} : {k \in req[w].took : at[k] = v} = {} BY <2>1, <3>1
    <3>5. links[s] \ {k \in req[w].took : at[k] = s} = {} BY <2>1, <3>1
    <3>6. ASSUME NEW v \in Vulns
          PROVE  links'[v] = [links EXCEPT ![t] = links[t] \cup links[s], ![s] = {}][v]
      <4>1. CASE v = t BY <1>3, <1>4, <1>6, <3>2, <3>3, <4>1
      <4>2. CASE v = s BY <1>3, <1>4, <1>6, <3>2, <3>5, <4>2
      <4>3. CASE v # t /\ v # s BY <1>6, <3>2, <3>4, <4>3
      <4> QED BY <4>1, <4>2, <4>3
    <3> QED BY <1>15, <3>2, <3>6
  <2>7. filed' = [x \in Filed |-> IF x \notin Attachments /\ filed[x].under = s
                                  THEN [filed[x] EXCEPT !.under = t] ELSE filed[x]]
    <3>1. ASSUME NEW x \in Filed
          PROVE  x \in req[w].moves /\ filed[x].under = s
                   <=> x \notin Attachments /\ filed[x].under = s
      BY <1>3, <2>1, <3>1 DEF Under, Filed
    <3> QED BY <1>6, <3>1
  <2>8. products' = [products EXCEPT ![t] = products[t] \cup products[s], ![s] = {}]
    BY <1>3, <1>5 DEF RInv, NoMappings
  <2>9. affected' = [affected EXCEPT ![t] = affected[t] \cup affected[s], ![s] = {}]
    BY <1>3, <1>5 DEF RInv, NoMappings
  <2>10. MoveRows(t, s) BY <2>6, <2>7, <2>8, <2>9 DEF MoveRows
  <2>11. Merge(t, s) BY <1>1, <1>4, <1>5, <1>7, <2>2, <2>5, <2>10 DEF Merge
  <2> QED BY <1>3, <2>11 DEF Next
<1> QED BY <1>23, <1>25, <1>26

-----------------------------------------------------------------------------
\* Every step of a request keeps the invariant, loses nothing, and is a step of the
\* handlers alone, or of no table, if what it writes nobody has written meanwhile.
LEMMA RequestKeeps ==
  ASSUME RInv, NEW w \in Workers, RequestStep(w)
  PROVE  /\ RInv' /\ (LosesNothing \/ UNCHANGED vars)
         /\ \/ UNCHANGED vars
            \/ req[w] # Idle /\ req'[w] = Idle /\ (Undisturbed(w) => Next)
<1>1. ASSUME NEW t \in Vulns, NEW s \in Vulns, LoadMerge(w, t, s) PROVE RInv' /\ UNCHANGED vars
  <2>1. MergeAllowed(t, s, rows[t], rows[s]) /\ Begin(w, "merge", {t, s}, t)
    BY <1>1 DEF LoadMerge
  <2>2. {t, s} \in SUBSET Live BY <2>1 DEF MergeAllowed, Live
  <2>3. RInv' BY <2>1, <2>2, BeginInv
  <2> QED BY <2>1, <2>3 DEF Begin
<1>2. ASSUME NEW vs \in SUBSET Vulns, LoadEdited(w, vs) PROVE RInv' /\ UNCHANGED vars
  <2>1. vs # {} /\ vs \in SUBSET Live /\ Begin(w, "edit", vs, None) BY <1>2 DEF LoadEdited
  <2>2. RInv' BY <2>1, BeginInv
  <2> QED BY <2>1, <2>2 DEF Begin
<1>3. CASE Relink(w) BY <1>3, RelinkInv DEF Relink
<1>4. CASE Abort(w)
  <2>1. UNCHANGED vars /\ Finish(w) BY <1>4 DEF Abort
  <2>2. TypeOK' /\ FiledLive' /\ UnusedBlank' /\ RedirectIntact' /\ NoMappings'
    BY <2>1 DEF vars, RInv, TypeOK, FiledLive, UnusedBlank, RedirectIntact, NoMappings, Live
  <2> QED BY <2>1, <2>2 DEF Finish, RInv
<1>5. ASSUME NEW kind \in Kinds, InFlight(w, kind), Finish(w)
      PROVE  req[w] # Idle /\ req'[w] = Idle
  BY <1>5, Underway DEF Finish, RInv
<1>6. CASE CommitMerge(w) BY <1>5, <1>6, MergeKeeps DEF CommitMerge, Kinds
<1>7. ASSUME NEW v \in Vulns, NEW st \in StatusInputs \cup {Absent},
             NEW se \in SeverityInputs \cup {Absent}, CommitUpdate(w, v, st, se)
      PROVE  RInv' /\ LosesNothing /\ req[w] # Idle /\ req'[w] = Idle /\ (Undisturbed(w) => Next)
  BY <1>5, <1>7, UpdateKeeps DEF CommitUpdate, Kinds
<1>8. ASSUME NEW v \in Vulns, NEW se \in SeverityInputs, NEW force \in BOOLEAN,
             NEW refs \in BOOLEAN, NEW rescored \in BOOLEAN,
             CommitEnrich(w, v, se, force, refs, rescored)
      PROVE  RInv' /\ LosesNothing /\ req[w] # Idle /\ req'[w] = Idle /\ (Undisturbed(w) => Next)
  BY <1>5, <1>8, EnrichKeeps DEF CommitEnrich, Kinds
<1>9. ASSUME NEW v \in Vulns, CommitDelete(w, v)
      PROVE  RInv' /\ LosesNothing /\ req[w] # Idle /\ req'[w] = Idle /\ (Undisturbed(w) => Next)
  BY <1>5, <1>9, DeleteKeeps DEF CommitDelete, Kinds
<1>10. ASSUME NEW patch \in Patches, CommitBatch(w, patch)
       PROVE  RInv' /\ LosesNothing /\ req[w] # Idle /\ req'[w] = Idle /\ (Undisturbed(w) => Next)
  BY <1>5, <1>10, BatchKeeps DEF CommitBatch, Kinds
<1>11. ASSUME NEW v \in Vulns, NEW se \in Severities, NEW refs \in BOOLEAN,
              NEW ks \in SUBSET FeedLinks, CommitFeed(w, v, se, refs, ks)
       PROVE  RInv' /\ LosesNothing /\ req[w] # Idle /\ req'[w] = Idle /\ (Undisturbed(w) => Next)
  BY <1>5, <1>11, FeedKeeps DEF CommitFeed, Kinds
<1> QED BY <1>1, <1>2, <1>3, <1>4, <1>6, <1>7, <1>8, <1>9, <1>10, <1>11 DEF RequestStep

\* Every step keeps the invariant.
LEMMA RNextKeeps == RInv /\ [RNext]_rvars => RInv'
<1> SUFFICES ASSUME RInv, [RNext]_rvars PROVE RInv'
  OBVIOUS
<1>1. CASE UNCHANGED rvars
  BY <1>1 DEF rvars, vars, RInv, TypeOK, FiledLive, UnusedBlank, RedirectIntact, NoMappings, Live
<1>2. CASE OneStep BY <1>2, OneStepKeeps
<1>3. CASE \E w \in Workers : RequestStep(w) BY <1>3, RequestKeeps
<1> QED BY <1>1, <1>2, <1>3 DEF RNext

\* However requests overlap, a record is never redirected to one that is gone, and a merged
\* record has no redirect only after a record was deleted: a redirect that two merges have
\* both written is one of theirs.  Cycles are another matter (MergeForest of the serial proofs).
THEOREM RedirectsSurviveOverlaps == RSpec => []RedirectIntact
<1>1. RInv => RedirectIntact BY DEF RInv
<1> QED BY <1>1, RInitInv, RNextKeeps, PTL DEF RSpec

\* A request that no other one has disturbed does what its handler does alone.
THEOREM OverlapIsTheOnlyHarm == RSpec => UndisturbedIsSerial
<1>1. ASSUME RInv, [RNext]_rvars
      PROVE  [(\A w \in Workers : req[w] # Idle /\ req'[w] = Idle => Undisturbed(w)) => Next]_vars
  <2>1. CASE UNCHANGED rvars BY <2>1 DEF rvars
  <2>2. CASE OneStep BY <1>1, <2>2, OneStepKeeps
  <2>3. CASE \E w \in Workers : RequestStep(w)
    <3>1. PICK w \in Workers : RequestStep(w) BY <2>3
    <3> QED BY <1>1, <3>1, RequestKeeps
  <2> QED BY <1>1, <2>1, <2>2, <2>3 DEF RNext
<1> QED BY <1>1, RInitInv, RNextKeeps, PTL DEF RSpec, UndisturbedIsSerial

\* However requests overlap, what is filed under a record stays with one that exists and
\* comes along with a merge that has relinked it, and so is what is linked to it, unless as
\* the duplicate of a row that has gone.
THEOREM EvidenceSurvivesOverlaps == RSpec => NothingLost
<1>1. ASSUME RInv, [RNext]_rvars
      PROVE  [LosesNothing]_vars
  <2>1. LosesNothing \/ UNCHANGED vars
    <3>1. CASE UNCHANGED rvars BY <3>1 DEF rvars
    <3>2. CASE OneStep BY <1>1, <3>2, OneStepKeeps
    <3>3. CASE \E w \in Workers : RequestStep(w) BY <1>1, <3>3, RequestKeeps
    <3> QED BY <1>1, <3>1, <3>2, <3>3 DEF RNext
  <2> QED BY <2>1
<1> QED BY <1>1, RInitInv, RNextKeeps, PTL DEF RSpec, NothingLost, LosesNothing

-----------------------------------------------------------------------------
(* The handlers in two steps implement the handlers in one.                *)

\* No request commits where another has written since it loaded, and no merge where another has
\* linked or filed since it relinked: as if it had locked the records and all that hangs there.
NoneDisturbed == [][\A w \in Workers : req[w] # Idle /\ req'[w] = Idle => Undisturbed(w)]_vars

\* While none is disturbed, requests however many implement the specification that serves
\* them one at a time: every commit is the step of its handler, every load and every abort
\* a stutter.
THEOREM UndisturbedImplementsSerial == RSpec /\ NoneDisturbed => Spec
<1>1. RInit => Init BY DEF RInit
<1>2. [\A w \in Workers : req[w] # Idle /\ req'[w] = Idle => Undisturbed(w)]_vars
      /\ [(\A w \in Workers : req[w] # Idle /\ req'[w] = Idle => Undisturbed(w)) => Next]_vars
      => [Next]_vars
  OBVIOUS
<1> QED
  BY <1>1, <1>2, OverlapIsTheOnlyHarm, PTL DEF RSpec, Spec, NoneDisturbed, UndisturbedIsSerial

\* So a cycle of redirects, a comment or notification left behind under a merged record and
\* a resolution time on a record that is not resolved each take a request that commits over
\* rows it has not seen.
THEOREM CyclesNeedDisturbance ==
  RSpec /\ NoneDisturbed => [](MergeForest /\ MergedRecordIsDrained /\ ResolutionStamped)
BY UndisturbedImplementsSerial, RedirectsFormForest, MergedRecordsDrained,
   ResolutionConsistent, PTL
=============================================================================
