------------------------ MODULE NotificationScanProofs ------------------------
(***************************************************************************)
(* Proofs about NotificationScan, for every set of items and scanners and  *)
(* every bound.  CheckpointBacked is not inductive: a commit turns a       *)
(* pending checkpoint write into a checkpoint, so the invariant must also  *)
(* say that an open scan only holds a pending write for an alert it sent.  *)
(***************************************************************************)
EXTENDS NotificationScan, TLAPS

\* A pending checkpoint write of a real scan is backed by a delivery.
WroteBacked ==
  \A w \in Scanners : Open(w) /\ ~scan[w].dry =>
     \A i \in scan[w].wrote : scan[w].at \in sent[i]

\* The inductive invariant.
Backed == TypeOK /\ CheckpointBacked /\ WroteBacked

\* Idle is not mistaken for an open scan, and an open one has all its fields.
LEMMA OpenScan ==
  ASSUME TypeOK, NEW w \in Scanners, Open(w)
  PROVE  scan[w] \in Transactions
<1>1. scan[w] \in Transactions \cup {Idle} BY DEF TypeOK
<1>2. ~Idle.open BY DEF Idle
<1>3. scan[w] # Idle BY <1>2 DEF Open
<1> QED BY <1>1, <1>3

\* The initial state: nothing is running and there is no checkpoint.
LEMMA BackedInit == Init => Backed
<1> SUFFICES ASSUME Init PROVE Backed OBVIOUS
<1>1. TypeOK BY ScanAssumption DEF Init, TypeOK, Days, Never, Idle
<1>2. CheckpointBacked BY DEF Init, CheckpointBacked, Never
<1>3. WroteBacked BY DEF Init, WroteBacked, Open, Idle
<1> QED BY <1>1, <1>2, <1>3 DEF Backed

\* The start of a scan: it holds no pending write.
LEMMA StartBacked ==
  ASSUME Backed, NEW w \in Scanners, NEW dry \in BOOLEAN, Start(w, dry)
  PROVE  Backed'
<1> USE DEF Backed
<1>0. UNCHANGED <<alert, gone, now, last, failed, retried, sent, simulated, disturbed, crashes>>
  BY DEF Start, world, records, outcome
<1>1. \A v \in Scanners : scan'[v] \in Transactions \cup {Idle}
  <2> TAKE v \in Scanners
  <2>1. CASE v = w
    <3> DEFINE new == [open |-> TRUE, at |-> now, dry |-> dry, todo |-> alert \ gone,
                       looking |-> NoItem, known |-> {}, fresh |-> {}, held |-> {},
                       wrote |-> {}, alone |-> Rivals(w) = {}]
    <3>1. scan'[v] = new BY <2>1 DEF Start
    <3>2. now \in Days /\ alert \ gone \subseteq Items BY DEF TypeOK
    <3> HIDE DEF new
    <3>3. new \in Transactions BY <3>2 DEF new, Transactions
    <3> QED BY <3>1, <3>3
  <2>2. CASE v # w /\ Open(v)
    <3>1. scan[v] \in Transactions BY <2>2, OpenScan
    <3>2. scan'[v] = [scan[v] EXCEPT !.alone = FALSE] BY <2>2 DEF Start
    <3>3. [scan[v] EXCEPT !.alone = FALSE] \in Transactions BY <3>1 DEF Transactions
    <3> QED BY <3>2, <3>3
  <2>3. CASE v # w /\ ~Open(v)
    BY <2>3 DEF Start, TypeOK
  <2> QED BY <2>1, <2>2, <2>3
<1>2. dryRuns' \in 0 .. MaxDryRuns
  BY ScanAssumption DEF Start, TypeOK
<1>3. TypeOK'
  <2>1. scan' \in [Scanners -> Transactions \cup {Idle}] BY <1>1 DEF Start
  <2> QED BY <1>0, <1>2, <2>1 DEF TypeOK
<1>4. CheckpointBacked' BY <1>0 DEF CheckpointBacked
<1>5. WroteBacked'
  <2> SUFFICES ASSUME NEW v \in Scanners, Open(v)', ~scan'[v].dry, NEW i \in scan'[v].wrote
               PROVE  scan'[v].at \in sent'[i]
    BY DEF WroteBacked
  <2>1. CASE v = w
    <3>1. scan'[v].wrote = {} BY <2>1 DEF Start
    <3> QED BY <3>1
  <2>2. CASE v # w /\ Open(v)
    <3>1. scan[v] \in Transactions BY <2>2, OpenScan
    <3>2. scan'[v] = [scan[v] EXCEPT !.alone = FALSE] BY <2>2 DEF Start
    <3>3. scan'[v].wrote = scan[v].wrote /\ scan'[v].at = scan[v].at /\ scan'[v].dry = scan[v].dry
      BY <3>1, <3>2 DEF Transactions
    <3> QED BY <2>2, <3>3, <1>0 DEF WroteBacked
  <2>3. CASE v # w /\ ~Open(v)
    BY <2>3 DEF Start, Open
  <2> QED BY <2>1, <2>2, <2>3
<1> QED BY <1>3, <1>4, <1>5

\* The checkpoint query moves attempts from fresh to held, and writes nothing.
LEMMA LookBacked ==
  ASSUME Backed, NEW w \in Scanners, NEW i \in Items, Look(w, i)
  PROVE  Backed'
<1> USE DEF Backed
<1>0. UNCHANGED <<alert, gone, now, last, failed, retried, sent, simulated, disturbed, crashes, dryRuns>>
  BY DEF Look, world, records, outcome, budget
<1>1. scan[w] \in Transactions BY OpenScan DEF Look
<1>2. /\ scan'[w] \in Transactions
      /\ scan'[w].wrote = scan[w].wrote /\ scan'[w].at = scan[w].at
      /\ scan'[w].dry = scan[w].dry
  <2>1. scan'[w] = Looked(scan[w], i) BY DEF Look, TypeOK
  <2> DEFINE silenced == Recent(i, scan[w].at)
             f == Flushed(scan[w])
             look == IF silenced THEN NoItem ELSE i
             seen == IF silenced \/ last[i] = Never THEN scan[w].known
                                                    ELSE scan[w].known \cup {i}
  <2>2. scan'[w] = [f EXCEPT !.todo = scan[w].todo \ {i}, !.looking = look, !.known = seen]
    BY <2>1 DEF Looked
  <2>3. f \in Transactions /\ f.wrote = scan[w].wrote /\ f.at = scan[w].at /\ f.dry = scan[w].dry
    BY <1>1 DEF Flushed, Transactions
  <2>4. look \in Items \cup {NoItem} OBVIOUS
  <2>5. seen \subseteq Items /\ scan[w].todo \ {i} \subseteq Items
    BY <1>1 DEF Transactions
  <2> HIDE DEF f, look, seen
  <2>6. scan'[w] \in Transactions
    <3>1. [f EXCEPT !.todo = scan[w].todo \ {i}, !.looking = look, !.known = seen]
            \in Transactions
      BY <2>3, <2>4, <2>5 DEF Transactions
    <3> QED BY <2>2, <3>1
  <2>7. scan'[w].wrote = f.wrote /\ scan'[w].at = f.at /\ scan'[w].dry = f.dry
    BY <2>2, <2>3 DEF Transactions
  <2> QED BY <2>3, <2>6, <2>7
<1>3. \A v \in Scanners \ {w} : scan'[v] = scan[v]
  BY DEF Look, TypeOK
<1>4. TypeOK'
  <2>1. scan' \in [Scanners -> Transactions \cup {Idle}] BY <1>2, <1>3 DEF Look, TypeOK
  <2> QED BY <1>0, <2>1 DEF TypeOK
<1>5. CheckpointBacked' BY <1>0 DEF CheckpointBacked
<1>6. WroteBacked' BY <1>0, <1>2, <1>3 DEF WroteBacked, Open, Look
<1> QED BY <1>4, <1>5, <1>6

\* The channel's answer: the checkpoint write and the delivery go together.
LEMMA DeliverBacked ==
  ASSUME Backed, NEW w \in Scanners, NEW i \in Items, NEW ok \in BOOLEAN, Deliver(w, i, ok)
  PROVE  Backed'
<1> USE DEF Backed
<1>0. UNCHANGED <<alert, gone, now, last, failed, retried, simulated, disturbed, crashes, dryRuns>>
  BY DEF Deliver, world, records, budget
<1>1. scan[w] \in Transactions BY OpenScan DEF Deliver
<1>2. /\ scan'[w] \in Transactions
      /\ scan'[w].wrote = IF ok THEN scan[w].wrote \cup {i} ELSE scan[w].wrote
      /\ scan'[w].at = scan[w].at /\ scan'[w].dry = scan[w].dry
  BY <1>1 DEF Deliver, TypeOK, Transactions, Attempted
<1>3. \A v \in Scanners \ {w} : scan'[v] = scan[v]
  BY DEF Deliver, TypeOK
<1>a. scan[w].at \in Days BY <1>1 DEF Transactions
<1>4. /\ sent' \in [Items -> SUBSET Days]
      /\ \A j \in Items : sent[j] \subseteq sent'[j]
      /\ ok /\ ~scan[w].dry => scan[w].at \in sent'[i]
  <2>1. CASE ok /\ ~scan[w].dry
    <3>1. sent' = [sent EXCEPT ![i] = @ \cup {scan[w].at}] BY <2>1 DEF Deliver
    <3> QED BY <1>a, <3>1 DEF TypeOK
  <2>2. CASE ~(ok /\ ~scan[w].dry)
    <3>1. sent' = sent BY <2>2 DEF Deliver
    <3> QED BY <2>2, <3>1 DEF TypeOK
  <2> QED BY <2>1, <2>2
<1>5. TypeOK'
  <2>1. scan' \in [Scanners -> Transactions \cup {Idle}] BY <1>2, <1>3 DEF Deliver, TypeOK
  <2> QED BY <1>0, <1>4, <2>1 DEF TypeOK
<1>6. CheckpointBacked' BY <1>0, <1>4 DEF CheckpointBacked
<1>7. WroteBacked'
  <2> SUFFICES ASSUME NEW v \in Scanners, Open(v)', ~scan'[v].dry, NEW j \in scan'[v].wrote
               PROVE  scan'[v].at \in sent'[j]
    BY DEF WroteBacked
  <2>0. j \in Items
    <3>1. CASE v = w BY <3>1, <1>2 DEF Transactions
    <3>2. CASE v # w
      <4>1. Open(v) /\ scan'[v] = scan[v] BY <3>2, <1>3 DEF Open
      <4> QED BY <4>1, OpenScan DEF Transactions
    <3> QED BY <3>1, <3>2
  <2>1. CASE v # w
    BY <2>0, <2>1, <1>3, <1>4 DEF WroteBacked, Open
  <2>2. CASE v = w /\ j \in scan[w].wrote
    BY <2>0, <2>2, <1>2, <1>4 DEF WroteBacked, Deliver
  <2>3. CASE v = w /\ j \notin scan[w].wrote
    BY <2>3, <1>2, <1>4
  <2> QED BY <2>1, <2>2, <2>3
<1> QED BY <1>5, <1>6, <1>7

\* The commit: every checkpoint it moves was written by a delivery or a dry run.
LEMMA CommitBacked ==
  ASSUME Backed, NEW w \in Scanners, Commit(w)
  PROVE  Backed'
<1> USE DEF Backed
<1>0. UNCHANGED <<alert, gone, now, retried, sent, crashes, dryRuns>>
  BY DEF Commit, world, budget
<1>1. Open(w) /\ scan[w] \in Transactions BY OpenScan DEF Commit
<1>2. scan[w].at \in Days /\ scan[w].wrote \subseteq Items /\ scan[w].held \subseteq Items
      /\ scan[w].fresh \subseteq Items
  BY <1>1 DEF Transactions
<1>3. /\ last' \in [Items -> Days \cup {Never}]
      /\ failed' \subseteq Items /\ disturbed' \subseteq Items
      /\ simulated' \in [Items -> SUBSET Days]
  BY <1>2 DEF Commit, Checkpoints, TypeOK
<1>4. scan' \in [Scanners -> Transactions \cup {Idle}] /\ scan'[w] = Idle
      /\ \A v \in Scanners \ {w} : scan'[v] = scan[v]
  BY DEF Commit, TypeOK
<1>5. TypeOK' BY <1>0, <1>3, <1>4 DEF TypeOK
<1>6. CheckpointBacked'
  <2> SUFFICES ASSUME NEW i \in Items, last'[i] # Never
               PROVE  last'[i] \in sent'[i] \cup simulated'[i]
    BY DEF CheckpointBacked
  <2>1. simulated[i] \subseteq simulated'[i] BY DEF Commit, TypeOK
  <2>2. CASE i \notin scan[w].wrote
    <3>1. last'[i] = last[i] BY <2>2 DEF Commit, Checkpoints
    <3> QED BY <3>1, <2>1, <1>0 DEF CheckpointBacked
  <2>3. CASE i \in scan[w].wrote /\ ~scan[w].dry
    <3>1. last'[i] = scan[w].at BY <2>3 DEF Commit, Checkpoints
    <3> QED BY <3>1, <2>3, <1>0, <1>1 DEF WroteBacked
  <2>4. CASE i \in scan[w].wrote /\ scan[w].dry
    <3>1. last'[i] = scan[w].at BY <2>4 DEF Commit, Checkpoints
    <3>2. scan[w].at \in simulated'[i] BY <2>4 DEF Commit
    <3> QED BY <3>1, <3>2
  <2> QED BY <2>2, <2>3, <2>4
<1>7. WroteBacked' BY <1>0, <1>4 DEF WroteBacked, Open, Idle
<1> QED BY <1>5, <1>6, <1>7

\* A scan that fails or is killed leaves no checkpoint.
LEMMA RollbackBacked ==
  ASSUME Backed, NEW w \in Scanners, Fail(w) \/ Crash(w)
  PROVE  Backed'
<1> USE DEF Backed
<1>0. UNCHANGED <<alert, gone, now, last, failed, retried, sent, simulated, dryRuns>>
  BY DEF Fail, Crash, RolledBack, world, records
<1>1. Open(w) /\ scan[w] \in Transactions BY OpenScan DEF Fail, Crash
<1>2. disturbed' \subseteq Items
  BY <1>1 DEF Fail, Crash, RolledBack, Transactions, TypeOK
<1>3. crashes' \in 0 .. MaxCrashes BY ScanAssumption DEF Fail, Crash, TypeOK
<1>4. scan' \in [Scanners -> Transactions \cup {Idle}] /\ scan'[w] = Idle
      /\ \A v \in Scanners \ {w} : scan'[v] = scan[v]
  BY DEF Fail, Crash, RolledBack, TypeOK
<1>5. TypeOK' BY <1>0, <1>2, <1>3, <1>4 DEF TypeOK
<1>6. CheckpointBacked' BY <1>0 DEF CheckpointBacked
<1>7. WroteBacked' BY <1>0, <1>4 DEF WroteBacked, Open, Idle
<1> QED BY <1>5, <1>6, <1>7

\* The operator and the world never add a checkpoint.
LEMMA WorldBacked ==
  ASSUME Backed, Tick \/ \E i \in Items : Retry(i) \/ Requalify(i) \/ Remove(i)
  PROVE  Backed'
<1> USE DEF Backed
<1>1. CASE Tick
  <2>1. UNCHANGED <<alert, gone, last, failed, retried, scan, sent, simulated, disturbed, crashes, dryRuns>>
    BY <1>1 DEF Tick, records, outcome, budget
  <2>2. now' \in Days BY <1>1, ScanAssumption DEF Tick, TypeOK, Days
  <2> QED BY <2>1, <2>2 DEF TypeOK, CheckpointBacked, WroteBacked, Open
<1>2. ASSUME NEW i \in Items, Retry(i) PROVE Backed'
  <2>1. UNCHANGED <<alert, gone, now, last, failed, scan, sent, simulated, disturbed, crashes, dryRuns>>
    BY <1>2 DEF Retry, world, outcome, budget
  <2>2. retried' \subseteq Items BY <1>2 DEF Retry, TypeOK
  <2> QED BY <2>1, <2>2 DEF TypeOK, CheckpointBacked, WroteBacked, Open
<1>3. ASSUME NEW i \in Items, Requalify(i) PROVE Backed'
  <2>1. UNCHANGED <<gone, now, last, failed, retried, scan, sent, simulated, disturbed, crashes, dryRuns>>
    BY <1>3 DEF Requalify, records, outcome, budget
  <2>2. alert' \subseteq Items BY <1>3 DEF Requalify, TypeOK
  <2> QED BY <2>1, <2>2 DEF TypeOK, CheckpointBacked, WroteBacked, Open
<1>4. ASSUME NEW i \in Items, Remove(i) PROVE Backed'
  <2>1. UNCHANGED <<now, failed, retried, scan, sent, simulated, disturbed, crashes, dryRuns>>
    BY <1>4 DEF Remove, outcome, budget
  <2>2. /\ alert' \subseteq Items /\ gone' \subseteq Items
        /\ last' \in [Items -> Days \cup {Never}]
        /\ \A j \in Items : last'[j] = last[j] \/ last'[j] = Never
    BY <1>4 DEF Remove, TypeOK
  <2>3. TypeOK' BY <2>1, <2>2 DEF TypeOK
  <2>4. CheckpointBacked' BY <2>1, <2>2 DEF CheckpointBacked
  <2>5. WroteBacked' BY <2>1 DEF WroteBacked, Open
  <2> QED BY <2>3, <2>4, <2>5
<1> QED BY <1>1, <1>2, <1>3, <1>4

\* Every step keeps the invariant: one case per action.
LEMMA BackedStep == Backed /\ [Next]_vars => Backed'
<1> SUFFICES ASSUME Backed, [Next]_vars PROVE Backed' OBVIOUS
<1>1. CASE UNCHANGED vars
  BY <1>1 DEF vars, Backed, TypeOK, CheckpointBacked, WroteBacked, Open
<1>2. ASSUME NEW w \in Scanners, ScanStep(w) PROVE Backed'
  BY <1>2, StartBacked, LookBacked, DeliverBacked, CommitBacked, RollbackBacked DEF ScanStep
<1>3. CASE \E i \in Items : Retry(i) \/ Requalify(i) \/ Remove(i) BY <1>3, WorldBacked
<1>4. CASE Tick BY <1>4, WorldBacked
<1> QED BY <1>1, <1>2, <1>3, <1>4 DEF Next

\* A checkpoint never silences an item whose alert did not go out (or was not
\* simulated), whatever the number of items, overlapping scans and crashes: the
\* delivery bookkeeping of run_scheduled_notification_scan.
THEOREM CheckpointsAreBacked == Spec => []CheckpointBacked
<1>1. Backed => CheckpointBacked BY DEF Backed
<1> QED BY <1>1, BackedInit, BackedStep, PTL DEF Spec

-----------------------------------------------------------------------------
(* Alerts are spaced out *)

\* What an open scan has delivered it does not come to again; `at` is not in the future.
ScansOnce ==
  \A w \in Scanners : Open(w) =>
    /\ scan[w].todo \cap scan[w].wrote = {}
    /\ scan[w].looking \notin scan[w].wrote \cup scan[w].todo
    /\ scan[w].at <= now

\* No alert was sent in the future.
SentBefore == \A i \in Items : \A d \in sent[i] : d <= now

\* A scan that says so is the only one running, and no alert is younger than its day.
AloneIsAlone ==
  \A w \in Scanners : Open(w) /\ scan[w].alone =>
    /\ \A v \in Scanners \ {w} : ~Open(v)
    /\ \A i \in Items : \A d \in sent[i] : d <= scan[w].at

\* An alert sent has a checkpoint as young to show for it, or a running scan will write it.
SentShown ==
  \A i \in Items \ (gone \cup disturbed) : \A d \in sent[i] :
    \/ d <= last[i]
    \/ \E v \in Scanners : Open(v) /\ i \in scan[v].wrote /\ scan[v].at = d

\* What a scan that runs alone is about to alert was not alerted within the frequency.
DueAgain ==
  \A w \in Scanners : Open(w) /\ scan[w].alone =>
    \A i \in Items \ (gone \cup disturbed) :
      scan[w].looking = i => \A d \in sent[i] : scan[w].at - d >= Frequency

\* The inductive invariant.
Spacing == ScansOnce /\ SentBefore /\ AloneIsAlone /\ SentShown /\ DueAgain

\* The transaction after its steps, as far as spacing is concerned.
LEMMA StartedScan ==
  ASSUME TypeOK, NEW w \in Scanners, NEW dry \in BOOLEAN, Start(w, dry)
  PROVE  /\ Open(w)' /\ scan'[w].at = now /\ scan'[w].looking = NoItem
         /\ scan'[w].wrote = {} /\ (scan'[w].alone <=> Rivals(w) = {})
         /\ \A v \in Scanners \ {w} :
              /\ Open(v)' <=> Open(v)
              /\ Open(v) => /\ ~scan'[v].alone /\ scan'[v].at = scan[v].at
                            /\ scan'[v].looking = scan[v].looking
                            /\ scan'[v].todo = scan[v].todo /\ scan'[v].wrote = scan[v].wrote
<1> DEFINE alone == Rivals(w) = {}
           new == [open |-> TRUE, at |-> now, dry |-> dry, todo |-> alert \ gone,
                   looking |-> NoItem, known |-> {}, fresh |-> {}, held |-> {},
                   wrote |-> {}, alone |-> alone]
<1>1. scan'[w] = new BY DEF Start
<1>2. new.open /\ new.at = now /\ new.looking = NoItem /\ new.wrote = {} /\ new.alone = alone
  OBVIOUS
<1>3. ASSUME NEW v \in Scanners \ {w}
      PROVE  /\ Open(v)' <=> Open(v)
             /\ Open(v) => /\ ~scan'[v].alone /\ scan'[v].at = scan[v].at
                           /\ scan'[v].looking = scan[v].looking
                           /\ scan'[v].todo = scan[v].todo /\ scan'[v].wrote = scan[v].wrote
  <2>1. CASE Open(v)
    <3>1. scan[v] \in Transactions BY <2>1, OpenScan
    <3>2. scan'[v] = [scan[v] EXCEPT !.alone = FALSE] BY <2>1 DEF Start
    <3> QED BY <2>1, <3>1, <3>2 DEF Transactions, Open
  <2>2. CASE ~Open(v) BY <2>2 DEF Start, Open
  <2> QED BY <2>1, <2>2
<1> HIDE DEF new
<1>4. Open(w)' BY <1>1, <1>2 DEF Open
<1> QED BY <1>1, <1>2, <1>3, <1>4

LEMMA LookedScan ==
  ASSUME TypeOK, NEW w \in Scanners, NEW i \in Items, Look(w, i)
  PROVE  /\ scan'[w] \in Transactions /\ Open(w) /\ Open(w)'
         /\ scan'[w].wrote = scan[w].wrote /\ scan'[w].at = scan[w].at
         /\ scan'[w].alone = scan[w].alone /\ scan'[w].dry = scan[w].dry
         /\ scan'[w].todo = scan[w].todo \ {i}
         /\ scan'[w].looking = (IF Recent(i, scan[w].at) THEN NoItem ELSE i)
         /\ \A v \in Scanners \ {w} : scan'[v] = scan[v]
<1>1. scan[w] \in Transactions BY OpenScan DEF Look
<1>2. scan'[w] = Looked(scan[w], i) BY DEF Look, TypeOK
<1> DEFINE silenced == Recent(i, scan[w].at)
           f == Flushed(scan[w])
           look == IF silenced THEN NoItem ELSE i
           seen == IF silenced \/ last[i] = Never THEN scan[w].known
                                                  ELSE scan[w].known \cup {i}
<1>3. scan'[w] = [f EXCEPT !.todo = scan[w].todo \ {i}, !.looking = look, !.known = seen]
  BY <1>2 DEF Looked
<1>4. /\ f \in Transactions /\ f.wrote = scan[w].wrote /\ f.at = scan[w].at
      /\ f.dry = scan[w].dry /\ f.alone = scan[w].alone
  BY <1>1 DEF Flushed, Transactions
<1>5. look \in Items \cup {NoItem} OBVIOUS
<1>6. seen \subseteq Items /\ scan[w].todo \ {i} \subseteq Items
  BY <1>1 DEF Transactions
<1>7. \A v \in Scanners \ {w} : scan'[v] = scan[v] BY DEF Look, TypeOK
<1> HIDE DEF f, look, seen
<1>8. [f EXCEPT !.todo = scan[w].todo \ {i}, !.looking = look, !.known = seen] \in Transactions
  BY <1>4, <1>5, <1>6 DEF Transactions
<1>9. /\ scan'[w].wrote = f.wrote /\ scan'[w].at = f.at /\ scan'[w].dry = f.dry
      /\ scan'[w].alone = f.alone /\ scan'[w].todo = scan[w].todo \ {i}
      /\ scan'[w].looking = look /\ scan'[w].open
  BY <1>3, <1>4 DEF Transactions
<1> QED BY <1>3, <1>4, <1>7, <1>8, <1>9 DEF look, Look, Open

LEMMA DeliveredScan ==
  ASSUME TypeOK, NEW w \in Scanners, NEW i \in Items, NEW ok \in BOOLEAN, Deliver(w, i, ok)
  PROVE  /\ scan'[w] \in Transactions /\ Open(w) /\ Open(w)' /\ scan[w].looking = i
         /\ scan'[w].wrote = (IF ok THEN scan[w].wrote \cup {i} ELSE scan[w].wrote)
         /\ scan'[w].at = scan[w].at /\ scan'[w].dry = scan[w].dry
         /\ scan'[w].alone = scan[w].alone /\ scan'[w].todo = scan[w].todo
         /\ scan'[w].looking = NoItem
         /\ \A v \in Scanners \ {w} : scan'[v] = scan[v]
<1>1. scan[w] \in Transactions BY OpenScan DEF Deliver
<1> DEFINE wrote == IF ok THEN scan[w].wrote \cup {i} ELSE scan[w].wrote
           fresh == scan[w].fresh \cup {i}
<1>2. scan'[w] = [scan[w] EXCEPT !.looking = NoItem, !.fresh = fresh, !.wrote = wrote]
  BY DEF Deliver, TypeOK, Attempted
<1>a. wrote \subseteq Items /\ fresh \subseteq Items BY <1>1 DEF Transactions
<1> HIDE DEF wrote, fresh
<1>b. [scan[w] EXCEPT !.looking = NoItem, !.fresh = fresh, !.wrote = wrote] \in Transactions
  BY <1>1, <1>a DEF Transactions
<1>3. /\ scan'[w] \in Transactions /\ scan'[w].wrote = wrote
      /\ scan'[w].at = scan[w].at /\ scan'[w].dry = scan[w].dry
      /\ scan'[w].alone = scan[w].alone /\ scan'[w].todo = scan[w].todo
      /\ scan'[w].looking = NoItem /\ scan'[w].open
  BY <1>1, <1>2, <1>b DEF Transactions
<1>4. \A v \in Scanners \ {w} : scan'[v] = scan[v] BY DEF Deliver, TypeOK
<1> QED BY <1>3, <1>4 DEF wrote, Deliver, Open

\* Days are numbers.
LEMMA Dated ==
  ASSUME TypeOK
  PROVE  /\ now \in Int /\ \A i \in Items : last[i] \in Int /\ \A d \in sent[i] : d \in Nat
         /\ \A w \in Scanners : Open(w) => scan[w].at \in Nat /\ scan[w].wrote \subseteq Items
<1>1. Days \subseteq Nat /\ Days \cup {Never} \subseteq Int
  BY ScanAssumption DEF Days, Never
<1>2. now \in Int BY <1>1 DEF TypeOK
<1>3. \A i \in Items : last[i] \in Int BY <1>1 DEF TypeOK
<1>4. \A i \in Items : \A d \in sent[i] : d \in Nat BY <1>1 DEF TypeOK
<1>5. \A w \in Scanners : Open(w) => scan[w].at \in Nat /\ scan[w].wrote \subseteq Items
  BY <1>1, OpenScan DEF Transactions
<1> QED BY <1>2, <1>3, <1>4, <1>5

\* At first nothing runs and nothing was sent.
LEMMA SpacingInit == Init => Spacing
BY DEF Init, Spacing, ScansOnce, SentBefore, AloneIsAlone, SentShown, DueAgain, Open, Idle

\* A scan that starts while another runs makes both of them overlap.
LEMMA StartSpacing ==
  ASSUME TypeOK, Spacing, NEW w \in Scanners, NEW dry \in BOOLEAN, Start(w, dry)
  PROVE  Spacing'
<1> USE DEF Spacing
<1>0. UNCHANGED <<gone, now, last, sent, disturbed>>
  BY DEF Start, world, records, outcome
<1>1. NoItem \notin Items BY ScanAssumption DEF NoItem
<1>2. ScansOnce'
  <2> SUFFICES ASSUME NEW v \in Scanners, Open(v)'
               PROVE  /\ scan'[v].todo \cap scan'[v].wrote = {}
                      /\ scan'[v].looking \notin scan'[v].wrote \cup scan'[v].todo
                      /\ scan'[v].at <= now
    BY <1>0 DEF ScansOnce
  <2>1. CASE v = w
    <3>1. scan'[v].todo = alert \ gone BY <2>1 DEF Start
    <3>2. alert \ gone \subseteq Items BY DEF TypeOK
    <3> QED BY <1>1, <2>1, <3>1, <3>2, StartedScan, Dated
  <2>2. CASE v # w BY <2>2, StartedScan DEF ScansOnce
  <2> QED BY <2>1, <2>2
<1>3. SentBefore' BY <1>0 DEF SentBefore
<1>4. AloneIsAlone'
  <2> SUFFICES ASSUME NEW v \in Scanners, Open(v)', scan'[v].alone
               PROVE  /\ \A u \in Scanners \ {v} : ~Open(u)'
                      /\ \A i \in Items : \A d \in sent[i] : d <= scan'[v].at
    BY <1>0 DEF AloneIsAlone
  <2>1. v = w BY StartedScan
  <2>2. Rivals(w) = {} BY <2>1, StartedScan
  <2>3. \A u \in Scanners \ {w} : ~Open(u)' BY <2>2, StartedScan DEF Rivals
  <2>4. scan'[w].at = now BY StartedScan
  <2> QED BY <2>1, <2>3, <2>4 DEF SentBefore
<1>5. SentShown'
  <2> SUFFICES ASSUME NEW i \in Items \ (gone \cup disturbed), NEW d \in sent[i]
               PROVE  \/ d <= last[i]
                      \/ \E v \in Scanners : Open(v)' /\ i \in scan'[v].wrote /\ scan'[v].at = d
    BY <1>0 DEF SentShown
  <2>1. CASE d <= last[i] BY <2>1
  <2>2. ASSUME NEW v \in Scanners, Open(v), i \in scan[v].wrote, scan[v].at = d
        PROVE  Open(v)' /\ i \in scan'[v].wrote /\ scan'[v].at = d
    <3>1. ~Open(w) BY DEF Start
    <3> QED BY <2>2, <3>1, StartedScan
  <2> QED BY <2>1, <2>2 DEF SentShown
<1>6. DueAgain'
  <2> SUFFICES ASSUME NEW v \in Scanners, Open(v)', scan'[v].alone,
                      NEW i \in Items, scan'[v].looking = i
               PROVE  FALSE
    BY DEF DueAgain
  <2>1. v = w BY StartedScan
  <2> QED BY <1>1, <2>1, StartedScan
<1> QED BY <1>2, <1>3, <1>4, <1>5, <1>6

\* A scan that runs alone and is not silenced comes to an item whose alerts are all
\* shown by its checkpoint.
LEMMA LookSpacing ==
  ASSUME TypeOK, Spacing, NEW w \in Scanners, NEW i \in Items, Look(w, i)
  PROVE  Spacing'
<1> USE DEF Spacing
<1>0. UNCHANGED <<gone, now, last, sent, disturbed>>
  BY DEF Look, world, records, outcome
<1>1. NoItem \notin Items BY ScanAssumption DEF NoItem
<1>2. i \in scan[w].todo BY DEF Look
<1>3. ScansOnce'
  <2> SUFFICES ASSUME NEW v \in Scanners, Open(v)'
               PROVE  /\ scan'[v].todo \cap scan'[v].wrote = {}
                      /\ scan'[v].looking \notin scan'[v].wrote \cup scan'[v].todo
                      /\ scan'[v].at <= now
    BY <1>0 DEF ScansOnce
  <2>1. CASE v = w
    <3>1. /\ scan[w].todo \cap scan[w].wrote = {} /\ scan[w].at <= now
      BY LookedScan DEF ScansOnce
    <3>2. scan[w].wrote \subseteq Items /\ scan[w].todo \subseteq Items
      BY LookedScan, OpenScan DEF Transactions
    <3> QED BY <1>1, <1>2, <2>1, <3>1, <3>2, LookedScan
  <2>2. CASE v # w BY <2>2, LookedScan DEF ScansOnce, Open
  <2> QED BY <2>1, <2>2
<1>4. SentBefore' BY <1>0 DEF SentBefore
<1>5. \A v \in Scanners :
        /\ Open(v)' <=> Open(v)
        /\ scan'[v].alone = scan[v].alone /\ scan'[v].at = scan[v].at
        /\ scan'[v].wrote = scan[v].wrote
  BY LookedScan DEF Open
<1>6. AloneIsAlone' BY <1>0, <1>5 DEF AloneIsAlone
<1>7. SentShown' BY <1>0, <1>5 DEF SentShown
<1>8. DueAgain'
  <2> SUFFICES ASSUME NEW v \in Scanners, Open(v), scan[v].alone,
                      NEW j \in Items \ (gone \cup disturbed), scan'[v].looking = j,
                      NEW d \in sent[j]
               PROVE  scan[v].at - d >= Frequency
    BY <1>0, <1>5 DEF DueAgain
  <2>1. CASE v # w BY <2>1, LookedScan DEF DueAgain
  <2>2. CASE v = w
    <3>1. j = i /\ ~Recent(i, scan[w].at) BY <1>1, <2>2, LookedScan
    <3>2. i \notin scan[w].wrote BY <1>2, LookedScan DEF ScansOnce
    <3>3. \A u \in Scanners \ {w} : ~Open(u) BY <2>2 DEF AloneIsAlone
    <3>4. d <= last[i] BY <3>1, <3>2, <3>3 DEF SentShown
    <3>5. d \in Nat /\ last[i] \in Int /\ scan[w].at \in Nat /\ Frequency \in Nat
      BY <2>2, <3>1, Dated, ScanAssumption
    <3>6. scan[w].at - last[i] >= Frequency
      BY <3>1, <3>4, <3>5 DEF Recent, Never
    <3> QED BY <2>2, <3>4, <3>5, <3>6
  <2> QED BY <2>1, <2>2
<1> QED BY <1>3, <1>4, <1>6, <1>7, <1>8

\* An alert goes out with a pending checkpoint of its day.
LEMMA DeliverSpacing ==
  ASSUME TypeOK, Spacing, NEW w \in Scanners, NEW i \in Items, NEW ok \in BOOLEAN,
         Deliver(w, i, ok)
  PROVE  Spacing'
<1> USE DEF Spacing
<1>0. UNCHANGED <<gone, now, last, disturbed>>
  BY DEF Deliver, world, records
<1>1. NoItem \notin Items BY ScanAssumption DEF NoItem
<1>a. /\ Open(w) /\ Open(w)' /\ scan[w].looking = i
      /\ scan'[w].wrote = (IF ok THEN scan[w].wrote \cup {i} ELSE scan[w].wrote)
      /\ scan'[w].at = scan[w].at /\ scan'[w].alone = scan[w].alone
      /\ scan'[w].todo = scan[w].todo /\ scan'[w].looking = NoItem
  BY DeliveredScan
<1>b. \A v \in Scanners \ {w} : scan'[v] = scan[v] BY DeliveredScan
<1>2. \A j \in Items : \A d \in sent'[j] :
        d \in sent[j] \/ (j = i /\ ok /\ d = scan[w].at)
  BY DEF Deliver, TypeOK
<1>3. \A v \in Scanners : /\ Open(v)' <=> Open(v)
                          /\ scan'[v].alone = scan[v].alone /\ scan'[v].at = scan[v].at
                          /\ scan'[v].todo = scan[v].todo
  BY <1>a, <1>b DEF Open
<1>4. scan[w].looking = i /\ Open(w) BY <1>a
<1>5. ScansOnce'
  <2> SUFFICES ASSUME NEW v \in Scanners, Open(v)
               PROVE  /\ scan'[v].todo \cap scan'[v].wrote = {}
                      /\ scan'[v].looking \notin scan'[v].wrote \cup scan'[v].todo
                      /\ scan'[v].at <= now
    BY <1>0, <1>3 DEF ScansOnce
  <2>1. CASE v = w
    <3>1. scan[w].wrote \subseteq Items /\ scan[w].todo \subseteq Items
      BY <1>4, OpenScan DEF Transactions
    <3> QED BY <1>1, <1>4, <2>1, <3>1, <1>a DEF ScansOnce
  <2>2. CASE v # w BY <2>2, <1>b DEF ScansOnce
  <2> QED BY <2>1, <2>2
<1>6. SentBefore' BY <1>0, <1>2, <1>4 DEF SentBefore, ScansOnce
<1>7. AloneIsAlone'
  <2> SUFFICES ASSUME NEW v \in Scanners, Open(v), scan[v].alone
               PROVE  /\ \A u \in Scanners \ {v} : ~Open(u)
                      /\ \A j \in Items : \A d \in sent'[j] : d <= scan[v].at
    BY <1>3 DEF AloneIsAlone
  <2>1. v = w BY <1>4 DEF AloneIsAlone
  <2>2. scan[w].at <= scan[w].at BY <1>4, Dated
  <2> QED BY <1>2, <2>1, <2>2 DEF AloneIsAlone
<1>8. SentShown'
  <2> SUFFICES ASSUME NEW j \in Items \ (gone \cup disturbed), NEW d \in sent'[j]
               PROVE  \/ d <= last[j]
                      \/ \E v \in Scanners : Open(v) /\ j \in scan'[v].wrote /\ scan[v].at = d
    BY <1>0, <1>3 DEF SentShown
  <2>1. CASE d \in sent[j]
    <3>1. \A v \in Scanners : scan[v].wrote \subseteq scan'[v].wrote BY <1>a, <1>b
    <3> QED BY <2>1, <3>1 DEF SentShown
  <2>2. CASE j = i /\ ok /\ d = scan[w].at BY <1>4, <2>2, <1>a
  <2> QED BY <1>2, <2>1, <2>2
<1>9. DueAgain'
  <2> SUFFICES ASSUME NEW v \in Scanners, Open(v), scan[v].alone, NEW j \in Items,
                      scan'[v].looking = j
               PROVE  FALSE
    BY <1>3 DEF DueAgain
  <2>1. v = w BY <1>4 DEF AloneIsAlone
  <2> QED BY <1>1, <2>1, <1>a
<1> QED BY <1>5, <1>6, <1>7, <1>8, <1>9

\* A scan that ends shows what it sent, unless it overlapped or is rolled back.
LEMMA EndSpacing ==
  ASSUME TypeOK, Spacing, NEW w \in Scanners, Commit(w) \/ Fail(w) \/ Crash(w)
  PROVE  Spacing'
<1> USE DEF Spacing
<1>0. UNCHANGED <<gone, now, sent>>
  BY DEF Commit, Fail, Crash, RolledBack, world
<1>1. /\ Open(w) /\ ~Open(w)' /\ \A v \in Scanners \ {w} : scan'[v] = scan[v]
  BY DEF Commit, Fail, Crash, RolledBack, TypeOK, Open, Idle
<1>2. \A v \in Scanners : Open(v)' => v # w /\ Open(v) BY <1>1 DEF Open
<1>3. disturbed \subseteq disturbed' BY DEF Commit, Fail, Crash, RolledBack
<1>4. ScansOnce' BY <1>0, <1>1, <1>2 DEF ScansOnce
<1>5. SentBefore' BY <1>0 DEF SentBefore
<1>6. AloneIsAlone' BY <1>0, <1>1, <1>2 DEF AloneIsAlone
<1>7. DueAgain' BY <1>0, <1>1, <1>2, <1>3 DEF DueAgain
<1>8. SentShown'
  <2> SUFFICES ASSUME NEW i \in Items \ (gone \cup disturbed'), NEW d \in sent[i]
               PROVE  \/ d <= last'[i]
                      \/ \E v \in Scanners : Open(v)' /\ i \in scan'[v].wrote /\ scan'[v].at = d
    BY <1>0 DEF SentShown
  <2>1. CASE i \notin scan[w].wrote
    <3>1. last'[i] = last[i]
      BY <2>1 DEF Commit, Fail, Crash, RolledBack, Checkpoints, records
    <3>2. ASSUME NEW v \in Scanners, Open(v), i \in scan[v].wrote, scan[v].at = d
          PROVE  Open(v)' /\ i \in scan'[v].wrote /\ scan'[v].at = d
      BY <1>1, <2>1, <3>2 DEF Open
    <3> QED BY <1>3, <3>1, <3>2 DEF SentShown
  <2>2. CASE i \in scan[w].wrote
    <3>1. Commit(w) /\ scan[w].alone
      BY <2>2 DEF Commit, Fail, Crash, RolledBack
    <3>2. last'[i] = scan[w].at BY <2>2, <3>1 DEF Commit, Checkpoints
    <3> QED BY <1>1, <3>1, <3>2 DEF AloneIsAlone
  <2> QED BY <2>1, <2>2
<1> QED BY <1>4, <1>5, <1>6, <1>7, <1>8

\* The operator and the world leave scans and alerts alone.
LEMMA WorldSpacing ==
  ASSUME TypeOK, Spacing,
         \/ Tick \/ UNCHANGED vars
         \/ \E i \in Items : Retry(i) \/ Requalify(i) \/ Remove(i)
  PROVE  Spacing'
<1> USE DEF Spacing
<1>1. UNCHANGED <<scan, sent, disturbed>>
  BY DEF Tick, Retry, Requalify, Remove, vars, outcome
<1>2. gone \subseteq gone' /\ \A i \in Items : i \in gone' \/ last'[i] = last[i]
  BY DEF Tick, Retry, Requalify, Remove, vars, world, records, TypeOK
<1>3. now <= now' /\ now \in Int /\ now' \in Int
  BY Dated DEF Tick, Retry, Requalify, Remove, vars, world
<1>4. \A v \in Scanners : Open(v)' <=> Open(v) BY <1>1 DEF Open
<1>5. ScansOnce'
  <2>1. \A w \in Scanners : Open(w) => scan[w].at \in Nat BY Dated
  <2> QED BY <1>1, <1>3, <1>4, <2>1 DEF ScansOnce
<1>6. SentBefore'
  <2>1. \A i \in Items : \A d \in sent[i] : d \in Nat BY Dated
  <2> QED BY <1>1, <1>3, <2>1 DEF SentBefore
<1>7. AloneIsAlone' BY <1>1, <1>4 DEF AloneIsAlone
<1>8. SentShown' BY <1>1, <1>2, <1>4 DEF SentShown
<1>9. DueAgain' BY <1>1, <1>2, <1>4 DEF DueAgain
<1> QED BY <1>5, <1>6, <1>7, <1>8, <1>9

\* Every step keeps the invariant.
LEMMA SpacingStep == TypeOK /\ Spacing /\ [Next]_vars => Spacing'
<1> SUFFICES ASSUME TypeOK, Spacing, [Next]_vars PROVE Spacing' OBVIOUS
<1>1. ASSUME NEW w \in Scanners, ScanStep(w) PROVE Spacing'
  BY <1>1, StartSpacing, LookSpacing, DeliverSpacing, EndSpacing DEF ScanStep
<1>2. CASE \/ Tick \/ UNCHANGED vars
           \/ \E i \in Items : Retry(i) \/ Requalify(i) \/ Remove(i)
  BY <1>2, WorldSpacing
<1> QED BY <1>1, <1>2 DEF Next

\* A scan that runs alone alerts an item again only after frequency_days, unless an
\* earlier alert of it was made by a scan that overlapped or rolled back
\* (notification_rules.py: the checkpoint query and its commit at the end).
THEOREM AlertsAreSpaced == Spec => SpacedUnlessDisturbed
<1>1. Init => Backed /\ Spacing BY BackedInit, SpacingInit
<1>2. Backed /\ Spacing /\ [Next]_vars => Backed' /\ Spacing'
  BY BackedStep, SpacingStep DEF Backed
<1> DEFINE Due(w, i) == \/ \A d \in sent[i] : scan[w].at - d >= Frequency
                        \/ ~scan[w].alone \/ i \in disturbed
           Spaced == \A w \in Scanners, i \in Items :
                       (Deliver(w, i, TRUE) /\ ~scan[w].dry /\ i \notin gone) => Due(w, i)
<1>3. Spacing => Spaced
  BY DEF Deliver, Spacing, DueAgain
<1>4. Spec => [][Spaced]_vars
  <2> HIDE DEF Spaced
  <2> QED BY <1>1, <1>2, <1>3, PTL DEF Spec
<1> QED BY <1>4 DEF SpacedUnlessDisturbed
=============================================================================
