-------------------------- MODULE NotificationScan --------------------------
(***************************************************************************)
(* Notification delivery: the scheduled scan (services/notification_rules  *)
(* .py, started by celery beat every 15 minutes, by an operator's command  *)
(* line, or again by a redelivered task) with the delivery log, the        *)
(* checkpoint that spaces alerts out, and the operator's retry of a failed *)
(* attempt.                                                                *)
(*                                                                         *)
(* An item is one (rule, vulnerability) pair.  A scan loads its items once,*)
(* then for each one reads the checkpoint, calls the channel, and adds a   *)
(* log row and a checkpoint write to ONE transaction that the task commits *)
(* at the end.  The session flushes what was added before the next query,  *)
(* so a foreign key or unique violation surfaces there and rolls back      *)
(* everything the scan had recorded, never what it had already sent.       *)
(***************************************************************************)
EXTENDS Integers

CONSTANTS Items,        \* (rule, vulnerability) pairs
          Scanners,     \* processes that can run a scan: workers, command lines
          Frequency,    \* frequency_days of the rules
          MaxDay,       \* bound: the clock stops there
          MaxCrashes,   \* bound on scans killed half way
          MaxDryRuns    \* bound on dry runs

ASSUME ScanAssumption ==
  /\ Frequency \in Nat \ {0}
  /\ MaxDay \in Nat /\ MaxCrashes \in Nat /\ MaxDryRuns \in Nat
  /\ "none" \notin Items

VARIABLES alert,        \* items that qualify: open, severe or overdue, in scope
          gone,         \* items whose rule or vulnerability was deleted
          now,          \* the clock, in days
          last,         \* item -> last_notified_at of its committed checkpoint
          failed,       \* items with a failed attempt in the committed log
          retried,      \* items whose failed attempt an operator retried: the log
                        \* now holds an attempt that reads "delivered"
          scan,         \* scanner -> the transaction of its running scan
          sent,         \* item -> scans (by their day) whose alert the channel took
          simulated,    \* item -> days on which a committed dry run "sent" it
          disturbed,    \* items delivered by a scan that overlapped or rolled back
          crashes, dryRuns

vars == <<alert, gone, now, last, failed, retried, scan, sent, simulated,
          disturbed, crashes, dryRuns>>

world == <<alert, gone, now>>
records == <<last, failed, retried>>
outcome == <<sent, simulated, disturbed>>
budget == <<crashes, dryRuns>>

Days == 0 .. MaxDay
Never == -1
NoItem == "none"
Idle == [open |-> FALSE]

Transactions ==
  [open : {TRUE}, at : Days, dry : BOOLEAN,
   todo : SUBSET Items,            \* loaded, not yet examined
   looking : Items \cup {NoItem},  \* between its checkpoint read and the channel's answer
   known : SUBSET Items,           \* delivered-to items whose checkpoint row existed
   fresh : SUBSET Items,           \* attempts added since the last flush
   held : SUBSET Items,            \* attempts flushed: rows locked until the end
   wrote : SUBSET Items,           \* checkpoints set to `at`
   alone : BOOLEAN]                \* no other scan ran during this one

TypeOK ==
  /\ alert \subseteq Items /\ gone \subseteq Items
  /\ now \in Days
  /\ last \in [Items -> Days \cup {Never}]
  /\ failed \subseteq Items /\ retried \subseteq Items
  /\ scan \in [Scanners -> Transactions \cup {Idle}]
  /\ sent \in [Items -> SUBSET Days] /\ simulated \in [Items -> SUBSET Days]
  /\ disturbed \subseteq Items
  /\ crashes \in 0 .. MaxCrashes /\ dryRuns \in 0 .. MaxDryRuns

-----------------------------------------------------------------------------
(* The transaction of a scan *)

Open(w) == scan[w].open
Rivals(w) == {v \in Scanners \ {w} : Open(v)}

\* The query of the loop: a checkpoint younger than the frequency silences.
Recent(i, at) == last[i] # Never /\ at - last[i] < Frequency

\* What the flush of w's last attempt meets: the item was deleted under it
\* (foreign key), or another scan committed the checkpoint row it inserts.
FlushFails(w) ==
  \E i \in scan[w].fresh :
     i \in gone \/ (i \in scan[w].wrote \ scan[w].known /\ last[i] # Never)

\* The same checkpoint row is being written by another open transaction.
WaitsFor(w, v) == scan[w].fresh \cap scan[w].wrote \cap scan[v].held \cap scan[v].wrote # {}
Blocked(w) == \E v \in Rivals(w) : WaitsFor(w, v)
CanFlush(w) == ~FlushFails(w) /\ ~Blocked(w)

Flushed(t) == [t EXCEPT !.held = t.held \cup t.fresh, !.fresh = {}]

\* The transaction after the checkpoint of i was read: i is silenced, or its
\* alert goes to the channel next.
Looked(t, i) ==
  LET silenced == Recent(i, t.at) IN
  [Flushed(t) EXCEPT !.todo = t.todo \ {i},
                     !.looking = IF silenced THEN NoItem ELSE i,
                     !.known = IF silenced \/ last[i] = Never THEN t.known
                                                              ELSE t.known \cup {i}]

\* Fault: the checkpoint moves on whatever the channel said (the defect that
\* docs/CHANGELOG.md:176 records as fixed).
AttemptedAlways(t, i, ok) ==
  [t EXCEPT !.looking = NoItem, !.fresh = @ \cup {i}, !.wrote = @ \cup {i}]

\* An attempt adds its log row; only a success moves the checkpoint.
Attempted(t, i, ok) ==
  [t EXCEPT !.looking = NoItem, !.fresh = @ \cup {i},
            !.wrote = IF ok THEN @ \cup {i} ELSE @]

-----------------------------------------------------------------------------
(* The scan *)

\* Beat, a redelivered task or `flask run-notification-scan [--dry-run]`: rules
\* and vulnerabilities are loaded once, and the day is fixed for the whole scan.
Start(w, dry) ==
  /\ ~Open(w)
  /\ dry => dryRuns < MaxDryRuns
  /\ scan' = [v \in Scanners |->
       IF v = w THEN [open |-> TRUE, at |-> now, dry |-> dry, todo |-> alert \ gone,
                      looking |-> NoItem, known |-> {}, fresh |-> {}, held |-> {},
                      wrote |-> {}, alone |-> Rivals(w) = {}]
       ELSE IF Open(v) THEN [scan[v] EXCEPT !.alone = FALSE] ELSE scan[v]]
  /\ dryRuns' = IF dry THEN dryRuns + 1 ELSE dryRuns
  /\ UNCHANGED <<world, records, outcome, crashes>>

\* The checkpoint query of the next item: it flushes the previous attempt, and
\* an item notified within its frequency is passed over.
Look(w, i) ==
  /\ Open(w) /\ scan[w].looking = NoItem /\ i \in scan[w].todo /\ CanFlush(w)
  /\ scan' = [scan EXCEPT ![w] = Looked(scan[w], i)]
  /\ UNCHANGED <<world, records, outcome, budget>>

\* _deliver and the bookkeeping after it.  A dry run calls no channel and counts
\* as delivered; a real call is answered with success or an error.
Deliver(w, i, ok) ==
  /\ Open(w) /\ scan[w].looking = i
  /\ scan[w].dry => ok
  /\ scan' = [scan EXCEPT ![w] = Attempted(@, i, ok)]
  /\ sent' = IF ok /\ ~scan[w].dry
             THEN [sent EXCEPT ![i] = @ \cup {scan[w].at}] ELSE sent
  /\ UNCHANGED <<world, records, budget, simulated, disturbed>>

\* Fault: the task commits the checkpoints it inserts and forgets the ones it updates.
CheckpointsInsertedOnly(t) ==
  [i \in Items |-> IF i \in t.wrote \ t.known THEN t.at ELSE last[i]]

Checkpoints(t) == [i \in Items |-> IF i \in t.wrote THEN t.at ELSE last[i]]

\* The end of the task: one commit for the whole scan, dry or not.
Commit(w) ==
  /\ Open(w) /\ scan[w].todo = {} /\ scan[w].looking = NoItem /\ CanFlush(w)
  /\ last' = Checkpoints(scan[w])
  /\ failed' = failed \cup ((scan[w].held \cup scan[w].fresh) \ scan[w].wrote)
  /\ simulated' = [i \in Items |-> IF scan[w].dry /\ i \in scan[w].wrote
                                   THEN simulated[i] \cup {scan[w].at} ELSE simulated[i]]
  /\ disturbed' = IF scan[w].alone THEN disturbed ELSE disturbed \cup scan[w].wrote
  /\ scan' = [scan EXCEPT ![w] = Idle]
  /\ UNCHANGED <<world, budget, retried, sent>>

RolledBack(w) ==
  /\ scan' = [scan EXCEPT ![w] = Idle]
  /\ disturbed' = disturbed \cup scan[w].wrote
  /\ UNCHANGED <<world, records, sent, simulated, dryRuns>>

\* The flush raises, or the database picks this scan as a deadlock victim: the
\* task fails and is not retried (max_retries=0).
Fail(w) ==
  /\ Open(w) /\ scan[w].looking = NoItem
  /\ FlushFails(w) \/ \E v \in Rivals(w) : WaitsFor(w, v) /\ WaitsFor(v, w)
  /\ RolledBack(w) /\ UNCHANGED crashes

\* The worker is killed, or hits its time limit, between two steps.
Crash(w) ==
  /\ Open(w) /\ crashes < MaxCrashes
  /\ crashes' = crashes + 1
  /\ RolledBack(w)

-----------------------------------------------------------------------------
(* The operator, and the world *)

\* POST .../retry of a failed attempt: trigger_notifications_for_event is given
\* the rule as dry_run_rule_id, calls no channel, and logs a delivered attempt - unless
\* the rule's severity, scope or events drop it first, and nothing is logged.
Retry(i) ==
  /\ i \in failed \ gone
  /\ retried' \in {retried, retried \cup {i}}
  /\ UNCHANGED <<world, outcome, budget, last, failed, scan>>

\* Edits of the vulnerability or the rule make an item qualify, or stop it.
Requalify(i) ==
  /\ i \notin gone
  /\ alert' = IF i \in alert THEN alert \ {i} ELSE alert \cup {i}
  /\ UNCHANGED <<records, outcome, budget, gone, now, scan>>

\* The vulnerability or the rule is deleted: the checkpoint cascades, log rows
\* lose their reference.  A flushed attempt locks the rows it refers to.
Remove(i) ==
  /\ i \notin gone /\ \A w \in Scanners : Open(w) => i \notin scan[w].held
  /\ gone' = gone \cup {i} /\ alert' = alert \ {i}
  /\ last' = [last EXCEPT ![i] = Never]
  /\ UNCHANGED <<outcome, budget, now, failed, retried, scan>>

Tick ==
  /\ now < MaxDay /\ now' = now + 1
  /\ UNCHANGED <<records, outcome, budget, alert, gone, scan>>

-----------------------------------------------------------------------------
Init ==
  /\ alert \in SUBSET Items /\ gone = {} /\ now = 0
  /\ last = [i \in Items |-> Never] /\ failed = {} /\ retried = {}
  /\ scan = [w \in Scanners |-> Idle]
  /\ sent = [i \in Items |-> {}] /\ simulated = [i \in Items |-> {}]
  /\ disturbed = {} /\ crashes = 0 /\ dryRuns = 0

ScanStep(w) ==
  \/ \E dry \in BOOLEAN : Start(w, dry)
  \/ \E i \in Items : Look(w, i)
  \/ \E i \in Items, ok \in BOOLEAN : Deliver(w, i, ok)
  \/ Commit(w) \/ Fail(w) \/ Crash(w)

Next ==
  \/ \E w \in Scanners : ScanStep(w)
  \/ \E i \in Items : Retry(i) \/ Requalify(i) \/ Remove(i)
  \/ Tick

Spec == Init /\ [][Next]_vars

\* Beat starts a real scan again and again, a started scan keeps running, and a
\* channel that is called again and again answers some of the calls for an item.
Fairness ==
  /\ WF_vars(\E w \in Scanners : Start(w, FALSE))
  /\ \A w \in Scanners :
       WF_vars((\E i \in Items : Look(w, i)) \/ Commit(w) \/ Fail(w)
               \/ \E i \in Items, ok \in BOOLEAN : Deliver(w, i, ok))
  /\ \A i \in Items : SF_vars(\E w \in Scanners : Deliver(w, i, TRUE))

FairSpec == Spec /\ Fairness

-----------------------------------------------------------------------------
(* What the scan promises *)

\* A checkpoint is the record of an alert that went out (or that a dry run
\* pretended to send): a failed delivery, a rolled back scan or a half-done one
\* never leaves one behind to silence the item (notification_rules.py:463-470).
CheckpointBacked ==
  \A i \in Items : last[i] # Never => last[i] \in sent[i] \cup simulated[i]

\* No alert storm: a scan alerts an item again within its frequency only if it
\* overlapped another scan, or an earlier delivery of the item was made by a
\* scan that overlapped or rolled back and so has no checkpoint to show for it.
SpacedUnlessDisturbed ==
  [][\A w \in Scanners, i \in Items :
       (Deliver(w, i, TRUE) /\ ~scan[w].dry /\ i \notin gone)
         => \/ \A d \in sent[i] : scan[w].at - d >= Frequency
            \/ ~scan[w].alone \/ i \in disturbed]_vars

\* An item that keeps qualifying is alerted in the end, through failing channels,
\* overlapping, failing and crashing scans, unless a dry run silenced it.
AlertsGetOut ==
  \A i \in Items : <>[](i \in alert) => <>(sent[i] # {} \/ simulated[i] # {})

\* "Retry a failed notification delivery attempt." (api/notification_delivery.py
\* :197): when the log shows the retried attempt as delivered, the channel has
\* been called and took the alert.
RetryDelivers ==
  \A i \in retried : sent[i] # {}
=============================================================================
