--------------------------- MODULE WebhookIngest ----------------------------
(***************************************************************************)
(* Inbound webhooks (api/webhooks.py, services/webhook_ingest.py) and the  *)
(* upsert behind them (services/vuln_ingest.py), for one endpoint.         *)
(*                                                                         *)
(* A delivery is checked, its entries are upserted one by one, each in a   *)
(* transaction of its own, and then the endpoint's counters and a log row  *)
(* are committed.  The counters are read when the endpoint is loaded, and  *)
(* again after a commit of the same session has expired it.                *)
(***************************************************************************)
EXTENDS Integers, Sequences, FiniteSets

CONSTANTS Titled, WithCve,  \* entries known by their title only, by their CVE id as well
          TitleOf,          \* entry -> its title, the same at each delivery
          Payloads,         \* what senders deliver, and deliver again: their entries
          Calls,            \* deliveries at the same time
          MaxCalls          \* bound on the deliveries

ASSUME HookAssumption ==
  /\ Titled \cap WithCve = {} /\ DOMAIN TitleOf = Titled \cup WithCve /\ MaxCalls \in Nat
  /\ {"none", "broken"} \cap (Titled \cup WithCve) = {}
  /\ Payloads \subseteq Seq(Titled \cup WithCve \cup {"broken"})

VARIABLES hook,    \* the endpoint: is_enabled, secret, delivery_count, failure_count
          logged,  \* rows of webhook_delivery_logs, by outcome
          copies,  \* title -> vulnerabilities stored under it
          cves,    \* entries whose CVE id a stored vulnerability carries
          call,    \* delivery in progress
          calls,   \* deliveries received
          overlaps,\* counter commits while another delivery was in progress
          raced    \* titles two deliveries looked for at the same time, other than for
                   \* one CVE id

hookVars == <<hook, logged, copies, cves, call, calls, overlaps, raced>>

AllEntries == Titled \cup WithCve
Titles == {TitleOf[e] : e \in AllEntries}
Broken == "broken"
NoCall == [phase |-> "free", left |-> <<>>, found |-> FALSE, ok |-> FALSE,
           fresh |-> FALSE, delivered |-> 0, failed |-> 0]

Upcoming(c) == IF c.left = <<>> THEN "none" ELSE Head(c.left)

HookTypeOK ==
  /\ hook \in [enabled : BOOLEAN, exists : BOOLEAN, secret : 1 .. 2,
               delivered : 0 .. MaxCalls, failed : 0 .. MaxCalls]
  /\ logged \in [ok : 0 .. MaxCalls, bad : 0 .. MaxCalls]
  /\ copies \in [Titles -> Nat] /\ cves \subseteq WithCve /\ calls \in 0 .. MaxCalls /\ overlaps \in Nat
  /\ call \in [Calls -> [phase : {"free", "look", "store", "count"},
       left : Seq(AllEntries \cup {Broken}), found : BOOLEAN, ok : BOOLEAN,
       fresh : BOOLEAN, delivered : 0 .. MaxCalls, failed : 0 .. MaxCalls]]
  /\ raced \subseteq Titles

-----------------------------------------------------------------------------
(* Administration *)

\* update_webhook
Switch ==
  /\ hook.exists /\ hook' = [hook EXCEPT !.enabled = ~@]
  /\ UNCHANGED <<logged, copies, cves, call, calls, overlaps, raced>>

\* rotate_webhook_secret, once
NewSecret ==
  /\ hook.exists /\ hook.secret = 1 /\ hook' = [hook EXCEPT !.secret = 2]
  /\ UNCHANGED <<logged, copies, cves, call, calls, overlaps, raced>>

\* delete_webhook; the log goes with it.
Remove ==
  /\ hook.exists /\ hook' = [hook EXCEPT !.exists = FALSE, !.enabled = FALSE]
  /\ UNCHANGED <<logged, copies, cves, call, calls, overlaps, raced>>

-----------------------------------------------------------------------------
(* A delivery *)

\* ingest_webhook loads the endpoint.  A signature with an earlier secret, a timestamp
\* outside the replay window or a body that is no JSON object goes straight to the
\* counters.
ReceiveCall(h, m, signed, sound) ==
  /\ call[h] = NoCall /\ hook.enabled /\ signed <= hook.secret
  /\ calls < MaxCalls /\ calls' = calls + 1
  /\ call' = [call EXCEPT ![h] =
       [NoCall EXCEPT !.phase = IF sound /\ signed = hook.secret THEN "look" ELSE "count",
                      !.left = IF sound /\ signed = hook.secret THEN m ELSE <<>>,
                      !.delivered = hook.delivered, !.failed = hook.failed]]
  /\ UNCHANGED <<hook, logged, copies, cves, overlaps, raced>>

\* Fault: only entries with a CVE id are looked for.
FoundByCve(e) == e \in cves

\* _find_existing: by the CVE id, else by the title.
Found(e) == e \in cves \/ copies[TitleOf[e]] > 0

\* A delivery is about to store the title of an entry, and not the same CVE id.
Rivals(c, e) ==
  /\ c.phase = "store" /\ TitleOf[Upcoming(c)] = TitleOf[e]
  /\ ~(Upcoming(c) = e /\ e \in WithCve)

\* The next entry is looked up.
Look(h) ==
  LET e == Upcoming(call[h]) IN
  /\ call[h].phase = "look" /\ e \in AllEntries
  /\ call' = [call EXCEPT ![h] = [@ EXCEPT !.phase = "store", !.found = Found(e)]]
  /\ raced' = IF \E g \in Calls \ {h} : Rivals(call[g], e)
              THEN raced \cup {TitleOf[e]} ELSE raced
  /\ UNCHANGED <<hook, logged, copies, cves, calls, overlaps>>

\* _apply_normalized puts the CVE id of the entry on the vulnerability it is stored as, one
\* of its title, where it may stand in place of another id.
Carried(e, found) ==
  LET same == {d \in cves : TitleOf[d] = TitleOf[e]}
      over == IF ~found \/ Cardinality(same) < copies[TitleOf[e]] THEN {{}} ELSE {}
  IN IF e \in Titled \cup cves THEN {cves}
     ELSE {(cves \ gone) \cup {e} :
             gone \in over \cup (IF found THEN {{d} : d \in same} ELSE {})}

\* upsert_vulnerability commits it.
Upsert(h) ==
  LET c == call[h]  e == Upcoming(c) IN
  /\ c.phase = "store" /\ ~(e \in cves /\ ~c.found)
  /\ copies' = IF c.found THEN copies ELSE [copies EXCEPT ![TitleOf[e]] = @ + 1]
  /\ cves' \in Carried(e, c.found)
  /\ call' = [call EXCEPT ![h] =
       [c EXCEPT !.phase = "look", !.left = Tail(c.left), !.fresh = TRUE]]
  /\ UNCHANGED <<hook, logged, calls, overlaps, raced>>

\* The unique CVE id is taken by now, or the database fails otherwise: the session
\* needs a rollback nobody does, so the answer is a plain 500, not logged.
DatabaseError(h) ==
  /\ call[h].phase = "store" /\ call' = [call EXCEPT ![h] = NoCall]
  /\ UNCHANGED <<hook, logged, copies, cves, calls, overlaps, raced>>

\* An expired row is read again.
Reread(c) == IF c.fresh THEN [delivered |-> hook.delivered, failed |-> hook.failed]
                        ELSE [delivered |-> c.delivered, failed |-> c.failed]

\* All entries are in, or an entry (or the payload) cannot be parsed; what was
\* upserted before it stays.
Ended(h) ==
  LET c == call[h] IN
  /\ c.phase = "look" /\ Upcoming(c) \in {"none", Broken}
  /\ call' = [call EXCEPT ![h] =
       [NoCall EXCEPT !.phase = "count", !.ok = (c.left = <<>>),
                      !.delivered = Reread(c).delivered, !.failed = Reread(c).failed]]
  /\ UNCHANGED <<hook, logged, copies, cves, calls, overlaps, raced>>

HookCounted(c) == IF c.ok THEN [hook EXCEPT !.delivered = c.delivered + 1]
                           ELSE [hook EXCEPT !.failed = c.failed + 1]

\* The commit of the counters and the log row.
Count(h) ==
  LET c == call[h] IN
  /\ c.phase = "count" /\ hook.exists
  /\ hook' = HookCounted(c)
  /\ logged' = IF c.ok THEN [logged EXCEPT !.ok = @ + 1] ELSE [logged EXCEPT !.bad = @ + 1]
  /\ overlaps' = IF \E g \in Calls \ {h} : call[g].phase # "free"
                 THEN overlaps + 1 ELSE overlaps
  /\ call' = [call EXCEPT ![h] = NoCall]
  /\ UNCHANGED <<copies, cves, calls, raced>>

\* The process dies, or the endpoint has been deleted.
CallLost(h) ==
  /\ call[h].phase # "free" /\ call' = [call EXCEPT ![h] = NoCall]
  /\ UNCHANGED <<hook, logged, copies, cves, calls, overlaps, raced>>

HookInit ==
  /\ hook = [enabled |-> TRUE, exists |-> TRUE, secret |-> 1, delivered |-> 0, failed |-> 0]
  /\ logged = [ok |-> 0, bad |-> 0] /\ copies = [t \in Titles |-> 0] /\ cves = {}
  /\ call = [h \in Calls |-> NoCall] /\ calls = 0 /\ overlaps = 0 /\ raced = {}

HookNext ==
  \/ Switch \/ NewSecret \/ Remove
  \/ \E h \in Calls : \/ \E m \in Payloads, signed \in 1 .. 2, sound \in BOOLEAN :
                           ReceiveCall(h, m, signed, sound)
                      \/ Look(h) \/ Upsert(h) \/ DatabaseError(h)
                      \/ Ended(h) \/ Count(h) \/ CallLost(h)

HookSpec == HookInit /\ [][HookNext]_hookVars

-----------------------------------------------------------------------------
(* What a webhook promises *)

\* The counters count the logged deliveries; a commit that overlapped with another
\* delivery loses at most one of them.
CountersHonest ==
  /\ hook.delivered + hook.failed <= logged.ok + logged.bad
  /\ logged.ok + logged.bad <= hook.delivered + hook.failed + overlaps

\* A payload delivered again, after an error, half done, or at the same time, stores
\* nothing twice, nor does an entry whose title is stored under another id; only a title
\* is that two deliveries look for before either stores it, and not for one CVE id.
StoredOnce == \A t \in Titles : copies[t] <= 1 \/ t \in raced

\* Every delivery is accounted for once: in the endpoint's counters, and in the records.
DeliveriesAccounted == CountersHonest /\ StoredOnce
=============================================================================
