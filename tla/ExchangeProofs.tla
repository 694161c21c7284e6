--------------------------- MODULE ExchangeProofs ---------------------------
(***************************************************************************)
(* Proofs about what comes in and goes out: the reports sent on a          *)
(* schedule, the deliveries of a webhook, and the components that an SBOM  *)
(* import leaves and a comparison reports; for any number of schedules,    *)
(* endpoints, documents and versions, and of requests at the same time.    *)
(*                                                                         *)
(* Each property allows what overlapping requests do, and its invariant    *)
(* says what a request that met no other one knows of the rows.            *)
(***************************************************************************)
EXTENDS ReportSchedules, WebhookIngest, SbomImport,
        FiniteSetTheorems, SequenceTheorems, WellFoundedInduction, TLAPS

-----------------------------------------------------------------------------
(* ReportSchedules *)

\* What the delivery columns of a schedule and a run of it hold.
Waits == {RetryWait(n) : n \in Nat}
PlanRow == [life : {"unmade", "made", "gone"}, own : BOOLEAN, form : Forms \cup {"none"},
            status : Statuses, retries : Nat, wait : Waits]
SenderRow == [plan : Plans \cup {"none"}, retries : Nat, status : Statuses, wait : Waits,
              mingled : BOOLEAN]

\* The types, with a wait known as that of some count.
PlanTypes ==
  /\ plan \in [Plans -> PlanRow] /\ sender \in [Senders -> SenderRow]
  /\ streak \in [Plans -> Nat] /\ mingled \subseteq Plans
  /\ form \in [Forms -> {"unmade", "made", "gone"}]

\* What a row tells of n failures.
Tells(row, n) ==
  /\ row.retries = n /\ row.wait = RetryWait(n)
  /\ row.status \in (IF n = 0 THEN {"never", "success"}
                     ELSE IF n < 5 THEN {"retrying"} ELSE {"failed"})

\* The columns of a schedule say how its deliveries went, unless two runs met; a schedule not
\* made yet has had none; a schedule made has recipients.
Truthful(p) == plan[p].life # "gone" /\ p \notin mingled => Tells(plan[p], streak[p])
Fresh(p) == plan[p].life = "unmade" => streak[p] = 0
Addressed(p) == plan[p].life = "made" => plan[p].own

\* A run that no other has met is the only one of its schedule, and the row is still
\* as it has loaded it.
RunsAlone(h) ==
  sender[h].plan \in Plans =>
    /\ plan[sender[h].plan].life # "unmade"
    /\ ~sender[h].mingled =>
         /\ \A g \in Senders \ {h} : sender[g].plan # sender[h].plan
         /\ sender[h].retries = plan[sender[h].plan].retries
         /\ sender[h].status = plan[sender[h].plan].status
         /\ sender[h].wait = plan[sender[h].plan].wait

\* The inductive invariant.
PInv ==
  /\ PlanTypes
  /\ \A p \in Plans : Truthful(p) /\ Fresh(p) /\ Addressed(p)
  /\ \A h \in Senders : RunsAlone(h)

\* A schedule that never failed does not wait.
LEMMA NoWait == 0 \in Waits /\ RetryWait(0) = 0
<1>1. RetryWait(0) = 0 BY DEF RetryWait
<1> QED BY <1>1 DEF Waits

\* A schedule that is not made, and a run that is not there, are of their types.
LEMMA PlanSentinels == NoPlan \in PlanRow /\ NotSending \in SenderRow
BY NoWait DEF NoPlan, NotSending, PlanRow, SenderRow, Statuses

\* At first no schedule is made.
LEMMA PlanInitInv == PlanInit => PInv
<1> SUFFICES ASSUME PlanInit PROVE PInv
  OBVIOUS
<1>1. PlanTypes BY PlanSentinels DEF PlanInit, PlanTypes
<1>2. ASSUME NEW p \in Plans PROVE Truthful(p) /\ Fresh(p) /\ Addressed(p)
  <2>1. plan[p] = NoPlan /\ streak[p] = 0 BY DEF PlanInit
  <2> QED BY <2>1, NoWait DEF Truthful, Fresh, Addressed, Tells, NoPlan
<1>3. ASSUME NEW h \in Senders PROVE RunsAlone(h)
  BY PlanAssumption DEF PlanInit, RunsAlone, NotSending
<1> QED BY <1>1, <1>2, <1>3 DEF PInv

-----------------------------------------------------------------------------
\* Edits of a schedule leave its delivery columns alone.
LEMMA EditStep ==
  ASSUME PInv, plan' \in [Plans -> PlanRow],
         \A q \in Plans : /\ plan'[q].retries = plan[q].retries
                          /\ plan'[q].status = plan[q].status /\ plan'[q].wait = plan[q].wait
                          /\ plan'[q].life # plan[q].life =>
                               plan'[q].life = "gone" /\ plan[q].life # "gone"
                          /\ plan'[q].own = plan[q].own,
         form' \in [Forms -> {"unmade", "made", "gone"}],
         UNCHANGED <<sender, streak, mingled>>
  PROVE  PInv'
<1>1. PlanTypes' BY DEF PInv, PlanTypes
<1>2. ASSUME NEW q \in Plans PROVE Truthful(q)' /\ Fresh(q)' /\ Addressed(q)'
  BY DEF PInv, Truthful, Fresh, Addressed, Tells
<1>3. ASSUME NEW h \in Senders PROVE RunsAlone(h)'
  BY DEF PInv, RunsAlone
<1> QED BY <1>1, <1>2, <1>3 DEF PInv

\* A template deleted leaves its schedules without it.
LEMMA DropFormStep ==
  ASSUME PInv, NEW f \in Forms, DropForm(f)
  PROVE  PInv'
<1>1. ASSUME NEW q \in Plans
      PROVE  /\ plan'[q] \in PlanRow /\ plan'[q].retries = plan[q].retries
             /\ plan'[q].status = plan[q].status /\ plan'[q].wait = plan[q].wait
             /\ plan'[q].life = plan[q].life /\ plan'[q].own = plan[q].own
  <2>1. plan[q] \in PlanRow BY DEF PInv, PlanTypes
  <2>2. plan'[q] = plan[q] \/ plan'[q] = [plan[q] EXCEPT !.form = "none"] BY DEF DropForm
  <2> QED BY <2>1, <2>2 DEF PlanRow
<1>2. plan' \in [Plans -> PlanRow] BY <1>1 DEF DropForm
<1>3. form' \in [Forms -> {"unmade", "made", "gone"}] BY DEF DropForm, PInv, PlanTypes
<1>4. UNCHANGED <<sender, streak, mingled>> BY DEF DropForm
<1> QED BY <1>1, <1>2, <1>3, <1>4, EditStep

\* The other edits change one schedule.
LEMMA OnePlanEdited ==
  ASSUME PInv, NEW p \in Plans, \/ DropPlan(p)
                                \/ \E f \in Forms \cup {"none"} : FollowForm(p, f)
  PROVE  PInv'
<1>1. plan[p] \in PlanRow /\ plan \in [Plans -> PlanRow] BY DEF PInv, PlanTypes
<1>2. CASE DropPlan(p)
  <2>1. plan' = [plan EXCEPT ![p] = [plan[p] EXCEPT !.life = "gone"]] BY <1>2 DEF DropPlan
  <2>2. [plan[p] EXCEPT !.life = "gone"] \in PlanRow BY <1>1 DEF PlanRow
  <2>3. plan' \in [Plans -> PlanRow] BY <1>1, <2>1, <2>2
  <2>4. \A q \in Plans : /\ plan'[q].retries = plan[q].retries
                         /\ plan'[q].status = plan[q].status /\ plan'[q].wait = plan[q].wait
                         /\ plan'[q].life # plan[q].life =>
                              plan'[q].life = "gone" /\ plan[q].life # "gone"
                         /\ plan'[q].own = plan[q].own
    BY <1>1, <2>1 DEF PlanRow
  <2>5. form' \in [Forms -> {"unmade", "made", "gone"}] /\ UNCHANGED <<sender, streak, mingled>>
    BY <1>2 DEF DropPlan, PInv, PlanTypes
  <2> QED BY <2>3, <2>4, <2>5, EditStep
<1>3. ASSUME NEW f \in Forms \cup {"none"}, FollowForm(p, f) PROVE PInv'
  <2>1. plan' = [plan EXCEPT ![p] = [plan[p] EXCEPT !.form = f]] BY <1>3 DEF FollowForm
  <2>2. [plan[p] EXCEPT !.form = f] \in PlanRow BY <1>1 DEF PlanRow
  <2>3. plan' \in [Plans -> PlanRow] BY <1>1, <2>1, <2>2
  <2>4. \A q \in Plans : /\ plan'[q].retries = plan[q].retries
                         /\ plan'[q].status = plan[q].status /\ plan'[q].wait = plan[q].wait
                         /\ plan'[q].life = plan[q].life
                         /\ plan'[q].own = plan[q].own
    BY <1>1, <2>1 DEF PlanRow
  <2>5. form' \in [Forms -> {"unmade", "made", "gone"}] /\ UNCHANGED <<sender, streak, mingled>>
    BY <1>3 DEF FollowForm, PInv, PlanTypes
  <2> QED BY <2>3, <2>4, <2>5, EditStep
<1> QED BY <1>2, <1>3

\* A schedule is made with recipients and no history.
LEMMA MakePlanStep ==
  ASSUME PInv, NEW p \in Plans, NEW f \in Forms \cup {"none"}, NEW given \in BOOLEAN,
         MakePlan(p, f, given)
  PROVE  PInv'
<1> DEFINE row == [NoPlan EXCEPT !.life = "made", !.form = f, !.own = OwnRecipients(f, given)]
<1>1. /\ row \in PlanRow /\ row.own /\ row.life = "made" /\ row.retries = 0
      /\ row.status = "never" /\ row.wait = 0
  BY NoWait DEF MakePlan, OwnRecipients, NoPlan, PlanRow, Statuses
<1>2. plan' = [plan EXCEPT ![p] = row] /\ UNCHANGED <<form, sender, streak, mingled>>
      /\ plan[p].life = "unmade"
  BY DEF MakePlan
<1> HIDE DEF row
<1>3. PlanTypes' BY <1>1, <1>2 DEF PInv, PlanTypes
<1>4. \A q \in Plans : plan'[q] = IF q = p THEN row ELSE plan[q] BY <1>2 DEF PInv, PlanTypes
<1>5. ASSUME NEW q \in Plans PROVE Truthful(q)' /\ Fresh(q)' /\ Addressed(q)'
  <2>1. CASE q = p
    <3>1. streak'[q] = 0 BY <1>2, <2>1 DEF PInv, Fresh
    <3> QED BY <1>1, <1>4, <2>1, <3>1, NoWait DEF Truthful, Fresh, Addressed, Tells
  <2>2. CASE q # p BY <1>2, <1>4, <2>2 DEF PInv, Truthful, Fresh, Addressed
  <2> QED BY <2>1, <2>2
<1>6. ASSUME NEW h \in Senders PROVE RunsAlone(h)'
  <2>1. sender[h].plan # p BY <1>2 DEF PInv, RunsAlone
  <2> QED BY <1>2, <1>4, <2>1 DEF PInv, RunsAlone
<1> QED BY <1>3, <1>5, <1>6 DEF PInv

-----------------------------------------------------------------------------
\* A run that meets another is mingled, and so is the other.
LEMMA RunStep ==
  ASSUME PInv, NEW h \in Senders, NEW p \in Plans, Run(h, p)
  PROVE  PInv'
<1> DEFINE meets == \E g \in Senders : sender[g].plan = p
           new == [plan |-> p, retries |-> plan[p].retries, status |-> plan[p].status,
                   wait |-> plan[p].wait, mingled |-> meets]
<1>1. plan[p] \in PlanRow /\ sender \in [Senders -> SenderRow] BY DEF PInv, PlanTypes
<1>2. new \in SenderRow /\ new.plan = p /\ new.mingled = meets
      /\ new.retries = plan[p].retries /\ new.status = plan[p].status /\ new.wait = plan[p].wait
  BY <1>1 DEF PlanRow, SenderRow
<1>3. /\ sender' = [g \in Senders |->
            IF g = h THEN new
            ELSE IF sender[g].plan = p THEN [sender[g] EXCEPT !.mingled = TRUE] ELSE sender[g]]
      /\ UNCHANGED <<form, plan, streak, mingled>> /\ plan[p].life = "made"
      /\ sender[h].plan = "none"
  BY DEF Run, Planned, NotSending
<1> HIDE DEF new
<1>4. ASSUME NEW g \in Senders \ {h}
      PROVE  /\ sender'[g] \in SenderRow /\ sender'[g].plan = sender[g].plan
             /\ sender[g].plan # p => sender'[g] = sender[g]
             /\ sender[g].plan = p => sender'[g].mingled
  <2>1. sender[g] \in SenderRow BY <1>1
  <2>2. CASE sender[g].plan = p
    <3>1. sender'[g] = [sender[g] EXCEPT !.mingled = TRUE] BY <1>3, <2>2
    <3> QED BY <2>1, <2>2, <3>1 DEF SenderRow
  <2>3. CASE sender[g].plan # p BY <1>3, <2>1, <2>3
  <2> QED BY <2>2, <2>3
<1>5. sender'[h] = new BY <1>3
<1>6. PlanTypes'
  <2>1. sender' \in [Senders -> SenderRow] BY <1>2, <1>3, <1>4, <1>5
  <2> QED BY <1>3, <2>1 DEF PInv, PlanTypes
<1>7. ASSUME NEW q \in Plans PROVE Truthful(q)' /\ Fresh(q)' /\ Addressed(q)'
  BY <1>3 DEF PInv, Truthful, Fresh, Addressed
<1>8. RunsAlone(h)'
  <2>1. ~meets => \A g \in Senders \ {h} : sender'[g].plan # p BY <1>4
  <2> HIDE DEF meets
  <2> QED BY <1>2, <1>3, <1>5, <2>1 DEF RunsAlone
<1>9. ASSUME NEW g \in Senders \ {h} PROVE RunsAlone(g)'
  <2>1. CASE sender[g].plan = p BY <1>3, <1>4, <2>1 DEF RunsAlone
  <2>2. CASE sender[g].plan # p
    <3>1. sender'[g] = sender[g] BY <1>4, <2>2
    <3>2. \A k \in Senders \ {g} :
            sender[k].plan # sender[g].plan => k = h \/ sender'[k].plan # sender'[g].plan
      BY <1>4, <3>1
    <3>3. sender'[h].plan # sender'[g].plan BY <1>2, <1>5, <2>2, <3>1
    <3>4. RunsAlone(g) BY DEF PInv
    <3> QED BY <1>3, <3>1, <3>2, <3>3, <3>4 DEF RunsAlone
  <2> QED BY <2>1, <2>2
<1> QED BY <1>6, <1>7, <1>8, <1>9 DEF PInv

\* What a run that has met no other writes is what it marks.
LEMMA MarkedTells ==
  ASSUME NEW ok \in BOOLEAN, NEW n \in Nat
  PROVE  /\ Marked(ok, n).retries \in Nat /\ Marked(ok, n).wait \in Waits
         /\ Marked(ok, n).status \in Statuses
         /\ Tells(Marked(ok, n), IF ok THEN 0 ELSE n + 1)
<1>1. CASE ok
  <2>1. Marked(ok, n) = [retries |-> 0, wait |-> 0, status |-> "success"]
    BY <1>1 DEF Marked, Counted
  <2>2. Tells(Marked(ok, n), 0) BY <2>1, NoWait DEF Tells
  <2>3. /\ Marked(ok, n).retries \in Nat /\ Marked(ok, n).wait \in Waits
        /\ Marked(ok, n).status \in Statuses
    BY <2>1, NoWait DEF Statuses
  <2>4. (IF ok THEN 0 ELSE n + 1) = 0 BY <1>1
  <2> QED BY <2>2, <2>3, <2>4
<1>2. CASE ~ok
  <2>1. Marked(ok, n) = [retries |-> n + 1, wait |-> RetryWait(n + 1),
                         status |-> IF n + 1 < 5 THEN "retrying" ELSE "failed"]
    BY <1>2 DEF Marked, Counted
  <2>2. n + 1 # 0 /\ n + 1 \in Nat OBVIOUS
  <2>3. RetryWait(n + 1) \in Waits BY <2>2 DEF Waits
  <2> QED BY <1>2, <2>1, <2>2, <2>3 DEF Tells, Statuses
<1> QED BY <1>1, <1>2

\* A run that records its outcome counts on from what it loaded.
LEMMA RecordStep ==
  ASSUME PInv, NEW h \in Senders, NEW ok \in BOOLEAN, Record(h, ok)
  PROVE  PInv'
<1> DEFINE s == sender[h]
           p == s.plan
           to == Marked(ok, s.retries)
           row == plan[p]
           new == [life |-> row.life, own |-> row.own, form |-> row.form,
                   retries |-> IF to.retries = s.retries THEN row.retries ELSE to.retries,
                   status |-> IF to.status = s.status THEN row.status ELSE to.status,
                   wait |-> IF to.wait = s.wait THEN row.wait ELSE to.wait]
           count == IF ok THEN 0 ELSE streak[p] + 1
<1>1. /\ p \in Plans /\ row.life = "made"
      /\ plan' = [plan EXCEPT ![p] = new] /\ streak' = [streak EXCEPT ![p] = count]
      /\ mingled' = (IF s.mingled THEN mingled \cup {p}
                     ELSE IF ok THEN mingled \ {p} ELSE mingled)
      /\ sender' = [sender EXCEPT ![h] = NotSending] /\ form' = form
  BY DEF Record, Planned
<1>2. row \in PlanRow /\ s \in SenderRow /\ streak[p] \in Nat
  BY <1>1 DEF PInv, PlanTypes
<1>3. to.retries \in Nat /\ to.wait \in Waits /\ to.status \in Statuses
  BY <1>2, MarkedTells DEF SenderRow
<1>4. new \in PlanRow /\ new.life = "made" /\ new.own = row.own
  BY <1>1, <1>2, <1>3 DEF PlanRow
<1>5. ~s.mingled => new.retries = to.retries /\ new.status = to.status /\ new.wait = to.wait
  <2>1. ~s.mingled => s.retries = row.retries /\ s.status = row.status /\ s.wait = row.wait
    BY <1>1 DEF PInv, RunsAlone
  <2> QED BY <2>1
<1>6. ~s.mingled /\ (ok \/ p \notin mingled) => Tells(new, count)
  <2> SUFFICES ASSUME ~s.mingled, ok \/ p \notin mingled PROVE Tells(new, count)
    OBVIOUS
  <2>1. Tells(to, IF ok THEN 0 ELSE s.retries + 1) BY <1>2, MarkedTells DEF SenderRow
  <2>2. ~ok => s.retries = streak[p]
    BY <1>1 DEF PInv, Truthful, Tells, RunsAlone
  <2>3. (IF ok THEN 0 ELSE s.retries + 1) = count BY <2>2
  <2>4. Tells(to, count) BY <2>1, <2>3
  <2> HIDE DEF new, to, count
  <2> QED BY <1>5, <2>4 DEF Tells
<1>7. NotSending \in SenderRow BY PlanSentinels
<1>8. count \in Nat BY <1>2
<1> HIDE DEF new, count
<1>9. PlanTypes' BY <1>1, <1>4, <1>7, <1>8 DEF PInv, PlanTypes
<1>10. /\ \A q \in Plans : plan'[q] = IF q = p THEN new ELSE plan[q]
       /\ \A q \in Plans : streak'[q] = IF q = p THEN count ELSE streak[q]
       /\ \A g \in Senders : sender'[g] = IF g = h THEN NotSending ELSE sender[g]
  BY <1>1 DEF PInv, PlanTypes
<1>11. ASSUME NEW q \in Plans PROVE Truthful(q)' /\ Fresh(q)' /\ Addressed(q)'
  <2>1. CASE q = p
    <3>1. p \notin mingled' => ~s.mingled /\ (ok \/ p \notin mingled) BY <1>1
    <3>2. Truthful(q)' BY <1>6, <1>10, <2>1, <3>1 DEF Truthful
    <3>3. Addressed(p) BY <1>1 DEF PInv
    <3> QED BY <1>1, <1>4, <1>10, <2>1, <3>2, <3>3 DEF Fresh, Addressed
  <2>2. CASE q # p
    <3>1. q \in mingled' <=> q \in mingled BY <1>1, <2>2
    <3> QED BY <1>10, <2>2, <3>1 DEF PInv, Truthful, Fresh, Addressed
  <2> QED BY <2>1, <2>2
<1>12. ASSUME NEW g \in Senders PROVE RunsAlone(g)'
  <2>1. CASE g = h BY <1>10, <2>1, PlanAssumption DEF RunsAlone, NotSending
  <2>2. CASE g # h
    <3>1. sender'[g] = sender[g] BY <1>10, <2>2
    <3>2. sender[g].plan \in Plans => plan'[sender[g].plan].life # "unmade"
      BY <1>4, <1>10 DEF PInv, RunsAlone
    <3>3. ASSUME sender[g].plan \in Plans, ~sender[g].mingled
          PROVE  /\ \A k \in Senders \ {g} : sender'[k].plan # sender[g].plan
                 /\ plan'[sender[g].plan] = plan[sender[g].plan]
      <4>1. \A k \in Senders \ {g} : sender[k].plan # sender[g].plan
        BY <3>3 DEF PInv, RunsAlone
      <4>2. sender[g].plan # p BY <2>2, <4>1
      <4>3. NotSending.plan # sender[g].plan BY <3>3, PlanAssumption DEF NotSending
      <4> QED BY <1>10, <3>3, <4>1, <4>2, <4>3
    <3>4. RunsAlone(g) BY DEF PInv
    <3> QED BY <3>1, <3>2, <3>3, <3>4 DEF RunsAlone
  <2> QED BY <2>1, <2>2
<1> QED BY <1>9, <1>11, <1>12 DEF PInv

\* A run that is lost has written nothing.
LEMMA RunLostStep ==
  ASSUME PInv, NEW h \in Senders, RunLost(h)
  PROVE  PInv'
<1>1. /\ \A g \in Senders : sender'[g] = IF g = h THEN NotSending ELSE sender[g]
      /\ UNCHANGED <<form, plan, streak, mingled>>
  BY DEF RunLost, PInv, PlanTypes
<1>2. PlanTypes' BY PlanSentinels DEF RunLost, PInv, PlanTypes
<1>3. ASSUME NEW q \in Plans PROVE Truthful(q)' /\ Fresh(q)' /\ Addressed(q)'
  BY <1>1 DEF PInv, Truthful, Fresh, Addressed
<1>4. ASSUME NEW g \in Senders PROVE RunsAlone(g)'
  <2>1. NotSending.plan \notin Plans BY PlanAssumption DEF NotSending
  <2>2. CASE g = h BY <1>1, <2>1, <2>2 DEF RunsAlone
  <2>3. CASE g # h BY <1>1, <2>1, <2>3 DEF PInv, RunsAlone
  <2> QED BY <2>2, <2>3
<1> QED BY <1>2, <1>3, <1>4 DEF PInv

\* Every step keeps the invariant.
LEMMA PlanStep == PInv /\ [PlanNext]_planVars => PInv'
<1> SUFFICES ASSUME PInv, [PlanNext]_planVars PROVE PInv'
  OBVIOUS
<1>1. ASSUME UNCHANGED <<plan, sender, streak, mingled>>,
             form' \in [Forms -> {"unmade", "made", "gone"}]
      PROVE  PInv'
  BY <1>1 DEF PInv, PlanTypes, Truthful, Fresh, Addressed, RunsAlone
<1>2. ASSUME NEW f \in Forms, MakeForm(f) PROVE PInv'
  BY <1>1, <1>2 DEF MakeForm, PInv, PlanTypes
<1>3. CASE UNCHANGED planVars BY <1>1, <1>3 DEF planVars, PInv, PlanTypes
<1> QED
  BY <1>2, <1>3, DropFormStep, OnePlanEdited, MakePlanStep, RunStep, RecordStep, RunLostStep
     DEF PlanNext

THEOREM SchedulesStaySound == PlanSpec => []ScheduleSound
<1>1. PlanInit => PInv BY PlanInitInv
<1>2. PInv /\ [PlanNext]_planVars => PInv' BY PlanStep
<1>3. PInv => ScheduleSound
  BY DEF PInv, ScheduleSound, RetryStateHonest, NeverAddressless, Planned, Truthful, Tells,
         Addressed
<1> QED BY <1>1, <1>2, <1>3, PTL DEF PlanSpec

-----------------------------------------------------------------------------
(* WebhookIngest *)

\* What a call holds, and the row of the endpoint.
CallRow == [phase : {"free", "look", "store", "count"}, left : Seq(AllEntries \cup {Broken}),
            found : BOOLEAN, ok : BOOLEAN, fresh : BOOLEAN, delivered : Nat, failed : Nat]
HookRow == [enabled : BOOLEAN, exists : BOOLEAN, secret : 1 .. 2, delivered : Nat, failed : Nat]

\* The types, without the bound on the deliveries.
HookTypes ==
  /\ hook \in HookRow /\ logged \in [ok : Nat, bad : Nat]
  /\ copies \in [Titles -> Nat] /\ cves \subseteq WithCve /\ overlaps \in Nat
  /\ call \in [Calls -> CallRow] /\ raced \subseteq Titles

\* No counter, stored or loaded, is ahead of the log.
NeverAhead ==
  /\ hook.delivered <= logged.ok /\ hook.failed <= logged.bad
  /\ \A h \in Calls : call[h].delivered <= logged.ok /\ call[h].failed <= logged.bad

\* Of the commits that overlapped, so many logged a success and so many a failure that
\* no counter, stored or loaded by a delivery in progress, is further behind than that.
Behind(a, b) ==
  /\ logged.ok <= hook.delivered + a /\ logged.bad <= hook.failed + b
  /\ \A h \in Calls : call[h].phase # "free" =>
       logged.ok <= call[h].delivered + a /\ logged.bad <= call[h].failed + b

\* The commits that overlapped explain how far the counters are behind.
LagAccounted == \E a, b \in Nat : a + b = overlaps /\ Behind(a, b)

\* A delivery about to store a title that is not raced for is the only one but for those
\* of the same CVE id, and stores a new one only when there is none.
StoresAlone(h) ==
  call[h].phase = "store" =>
    LET e == Upcoming(call[h]) IN
    /\ e \in AllEntries
    /\ TitleOf[e] \notin raced =>
         /\ \A g \in Calls \ {h} : ~Rivals(call[g], e)
         /\ ~call[h].found => copies[TitleOf[e]] = 0 \/ e \in cves

\* The inductive invariant.
WInv ==
  /\ HookTypes /\ NeverAhead /\ LagAccounted
  /\ (\A h \in Calls : StoresAlone(h)) /\ StoredOnce

\* A free handler is of its type.
LEMMA NoCallRow == NoCall \in CallRow
BY DEF NoCall, CallRow

\* At first there are no deliveries.
LEMMA HookInitInv == HookInit => WInv
<1> SUFFICES ASSUME HookInit PROVE WInv
  OBVIOUS
<1>1. HookTypes BY NoCallRow DEF HookInit, HookTypes, HookRow
<1>2. \A h \in Calls : call[h] = NoCall BY DEF HookInit
<1>3. NeverAhead BY <1>2 DEF HookInit, NeverAhead, NoCall
<1>4. LagAccounted
  <2>1. Behind(0, 0) BY <1>2 DEF HookInit, Behind, NoCall
  <2> QED BY <2>1 DEF HookInit, LagAccounted
<1>5. \A h \in Calls : StoresAlone(h) BY <1>2 DEF StoresAlone, NoCall
<1>6. StoredOnce BY DEF HookInit, StoredOnce
<1> QED BY <1>1, <1>3, <1>4, <1>5, <1>6 DEF WInv

-----------------------------------------------------------------------------
\* Loading the counters, keeping them and dropping them brings no call ahead of the log
\* or behind the endpoint.
LEMMA CountersLoaded ==
  ASSUME WInv, logged' = logged, overlaps' = overlaps,
         hook'.delivered = hook.delivered, hook'.failed = hook.failed,
         \A k \in Calls :
           \/ /\ call'[k].phase = "free" /\ call'[k].delivered = 0 /\ call'[k].failed = 0
           \/ /\ call'[k].delivered = hook.delivered /\ call'[k].failed = hook.failed
           \/ /\ call'[k].delivered = call[k].delivered /\ call'[k].failed = call[k].failed
              /\ call[k].phase = "free" => call'[k].phase = "free"
  PROVE  NeverAhead' /\ LagAccounted'
<1>1. logged.ok \in Nat /\ logged.bad \in Nat BY DEF WInv, HookTypes
<1>2. NeverAhead' BY <1>1 DEF WInv, NeverAhead
<1>3. PICK a \in Nat, b \in Nat : a + b = overlaps /\ Behind(a, b) BY DEF WInv, LagAccounted
<1>4. Behind(a, b)' BY <1>3 DEF Behind
<1> QED BY <1>2, <1>3, <1>4 DEF LagAccounted

\* Whoever does not begin to store disturbs no one who does.
LEMMA NothingStored ==
  ASSUME WInv, copies' = copies, cves' = cves, raced' = raced,
         \A k \in Calls : call'[k].phase = "store" => call'[k] = call[k]
  PROVE  (\A k \in Calls : StoresAlone(k)') /\ StoredOnce'
<1>1. StoredOnce' BY DEF WInv, StoredOnce
<1>2. ASSUME NEW k \in Calls, call'[k].phase = "store" PROVE StoresAlone(k)'
  <2>1. call'[k] = call[k] BY <1>2
  <2>2. StoresAlone(k) BY DEF WInv
  <2>3. \A g \in Calls \ {k} : \A e : Rivals(call'[g], e) => Rivals(call[g], e)
    BY DEF Rivals
  <2> QED BY <1>2, <2>1, <2>2, <2>3 DEF StoresAlone
<1>3. \A k \in Calls : StoresAlone(k)' BY <1>2 DEF StoresAlone
<1> QED BY <1>1, <1>3

\* The endpoint is changed, or nothing is.
LEMMA AdminStep ==
  ASSUME WInv, Switch \/ NewSecret \/ Remove \/ UNCHANGED hookVars
  PROVE  WInv'
<1>1. UNCHANGED <<logged, copies, cves, call, overlaps, raced>>
  BY DEF Switch, NewSecret, Remove, hookVars
<1>2. hook \in HookRow BY DEF WInv, HookTypes
<1>3. hook' \in HookRow /\ hook'.delivered = hook.delivered /\ hook'.failed = hook.failed
  <2>1. CASE Switch
    <3>1. hook' = [hook EXCEPT !.enabled = ~hook.enabled] BY <2>1 DEF Switch
    <3> QED BY <1>2, <3>1 DEF HookRow
  <2>2. CASE NewSecret
    <3>1. hook' = [hook EXCEPT !.secret = 2] BY <2>2 DEF NewSecret
    <3> QED BY <1>2, <3>1 DEF HookRow
  <2>3. CASE Remove
    <3>1. hook' = [hook EXCEPT !.exists = FALSE, !.enabled = FALSE] BY <2>3 DEF Remove
    <3> QED BY <1>2, <3>1 DEF HookRow
  <2>4. CASE UNCHANGED hookVars BY <1>2, <2>4 DEF hookVars
  <2> QED BY <2>1, <2>2, <2>3, <2>4
<1>4. HookTypes' BY <1>1, <1>3 DEF WInv, HookTypes
<1>5. NeverAhead' /\ LagAccounted'
  <2>1. \A k \in Calls :
          /\ call'[k].delivered = call[k].delivered /\ call'[k].failed = call[k].failed
          /\ call[k].phase = "free" => call'[k].phase = "free"
    BY <1>1
  <2> QED BY <1>1, <1>3, <2>1, CountersLoaded
<1>6. (\A k \in Calls : StoresAlone(k)') /\ StoredOnce' BY <1>1, NothingStored
<1> QED BY <1>4, <1>5, <1>6 DEF WInv

\* A delivery comes, or one in progress ends before its counters are written, or gets
\* to that point: only its own row changes, and it does not begin to store.
LEMMA CallStep ==
  ASSUME WInv, NEW h \in Calls, NEW c \in CallRow, call' = [call EXCEPT ![h] = c],
         UNCHANGED <<hook, logged, copies, cves, overlaps, raced>>, c.phase # "store",
         \/ c = NoCall
         \/ c.delivered = hook.delivered /\ c.failed = hook.failed
         \/ /\ c.delivered = call[h].delivered /\ c.failed = call[h].failed
            /\ call[h].phase # "free"
  PROVE  WInv'
<1>1. \A k \in Calls : call'[k] = IF k = h THEN c ELSE call[k] BY DEF WInv, HookTypes
<1>2. HookTypes' BY DEF WInv, HookTypes
<1>3. NeverAhead' /\ LagAccounted'
  <2>1. c = NoCall => c.phase = "free" /\ c.delivered = 0 /\ c.failed = 0 BY DEF NoCall
  <2> QED BY <1>1, <2>1, CountersLoaded
<1>4. (\A k \in Calls : StoresAlone(k)') /\ StoredOnce' BY <1>1, NothingStored
<1> QED BY <1>2, <1>3, <1>4 DEF WInv

\* A call that comes in loads the counters as they are.
LEMMA ReceiveStep ==
  ASSUME WInv, NEW h \in Calls, NEW m \in Payloads, NEW signed \in 1 .. 2,
         NEW sound \in BOOLEAN, ReceiveCall(h, m, signed, sound)
  PROVE  WInv'
<1> DEFINE phase == IF sound /\ signed = hook.secret THEN "look" ELSE "count"
           left == IF sound /\ signed = hook.secret THEN m ELSE <<>>
           c == [NoCall EXCEPT !.phase = phase, !.left = left,
                               !.delivered = hook.delivered, !.failed = hook.failed]
<1>1. hook.delivered \in Nat /\ hook.failed \in Nat BY DEF WInv, HookTypes, HookRow
<1>2. left \in Seq(AllEntries \cup {Broken}) BY HookAssumption DEF AllEntries, Broken
<1>3. phase \in {"look", "count"} OBVIOUS
<1>4. call' = [call EXCEPT ![h] = c] /\ UNCHANGED <<hook, logged, copies, cves, overlaps, raced>>
  BY DEF ReceiveCall
<1> HIDE DEF phase, left
<1>5. /\ c \in CallRow /\ c.phase = phase
      /\ c.delivered = hook.delivered /\ c.failed = hook.failed
  BY <1>1, <1>2, <1>3, NoCallRow DEF CallRow
<1> HIDE DEF c
<1> QED BY <1>3, <1>4, <1>5, CallStep

\* A call that ends without a commit leaves everything as it was.
LEMMA CallOver ==
  ASSUME WInv, NEW h \in Calls, DatabaseError(h) \/ CallLost(h)
  PROVE  WInv'
<1>1. NoCall.phase # "store" BY DEF NoCall
<1>2. call' = [call EXCEPT ![h] = NoCall] /\ UNCHANGED <<hook, logged, copies, cves, overlaps, raced>>
  BY DEF DatabaseError, CallLost
<1> QED BY <1>1, <1>2, NoCallRow, CallStep

\* What is counted on is what was loaded, or is read again.
LEMMA EndedStep ==
  ASSUME WInv, NEW h \in Calls, Ended(h)
  PROVE  WInv'
<1> DEFINE d == [NoCall EXCEPT !.phase = "count", !.ok = (call[h].left = <<>>),
                               !.delivered = Reread(call[h]).delivered,
                               !.failed = Reread(call[h]).failed]
<1>1. hook \in HookRow /\ call[h] \in CallRow BY DEF WInv, HookTypes
<1>2. /\ Reread(call[h]).delivered \in Nat /\ Reread(call[h]).failed \in Nat
      /\ \/ /\ Reread(call[h]).delivered = hook.delivered
            /\ Reread(call[h]).failed = hook.failed
         \/ /\ Reread(call[h]).delivered = call[h].delivered
            /\ Reread(call[h]).failed = call[h].failed
  BY <1>1 DEF Reread, HookRow, CallRow
<1>3. /\ d \in CallRow /\ d.phase = "count"
      /\ d.delivered = Reread(call[h]).delivered /\ d.failed = Reread(call[h]).failed
  <2> DEFINE ok == call[h].left = <<>>
  <2>1. ok \in BOOLEAN OBVIOUS
  <2> HIDE DEF ok
  <2>2. [NoCall EXCEPT !.phase = "count", !.ok = ok,
                       !.delivered = Reread(call[h]).delivered,
                       !.failed = Reread(call[h]).failed] \in CallRow
    BY <1>2, <2>1, NoCallRow DEF CallRow
  <2> QED BY <2>2, NoCallRow DEF ok, CallRow
<1>4. /\ call' = [call EXCEPT ![h] = d] /\ call[h].phase = "look"
      /\ UNCHANGED <<hook, logged, copies, cves, overlaps, raced>>
  BY DEF Ended
<1> HIDE DEF d
<1> QED BY <1>2, <1>3, <1>4, CallStep

-----------------------------------------------------------------------------
\* A look finds what is stored, and a race when another is about to store it.
LEMMA LookStep ==
  ASSUME WInv, NEW h \in Calls, Look(h)
  PROVE  WInv'
<1> DEFINE e == Upcoming(call[h])
           c == [call[h] EXCEPT !.phase = "store", !.found = Found(e)]
<1>1. call[h] \in CallRow /\ call \in [Calls -> CallRow] BY DEF WInv, HookTypes
<1>2. /\ c \in CallRow /\ c.phase = "store" /\ c.found = Found(e) /\ c.left = call[h].left
      /\ c.delivered = call[h].delivered /\ c.failed = call[h].failed
  <2>1. Found(e) \in BOOLEAN BY DEF Found
  <2> QED BY <1>1, <2>1 DEF CallRow
<1>3. /\ e \in AllEntries /\ call[h].phase = "look" /\ call' = [call EXCEPT ![h] = c]
      /\ UNCHANGED <<hook, logged, copies, cves, overlaps>>
      /\ raced' = IF \E g \in Calls \ {h} : Rivals(call[g], e)
                  THEN raced \cup {TitleOf[e]} ELSE raced
  BY DEF Look
<1>4. Upcoming(c) = e BY <1>2 DEF Upcoming
<1> HIDE DEF c
<1>5. \A k \in Calls : call'[k] = IF k = h THEN c ELSE call[k] BY <1>1, <1>3
<1>6. HookTypes' BY <1>1, <1>2, <1>3 DEF WInv, HookTypes, Titles
<1>7. NeverAhead' /\ LagAccounted'
  <2>1. \A k \in Calls :
          /\ call'[k].delivered = call[k].delivered /\ call'[k].failed = call[k].failed
          /\ call[k].phase = "free" => call'[k].phase = "free"
    BY <1>2, <1>3, <1>5
  <2> QED BY <1>3, <2>1, CountersLoaded
<1>8. StoredOnce' BY <1>3 DEF WInv, StoredOnce
<1>9. StoresAlone(h)'
  <2>1. TitleOf[e] \notin raced' => \A g \in Calls \ {h} : ~Rivals(call'[g], e)
    BY <1>3, <1>5
  <2>2. TitleOf[e] \in Titles /\ copies[TitleOf[e]] \in Nat
    BY <1>3 DEF WInv, HookTypes, Titles
  <2>3. ~c.found => copies'[TitleOf[e]] = 0
    <3>1. ~Found(e) => copies[TitleOf[e]] = 0 BY <2>2 DEF Found
    <3>2. c.found <=> Found(e) BY <1>2
    <3> QED BY <1>3, <3>1, <3>2
  <2>4. call'[h] = c BY <1>5
  <2> QED BY <1>3, <1>4, <2>1, <2>3, <2>4 DEF StoresAlone
<1>10. ASSUME NEW k \in Calls, k # h, call'[k].phase = "store" PROVE StoresAlone(k)'
  <2> DEFINE f == Upcoming(call[k])
  <2>1. call'[k] = call[k] /\ StoresAlone(k) BY <1>5, <1>10 DEF WInv
  <2>2. TitleOf[f] \notin raced' => TitleOf[f] \notin raced /\ ~Rivals(call[k], e)
    <3>1. ~Rivals(call[k], e) \/ TitleOf[f] = TitleOf[e] BY DEF Rivals
    <3>2. Rivals(call[k], e) => raced' = raced \cup {TitleOf[e]} BY <1>3, <1>10
    <3>3. raced \subseteq raced' BY <1>3
    <3> QED BY <3>1, <3>2, <3>3
  <2>3. TitleOf[f] \notin raced' => ~Rivals(call'[h], f)
    BY <1>4, <1>5, <1>10, <2>1, <2>2 DEF Rivals
  <2>4. \A g \in Calls \ {k} : g # h => call'[g] = call[g] BY <1>5
  <2> QED BY <1>3, <1>10, <2>1, <2>2, <2>3, <2>4 DEF StoresAlone
<1>11. \A k \in Calls : StoresAlone(k)' BY <1>9, <1>10 DEF StoresAlone
<1> QED BY <1>6, <1>7, <1>8, <1>11 DEF WInv

\* An entry nobody races for is stored by the one that found none.
LEMMA UpsertStep ==
  ASSUME WInv, NEW h \in Calls, Upsert(h)
  PROVE  WInv'
<1> DEFINE e == Upcoming(call[h])
           t == TitleOf[e]
           c == [call[h] EXCEPT !.phase = "look", !.left = Tail(call[h].left), !.fresh = TRUE]
<1>1. call[h] \in CallRow /\ call \in [Calls -> CallRow] BY DEF WInv, HookTypes
<1>2. /\ call[h].phase = "store" /\ ~(e \in cves /\ ~call[h].found)
      /\ copies' = IF call[h].found THEN copies ELSE [copies EXCEPT ![t] = @ + 1]
      /\ cves' \in Carried(e, call[h].found)
      /\ call' = [call EXCEPT ![h] = c] /\ UNCHANGED <<hook, logged, overlaps, raced>>
  BY DEF Upsert
<1>3. e \in AllEntries BY <1>2 DEF WInv, StoresAlone
<1>4. Tail(call[h].left) \in Seq(AllEntries \cup {Broken})
  <2>1. call[h].left # <<>> BY <1>3, HookAssumption DEF Upcoming, AllEntries
  <2> QED BY <1>1, <2>1 DEF CallRow
<1>5. /\ c \in CallRow /\ c.phase = "look"
      /\ c.delivered = call[h].delivered /\ c.failed = call[h].failed
  BY <1>1, <1>4 DEF CallRow
<1> HIDE DEF c
<1>6. \A k \in Calls : call'[k] = IF k = h THEN c ELSE call[k] BY <1>1, <1>2
<1>7. /\ copies' \in [Titles -> Nat]
      /\ \A u \in Titles :
           copies'[u] = IF u = t /\ ~call[h].found THEN copies[u] + 1 ELSE copies[u]
  BY <1>2, <1>3 DEF WInv, HookTypes, Titles
<1>8. HookTypes' /\ \A f \in cves : TitleOf[f] # t => f \in cves'
  <2>1. cves \subseteq WithCve BY DEF WInv, HookTypes
  <2>2. /\ \A s \in Carried(e, call[h].found) : s \subseteq WithCve
        /\ \A s \in Carried(e, call[h].found), f \in cves : TitleOf[f] # t => f \in s
    <3> SUFFICES ASSUME NEW s \in Carried(e, call[h].found)
                 PROVE  s \subseteq WithCve /\ \A f \in cves : TitleOf[f] # t => f \in s
      OBVIOUS
    <3>1. CASE e \in Titled \cup cves BY <2>1, <3>1 DEF Carried
    <3>2. CASE e \notin Titled \cup cves
      <4>1. e \in WithCve BY <1>3, <3>2 DEF AllEntries
      <4>2. \E gone : /\ s = (cves \ gone) \cup {e}
                      /\ gone = {} \/ \E d \in cves : TitleOf[d] = t /\ gone = {d}
        BY <3>2, Zenon DEF Carried
      <4> QED BY <2>1, <4>1, <4>2
    <3> QED BY <3>1, <3>2
  <2>3. cves' \subseteq WithCve BY <1>2, <2>2
  <2> QED BY <1>1, <1>2, <1>5, <1>7, <2>2, <2>3 DEF WInv, HookTypes
<1>9. NeverAhead' /\ LagAccounted'
  <2>1. \A k \in Calls :
          /\ call'[k].delivered = call[k].delivered /\ call'[k].failed = call[k].failed
          /\ call[k].phase = "free" => call'[k].phase = "free"
    BY <1>2, <1>5, <1>6
  <2> QED BY <1>2, <2>1, CountersLoaded
<1>10. StoredOnce'
  <2> SUFFICES ASSUME NEW u \in Titles PROVE copies'[u] <= 1 \/ u \in raced
    BY <1>2 DEF StoredOnce
  <2>1. copies[u] \in Nat /\ (copies[u] <= 1 \/ u \in raced)
    BY DEF WInv, HookTypes, StoredOnce
  <2>2. CASE u = t /\ ~call[h].found /\ u \notin raced
    <3>1. copies[u] = 0 BY <1>2, <2>2 DEF WInv, StoresAlone
    <3> QED BY <1>7, <2>2, <3>1
  <2>3. CASE ~(u = t /\ ~call[h].found) BY <1>7, <2>1, <2>3
  <2> QED BY <2>2, <2>3
<1>11. ASSUME NEW k \in Calls, call'[k].phase = "store" PROVE StoresAlone(k)'
  <2> DEFINE f == Upcoming(call[k])
  <2>1. k # h /\ call'[k] = call[k] /\ StoresAlone(k) BY <1>5, <1>6, <1>11 DEF WInv
  <2>2. f \in AllEntries /\ call[k].phase = "store" /\ TitleOf[f] \in Titles
    BY <1>11, <2>1 DEF StoresAlone, Titles
  <2>3. \A g \in Calls \ {k} : g # h => call'[g] = call[g] BY <1>6
  <2>4. call'[h].phase = "look" BY <1>5, <1>6
  <2>5. ASSUME TitleOf[f] \notin raced, ~call[k].found
        PROVE  copies'[TitleOf[f]] = 0 \/ f \in cves'
    <3>1. copies[TitleOf[f]] = 0 \/ f \in cves BY <2>1, <2>2, <2>5 DEF StoresAlone
    <3>2. CASE TitleOf[f] = t
      <4>1. ~Rivals(call[h], f) BY <2>1, <2>2, <2>5 DEF StoresAlone
      <4>2. f = e /\ e \in WithCve BY <1>2, <3>2, <4>1 DEF Rivals
      <4>3. e \notin Titled BY <4>2, HookAssumption
      <4>4. \A s \in Carried(e, call[h].found) : e \in s BY <4>3 DEF Carried
      <4> QED BY <1>2, <4>2, <4>4
    <3>3. CASE TitleOf[f] # t BY <1>7, <1>8, <2>2, <3>1, <3>3
    <3> QED BY <3>2, <3>3
  <2>6. TitleOf[f] \notin raced => \A g \in Calls \ {k} : ~Rivals(call'[g], f)
    BY <2>1, <2>2, <2>3, <2>4 DEF StoresAlone, Rivals
  <2> QED BY <1>2, <1>11, <2>1, <2>2, <2>5, <2>6 DEF StoresAlone
<1>12. \A k \in Calls : StoresAlone(k)' BY <1>11 DEF StoresAlone
<1> QED BY <1>8, <1>9, <1>10, <1>12 DEF WInv

-----------------------------------------------------------------------------
\* A commit of counters takes one outcome ahead; those in progress fall behind by one,
\* and then it is counted as an overlap.
LEMMA CountStep ==
  ASSUME WInv, NEW h \in Calls, Count(h)
  PROVE  WInv'
<1> DEFINE c == call[h]
           others == \E g \in Calls \ {h} : call[g].phase # "free"
<1>1. /\ c.phase = "count" /\ hook' = HookCounted(c)
      /\ logged' = (IF c.ok THEN [logged EXCEPT !.ok = logged.ok + 1]
                            ELSE [logged EXCEPT !.bad = logged.bad + 1])
      /\ overlaps' = (IF others THEN overlaps + 1 ELSE overlaps)
      /\ call' = [call EXCEPT ![h] = NoCall] /\ UNCHANGED <<copies, cves, raced>>
  BY DEF Count
<1>2. /\ c \in CallRow /\ hook \in HookRow /\ logged \in [ok : Nat, bad : Nat]
      /\ overlaps \in Nat /\ call \in [Calls -> CallRow]
  BY DEF WInv, HookTypes
<1>3. /\ hook' \in HookRow
      /\ hook'.delivered = (IF c.ok THEN c.delivered + 1 ELSE hook.delivered)
      /\ hook'.failed = (IF c.ok THEN hook.failed ELSE c.failed + 1)
  <2>1. CASE c.ok
    <3>1. hook' = [hook EXCEPT !.delivered = c.delivered + 1] BY <1>1, <2>1 DEF HookCounted
    <3>2. c.delivered + 1 \in Nat BY <1>2 DEF CallRow
    <3>3. /\ hook' \in HookRow /\ hook'.delivered = c.delivered + 1
          /\ hook'.failed = hook.failed
      BY <1>2, <3>1, <3>2 DEF HookRow
    <3> QED BY <2>1, <3>3
  <2>2. CASE ~c.ok
    <3>1. hook' = [hook EXCEPT !.failed = c.failed + 1] BY <1>1, <2>2 DEF HookCounted
    <3>2. c.failed + 1 \in Nat BY <1>2 DEF CallRow
    <3>3. /\ hook' \in HookRow /\ hook'.delivered = hook.delivered
          /\ hook'.failed = c.failed + 1
      BY <1>2, <3>1, <3>2 DEF HookRow
    <3> QED BY <2>2, <3>3
  <2> QED BY <2>1, <2>2
<1>4. /\ logged' \in [ok : Nat, bad : Nat]
      /\ logged'.ok = (IF c.ok THEN logged.ok + 1 ELSE logged.ok)
      /\ logged'.bad = (IF c.ok THEN logged.bad ELSE logged.bad + 1)
  <2>1. CASE c.ok BY <1>1, <1>2, <2>1
  <2>2. CASE ~c.ok BY <1>1, <1>2, <2>2
  <2> QED BY <2>1, <2>2
<1>5. \A k \in Calls : call'[k] = IF k = h THEN NoCall ELSE call[k] BY <1>1, <1>2
<1>6. NoCall.phase = "free" /\ NoCall.delivered = 0 /\ NoCall.failed = 0 BY DEF NoCall
<1>7. overlaps' \in Nat BY <1>1, <1>2
<1>8. HookTypes' BY <1>1, <1>2, <1>3, <1>4, <1>7, NoCallRow DEF WInv, HookTypes
<1>9. (\A k \in Calls : StoresAlone(k)') /\ StoredOnce'
  BY <1>1, <1>5, <1>6, NothingStored
<1>10. /\ c.delivered \in Nat /\ c.failed \in Nat /\ hook.delivered \in Nat /\ hook.failed \in Nat
       /\ logged.ok \in Nat /\ logged.bad \in Nat
  BY <1>2 DEF CallRow, HookRow
<1>11. NeverAhead'
  <2>1. hook'.delivered <= logged'.ok /\ hook'.failed <= logged'.bad
    BY <1>3, <1>4, <1>10 DEF WInv, NeverAhead
  <2>2. ASSUME NEW k \in Calls
        PROVE  call'[k].delivered <= logged'.ok /\ call'[k].failed <= logged'.bad
    <3>1. call[k].delivered \in Nat /\ call[k].failed \in Nat BY <1>2 DEF CallRow
    <3>2. CASE k = h BY <1>4, <1>5, <1>6, <1>10, <3>2
    <3>3. CASE k # h
      <4>1. call'[k].delivered = call[k].delivered /\ call'[k].failed = call[k].failed
        BY <1>5, <3>3
      <4>2. call[k].delivered <= logged.ok /\ call[k].failed <= logged.bad
        BY DEF WInv, NeverAhead
      <4> QED BY <1>4, <1>10, <3>1, <4>1, <4>2
    <3> QED BY <3>2, <3>3
  <2> QED BY <2>1, <2>2 DEF NeverAhead
<1>12. LagAccounted'
  <2>1. PICK a \in Nat, b \in Nat : a + b = overlaps /\ Behind(a, b) BY DEF WInv, LagAccounted
  <2>2. /\ logged.ok <= hook.delivered + a /\ logged.bad <= hook.failed + b
        /\ logged.ok <= c.delivered + a /\ logged.bad <= c.failed + b
    BY <1>1, <2>1 DEF Behind
  <2>3. ASSUME NEW x \in Nat, NEW y \in Nat, x + y = overlaps', a <= x, b <= y,
               others => (IF c.ok THEN x = a + 1 ELSE y = b + 1)
        PROVE  LagAccounted'
    <3>1. logged'.ok <= hook'.delivered + x /\ logged'.bad <= hook'.failed + y
      BY <1>3, <1>4, <1>10, <2>2, <2>3
    <3>2. ASSUME NEW k \in Calls, call'[k].phase # "free"
          PROVE  logged'.ok <= call'[k].delivered + x /\ logged'.bad <= call'[k].failed + y
      <4>1. k # h /\ call'[k] = call[k] BY <1>5, <1>6, <3>2
      <4>2. call[k].delivered \in Nat /\ call[k].failed \in Nat BY <1>2 DEF CallRow
      <4>3. logged.ok <= call[k].delivered + a /\ logged.bad <= call[k].failed + b
        BY <2>1, <3>2, <4>1 DEF Behind
      <4>4. others BY <3>2, <4>1
      <4> HIDE DEF others
      <4> QED BY <1>4, <1>10, <2>3, <4>1, <4>2, <4>3, <4>4
    <3>3. Behind(x, y)' BY <3>1, <3>2 DEF Behind
    <3> QED BY <2>3, <3>3 DEF LagAccounted
  <2> HIDE DEF others
  <2>4. CASE ~others
    <3>1. overlaps' = a + b BY <1>1, <2>1, <2>4
    <3> QED BY <2>3, <2>4, <3>1
  <2>5. CASE others /\ c.ok
    <3>1. a + 1 \in Nat /\ (a + 1) + b = overlaps' /\ a <= a + 1 BY <1>1, <2>1, <2>5
    <3> QED BY <2>3, <2>5, <3>1
  <2>6. CASE others /\ ~c.ok
    <3>1. b + 1 \in Nat /\ a + (b + 1) = overlaps' /\ b <= b + 1 BY <1>1, <2>1, <2>6
    <3> QED BY <2>3, <2>6, <3>1
  <2> QED BY <2>4, <2>5, <2>6
<1> QED BY <1>8, <1>9, <1>11, <1>12 DEF WInv

\* Every step keeps the invariant.
LEMMA HookStep == WInv /\ [HookNext]_hookVars => WInv'
<1> SUFFICES ASSUME WInv, [HookNext]_hookVars PROVE WInv'
  OBVIOUS
<1> QED
  BY AdminStep, ReceiveStep, CallOver, LookStep, UpsertStep, EndedStep, CountStep DEF HookNext

\* What is accounted for is honest.
LEMMA CountersFollowLog == WInv => CountersHonest
<1> SUFFICES ASSUME WInv PROVE CountersHonest
  OBVIOUS
<1>1. PICK a \in Nat, b \in Nat : a + b = overlaps /\ Behind(a, b) BY DEF WInv, LagAccounted
<1>2. /\ hook.delivered \in Nat /\ hook.failed \in Nat
      /\ logged.ok \in Nat /\ logged.bad \in Nat
  BY DEF WInv, HookTypes, HookRow
<1>3. hook.delivered <= logged.ok /\ hook.failed <= logged.bad BY DEF WInv, NeverAhead
<1>4. logged.ok <= hook.delivered + a /\ logged.bad <= hook.failed + b BY <1>1 DEF Behind
<1> QED BY <1>1, <1>2, <1>3, <1>4 DEF CountersHonest

THEOREM EveryDeliveryAccounted == HookSpec => []DeliveriesAccounted
<1>1. HookInit => WInv BY HookInitInv
<1>2. WInv /\ [HookNext]_hookVars => WInv' BY HookStep
<1>3. WInv => DeliveriesAccounted BY CountersFollowLog DEF WInv, DeliveriesAccounted
<1> QED BY <1>1, <1>2, <1>3, PTL DEF HookSpec

-----------------------------------------------------------------------------
(* SbomImport *)

\* Natural numbers have a least one.
LEMMA LeastOf ==
    ASSUME NEW S \in SUBSET Nat, S # {}
    PROVE  \E d \in S : \A e \in S : d <= e
<1>1. \E d \in S : \A e \in S : ~(<<e, d>> \in OpToRel(<, Nat))
  BY WFMin, NatLessThanWellFounded, Zenon
<1>2. PICK d \in S : \A e \in S : ~(<<e, d>> \in OpToRel(<, Nat))
  BY <1>1
<1>3. ASSUME NEW e \in S PROVE d <= e
  <2>1. ~(e < d)
    BY <1>2 DEF OpToRel
  <2> QED BY <2>1
<1> QED BY <1>3

\* Of some places, one is the last.
LEMMA GreatestOf ==
    ASSUME NEW bound \in Nat, NEW S \in SUBSET (1..bound), S # {}
    PROVE  \E d \in S : \A e \in S : e <= d
<1> DEFINE above == {n \in Nat : \A e \in S : e <= n}
<1>1. above \in SUBSET Nat /\ bound \in above
  OBVIOUS
<1>2. PICK d \in above : \A e \in above : d <= e
  BY <1>1, LeastOf
<1>3. ASSUME d \notin S PROVE FALSE
  <2>1. PICK s \in S : TRUE
    OBVIOUS
  <2>2. d - 1 \in Nat /\ \A e \in S : e <= d - 1
    BY <1>3, <2>1
  <2>3. d - 1 \in above
    BY <2>2
  <2> QED BY <1>2, <2>3
<1> QED BY <1>2, <1>3

\* What a document lists, and what it says of dependencies.
Item == [ref : Refs, name : Names \cup {""}, version : Versions, cves : SUBSET KnownCves]
Statement == [of : Refs, on : Seq(Refs)]

\* The parts of a document.
LEMMA DocumentTyped ==
    ASSUME NEW d \in Documents
    PROVE  /\ d.fmt \in Formats /\ d.entries \in Seq(Item) /\ d.depends \in Seq(Statement)
           /\ d # NoDocument
<1>1. d \in [fmt : Formats, entries : Seq(Item), depends : Seq(Statement)]
  BY SbomAssumption DEF Item, Statement
<1>2. d.fmt \in Formats /\ d.entries \in Seq(Item) /\ d.depends \in Seq(Statement)
  BY <1>1
<1>3. d # NoDocument
  BY <1>2 DEF NoDocument, Formats
<1> QED BY <1>2, <1>3

\* The last entry of a reference is one of the document.
LEMMA EntryTyped ==
    ASSUME NEW d \in Documents, NEW r \in Listed(d)
    PROVE  /\ r \in Refs /\ Entry(d, r).name \in Names /\ Entry(d, r).version \in Versions
           /\ Entry(d, r).cves \subseteq KnownCves
<1> DEFINE same == {n \in Named(d) : d.entries[n].ref = r}
           last == CHOOSE n \in same : \A m \in same : m <= n
<1>1. d.entries \in Seq(Item)
  BY DocumentTyped
<1>2. same \in SUBSET (1..Len(d.entries)) /\ Len(d.entries) \in Nat
  <2>1. DOMAIN d.entries = 1..Len(d.entries) /\ Len(d.entries) \in Nat
    BY <1>1
  <2>2. same \subseteq DOMAIN d.entries
    BY DEF Named
  <2> QED BY <2>1, <2>2
<1>3. same # {}
  BY DEF Listed
<1>4. \E n \in same : \A m \in same : m <= n
  BY <1>2, <1>3, GreatestOf
<1>5. last \in same
  <2> HIDE DEF same
  <2> QED BY <1>4
<1>6. Entry(d, r) = d.entries[last]
  BY DEF Entry
<1>7. d.entries[last] \in Item /\ d.entries[last].name # "" /\ d.entries[last].ref = r
  <2>1. last \in 1..Len(d.entries) /\ last \in Named(d) /\ d.entries[last].ref = r
    BY <1>2, <1>5
  <2> HIDE DEF last
  <2>2. d.entries[last] \in Item
    BY <1>1, <2>1
  <2> QED BY <2>1, <2>2 DEF Named
<1> HIDE DEF last
<1> QED BY <1>6, <1>7 DEF Item

\* A path recorded is an edge of the document, and is missing only where there is none.
LEMMA PathIsAnEdge ==
    ASSUME NEW d \in Documents, NEW r \in Listed(d), NEW seen
    PROVE  /\ Path(d, r, seen) \in Paths
           /\ IF Path(d, r, seen) = <<>> THEN \A e \in Edges(d) : e[2] # r
              ELSE Path(d, r, seen) \in Edges(d)
<1> DEFINE by == NamedBy(d, r)
           first == CHOOSE n \in by : \A m \in by : n <= m
<1>1. d.depends \in Seq(Statement) /\ Listed(d) \subseteq Refs
  BY DocumentTyped, EntryTyped
<1>2. by \in SUBSET Nat
  BY <1>1 DEF NamedBy
<1>3. CASE by = {}
  <2>1. Path(d, r, seen) = <<>>
    BY <1>3 DEF Path
  <2>2. ASSUME NEW e \in Edges(d), e[2] = r PROVE FALSE
    <3>1. e \in Listed(d) \X Listed(d) /\ r \in Children(d, e[1])
      BY <2>2 DEF Edges
    <3>2. PICK p \in Places(d, e[1]) : TRUE
      BY <3>1 DEF Children
    <3>3. PICK n \in Counting(d, e[1]) : TRUE
      BY <3>2 DEF Places
    <3>4. n \in DOMAIN d.depends /\ d.depends[n].of = e[1]
      BY <3>3 DEF Counting
    <3>5. <<d.depends[n].of, r>> = e
      BY <3>1, <3>4, <2>2
    <3>6. n \in by
      BY <3>4, <3>5 DEF NamedBy
    <3> QED BY <3>6, <1>3
  <2> QED BY <2>1, <2>2 DEF Paths
<1>4. CASE by # {}
  <2>1. first \in by
    <3>1. \E n \in by : \A m \in by : n <= m
      BY <1>2, <1>4, LeastOf
    <3> HIDE DEF by
    <3> QED BY <3>1
  <2>2. Path(d, r, seen) = <<d.depends[first].of, r>>
    BY <1>4 DEF Path, FirstParent
  <2> HIDE DEF first
  <2>3. Path(d, r, seen) \in Edges(d)
    BY <2>1, <2>2 DEF NamedBy
  <2>4. Path(d, r, seen) \in Listed(d) \X Listed(d)
    BY <2>3 DEF Edges
  <2>5. Path(d, r, seen) # <<>>
    BY <2>2
  <2> QED BY <1>1, <2>3, <2>4, <2>5 DEF Paths
<1> QED BY <1>3, <1>4

\* What an import writes of a component.
LEMMA ImportedTyped ==
    ASSUME NEW d \in Documents, NEW r \in Listed(d), NEW seen
    PROVE  /\ Imported(d, r, seen) \in Columns
           /\ Imported(d, r, seen).name = Entry(d, r).name
           /\ Imported(d, r, seen).version = Entry(d, r).version
           /\ Imported(d, r, seen).path = Path(d, r, seen)
<1> DEFINE cs == IF d.fmt = "cyclonedx" THEN Entry(d, r).cves ELSE {}
           p == Path(d, r, seen)  n == Entry(d, r).name  v == Entry(d, r).version
<1>1. n \in Names /\ v \in Versions /\ cs \in SUBSET KnownCves /\ p \in Paths
  BY EntryTyped, PathIsAnEdge
<1>2. Imported(d, r, seen) = [name |-> n, version |-> v, cves |-> cs, path |-> p]
  BY DEF Imported
<1> HIDE DEF cs, p, n, v
<1>3. Imported(d, r, seen) \in Columns
  BY <1>1, <1>2 DEF Columns
<1>4. Imported(d, r, seen).name = n /\ Imported(d, r, seen).version = v
      /\ Imported(d, r, seen).path = p
  BY <1>2
<1> QED BY <1>3, <1>4 DEF n, v, p

\* A document that is imported again by nobody else is in the rows as it says.
LEMMA OverlaidAlone ==
    ASSUME NEW now \in Columns \cup {NoRow}, NEW new \in Columns
    PROVE  Overlaid(now, now, new) = new
<1>1. CASE now = NoRow
  BY <1>1 DEF Overlaid
<1>2. CASE now # NoRow
  <2> DEFINE meta == now.cves # new.cves \/ now.path # new.path \/ now.path # <<>>
             c == IF meta THEN new.cves ELSE now.cves
             p == IF meta THEN new.path ELSE now.path
             n == IF now.name = new.name THEN now.name ELSE new.name
             v == IF now.version = new.version THEN now.version ELSE new.version
  <2>1. Overlaid(now, now, new) = [name |-> n, version |-> v, cves |-> c, path |-> p]
    BY <1>2 DEF Overlaid
  <2>2. n = new.name /\ v = new.version /\ c = new.cves /\ p = new.path
    OBVIOUS
  <2> HIDE DEF n, v, c, p
  <2>3. new = [name |-> new.name, version |-> new.version, cves |-> new.cves, path |-> new.path]
    BY DEF Columns
  <2> QED BY <2>1, <2>2, <2>3
<1> QED BY <1>1, <1>2

\* A row written over stays a row.
LEMMA OverlaidTyped ==
    ASSUME NEW now \in Columns \cup {NoRow}, NEW seen \in Columns \cup {NoRow},
           NEW new \in Columns, seen # NoRow => now # NoRow
    PROVE  Overlaid(now, seen, new) \in Columns
<1>1. CASE seen = NoRow
  BY <1>1 DEF Overlaid
<1>2. CASE seen # NoRow
  <2> DEFINE meta == seen.cves # new.cves \/ seen.path # new.path \/ seen.path # <<>>
             c == IF meta THEN new.cves ELSE now.cves
             p == IF meta THEN new.path ELSE now.path
             n == IF seen.name = new.name THEN now.name ELSE new.name
             v == IF seen.version = new.version THEN now.version ELSE new.version
  <2>1. Overlaid(now, seen, new) = [name |-> n, version |-> v, cves |-> c, path |-> p]
    BY <1>2 DEF Overlaid
  <2>2. now \in Columns
    BY <1>2
  <2> HIDE DEF meta
  <2>3. n \in Names /\ v \in Versions /\ c \in SUBSET KnownCves /\ p \in Paths
    BY <2>2 DEF Columns
  <2> HIDE DEF n, v, c, p
  <2> QED BY <2>1, <2>3 DEF Columns
<1> QED BY <1>1, <1>2

\* The links that a commit leaves lead to the rows it leaves, and those it finds are among them.
LEMMA CorrelatedLinks ==
    ASSUME NEW links \in SUBSET [cve : KnownCves, ref : Refs, fmt : Formats, path : Paths],
           NEW rows \in [Refs -> Columns \cup {NoRow}], NEW fmt \in Formats
    PROVE  /\ Correlated(links, rows, fmt) \in
                SUBSET [cve : KnownCves, ref : Refs, fmt : Formats, path : Paths]
           /\ \A r \in Refs : rows[r] # NoRow => \A c \in rows[r].cves :
                [cve |-> c, ref |-> r, fmt |-> fmt, path |-> rows[r].path]
                  \in Correlated(links, rows, fmt)
<1> DEFINE Link == [cve : KnownCves, ref : Refs, fmt : Formats, path : Paths]
           named == {p \in KnownCves \X Refs : rows[p[2]] # NoRow /\ p[1] \in rows[p[2]].cves}
           To(p) == [cve |-> p[1], ref |-> p[2], fmt |-> fmt, path |-> rows[p[2]].path]
           found == {To(p) : p \in named}
           kept == {l \in links : \A f \in found :
                      <<f.cve, f.ref, f.fmt>> # <<l.cve, l.ref, l.fmt>>}
<1>1. Correlated(links, rows, fmt) = found \cup kept
  BY DEF Correlated
<1>2. \A p \in named : To(p) \in Link
  <2> SUFFICES ASSUME NEW p \in named PROVE To(p) \in Link
    OBVIOUS
  <2>1. p[1] \in KnownCves /\ p[2] \in Refs /\ rows[p[2]] \in Columns
    OBVIOUS
  <2>2. rows[p[2]].path \in Paths
    BY <2>1 DEF Columns
  <2> QED BY <2>1, <2>2
<1>3. kept \subseteq Link
  OBVIOUS
<1>4. ASSUME NEW r \in Refs, rows[r] # NoRow, NEW c \in rows[r].cves
      PROVE  To(<<c, r>>) \in found
  <2>1. rows[r] \in Columns
    BY <1>4
  <2>2. c \in KnownCves
    BY <2>1, <1>4 DEF Columns
  <2>3. <<c, r>> \in named
    BY <2>2, <1>4
  <2> QED BY <2>3
<1>5. \A c, r : To(<<c, r>>) = [cve |-> c, ref |-> r, fmt |-> fmt, path |-> rows[r].path]
  OBVIOUS
<1> HIDE DEF To, named, kept
<1>6. found \subseteq Link
  BY <1>2
<1> HIDE DEF found
<1>7. \A r \in Refs : rows[r] # NoRow => \A c \in rows[r].cves :
        [cve |-> c, ref |-> r, fmt |-> fmt, path |-> rows[r].path] \in found
  BY <1>4, <1>5
<1> QED BY <1>1, <1>3, <1>6, <1>7

-----------------------------------------------------------------------------
(* The invariant *)

\* A row that an import has read stays: imports insert and update only.
RowsRemain ==
  \A h \in Importers : Importing(h) =>
    \A r \in Refs : importer[h].seen[r] # NoRow
                       => component[importer[h].release][r] # NoRow

\* An import that met no other one has seen its release as it is.
AloneSeesAll ==
  \A h \in Importers : Importing(h) /\ ~importer[h].met =>
    LET v == importer[h].release IN
    /\ OtherImports(h, v) = {} /\ importer[h].seen = component[v]
    /\ importer[h].phase = "flushed" => importer[h].gone = edge[v]

\* What the imports leave can be counted.
FewComponents ==
  \A v \in Releases : IsFiniteSet({r \in Refs : component[v][r] # NoRow})

\* The inductive invariant.
SInv == SbomTypeOK /\ RowsRemain /\ AloneSeesAll /\ FewComponents /\ ImportTakesEffect

\* An import that is neither idle nor over.
InProgress == ImportOf("read") \cup ImportOf("flushed")

\* The parts of an import in progress.
LEMMA InProgressTyped ==
    ASSUME NEW i \in InProgress
    PROVE  /\ i.phase \in {"read", "flushed"} /\ i.phase # "idle"
           /\ i.release \in Releases /\ i.doc \in Documents
           /\ i.met \in BOOLEAN /\ i.gone \in SUBSET (Refs \X Refs)
           /\ i.seen \in [Refs -> Columns \cup {NoRow}]
BY DEF InProgress, ImportOf

\* An import is idle or in progress.
LEMMA ImportingTyped ==
    ASSUME SbomTypeOK, NEW h \in Importers
    PROVE  /\ Importing(h) <=> importer[h] \in InProgress
           /\ importer[h].phase \in {"read", "flushed"} => Importing(h)
<1>1. importer[h] \in {NoImport} \cup InProgress
  BY DEF SbomTypeOK, InProgress
<1>2. importer[h] = NoImport => ~Importing(h)
  BY DEF Importing, NoImport
<1>3. importer[h] \in InProgress => Importing(h)
  BY InProgressTyped DEF Importing
<1> QED BY <1>1, <1>2, <1>3 DEF Importing

\* At first there are no components.
LEMMA SbomStart == SbomInit => SInv
<1> SUFFICES ASSUME SbomInit PROVE SInv
  OBVIOUS
<1>1. SbomTypeOK
  BY DEF SbomInit, SbomTypeOK
<1>2. \A h \in Importers : ~Importing(h)
  BY DEF SbomInit, Importing, NoImport
<1>3. FewComponents
  <2> SUFFICES ASSUME NEW v \in Releases
               PROVE  IsFiniteSet({r \in Refs : component[v][r] # NoRow})
    BY DEF FewComponents
  <2>1. {r \in Refs : component[v][r] # NoRow} = {}
    BY DEF SbomInit
  <2> QED BY <2>1, FS_EmptySet
<1>4. ImportTakesEffect
  BY DEF SbomInit, ImportTakesEffect
<1> QED BY <1>1, <1>2, <1>3, <1>4 DEF SInv, RowsRemain, AloneSeesAll

\* An import reads its release as it is.
LEMMA ReadKeeps ==
    ASSUME SInv, NEW h \in Importers, NEW v \in Releases, NEW d \in Documents, Read(h, v, d)
    PROVE  SInv'
<1> USE DEF SInv
<1> DEFINE others == OtherImports(h, v)
           m == others # {}
           mine == [phase |-> "read", release |-> v, doc |-> d, met |-> m,
                    seen |-> component[v], gone |-> {}]
<1>1. /\ importer' = [g \in Importers |-> IF g = h THEN mine
                        ELSE IF g \in others THEN [importer[g] EXCEPT !.met = TRUE]
                        ELSE importer[g]]
      /\ UNCHANGED <<component, edge, link, latest, met>>
  BY DEF Read
<1>2. mine \in InProgress
  <2>1. component[v] \in [Refs -> Columns \cup {NoRow}]
    BY DEF SbomTypeOK
  <2>2. m = TRUE \/ m = FALSE
    BY Zenon
  <2> HIDE DEF m
  <2> QED BY <2>1, <2>2 DEF InProgress, ImportOf
<1>3. \A g \in others : importer[g] \in InProgress
  BY ImportingTyped DEF OtherImports
<1>4. \A g \in others : /\ [importer[g] EXCEPT !.met = TRUE] \in InProgress
                        /\ [importer[g] EXCEPT !.met = TRUE].met = TRUE
                        /\ [importer[g] EXCEPT !.met = TRUE].seen = importer[g].seen
                        /\ [importer[g] EXCEPT !.met = TRUE].release = importer[g].release
  BY <1>3 DEF InProgress, ImportOf
<1>5. mine.release = v /\ mine.seen = component[v] /\ mine.met = m /\ mine.phase = "read"
  OBVIOUS
<1> HIDE DEF mine
<1>6. others \subseteq Importers \ {h}
  BY DEF OtherImports
<1>7. \A g \in Importers : importer'[g] = IF g = h THEN mine
                        ELSE IF g \in others THEN [importer[g] EXCEPT !.met = TRUE]
                        ELSE importer[g]
  BY <1>1
<1>8. SbomTypeOK'
  <2>1. \A g \in Importers : importer[g] \in {NoImport} \cup InProgress
    BY DEF SbomTypeOK, InProgress
  <2>2. \A g \in Importers : importer'[g] \in {NoImport} \cup InProgress
    BY <1>2, <1>4, <1>7, <2>1
  <2>3. importer' \in [Importers -> {NoImport} \cup InProgress]
    BY <2>2, <1>1
  <2>4. importer' \in [Importers -> {NoImport} \cup ImportOf("read") \cup ImportOf("flushed")]
    BY <2>3 DEF InProgress
  <2> QED BY <1>1, <2>4 DEF SbomTypeOK
<1> DEFINE Kept(g) == importer'[g].seen = importer[g].seen
                      /\ importer'[g].release = importer[g].release
           Told(g) == importer[g].release = v => importer'[g].met
           Left(g) == importer[g].release # v => importer'[g] = importer[g]
<1>9. ASSUME NEW g \in Importers, g # h
      PROVE  (Importing(g)' <=> Importing(g)) /\ (Importing(g) => Kept(g) /\ Told(g) /\ Left(g))
  <2>1. CASE g \in others
    <3>1. importer'[g] = [importer[g] EXCEPT !.met = TRUE] /\ importer[g] \in InProgress
      BY <1>9, <1>3, <1>7, <2>1
    <3>2. importer'[g] \in InProgress /\ importer[g].release = v
      BY <3>1, <1>4, <2>1 DEF OtherImports
    <3>3. Importing(g) /\ Importing(g)'
      BY <3>1, <3>2, InProgressTyped DEF Importing
    <3> QED BY <3>1, <3>2, <3>3, <1>4, <2>1
  <2>2. CASE g \notin others
    <3>1. importer'[g] = importer[g]
      BY <1>9, <1>7, <2>2
    <3>2. (Importing(g)' <=> Importing(g))
      BY <3>1 DEF Importing
    <3>3. Importing(g) => importer[g].release # v
      BY <1>9, <2>2 DEF OtherImports
    <3> QED BY <3>1, <3>2, <3>3
  <2> QED BY <2>1, <2>2
<1>10. importer'[h] = mine /\ Importing(h)'
  BY <1>5, <1>7 DEF Importing
<1>11. RowsRemain'
  <2>1. \A g \in Importers \ {h} : Importing(g) => importer[g].release \in Releases
    BY ImportingTyped, InProgressTyped
  <2>2. ASSUME NEW g \in Importers \ {h}, Importing(g)', NEW r \in Refs, importer'[g].seen[r] # NoRow
        PROVE  component'[importer'[g].release][r] # NoRow
    <3>1. Importing(g) /\ importer'[g].seen = importer[g].seen
                       /\ importer'[g].release = importer[g].release
      BY <1>9, <2>2
    <3> QED BY <1>1, <2>2, <3>1 DEF RowsRemain
  <2>3. ASSUME NEW r \in Refs, importer'[h].seen[r] # NoRow
        PROVE  component'[importer'[h].release][r] # NoRow
    BY <1>1, <1>5, <1>10, <2>3
  <2> QED BY <2>2, <2>3 DEF RowsRemain
<1>12. AloneSeesAll'
  <2> SUFFICES ASSUME NEW g \in Importers, Importing(g)', ~importer'[g].met
      PROVE /\ OtherImports(g, importer[g].release)' = {}
            /\ importer'[g].seen = component[importer'[g].release]
            /\ importer'[g].phase = "flushed" => importer'[g].gone = edge[importer'[g].release]
    BY <1>1 DEF AloneSeesAll
  <2>1. CASE g = h
    <3>1. others = {}
      BY <1>5, <1>10, <2>1
    <3>2. \A k \in Importers \ {h} : ~(Importing(k)' /\ importer'[k].release = v)
      BY <3>1, <1>9 DEF OtherImports
    <3> QED BY <3>2, <1>5, <1>10, <2>1 DEF OtherImports
  <2>2. CASE g # h
    <3>1. Importing(g) /\ importer[g].release # v /\ importer'[g] = importer[g]
      BY <1>9, <2>2
    <3>2. OtherImports(g, importer[g].release) = {}
      BY <3>1 DEF AloneSeesAll
    <3>3. \A k \in Importers \ {g} : ~(Importing(k)' /\ importer'[k].release = importer[g].release)
      BY <3>1, <3>2, <1>5, <1>9, <1>10 DEF OtherImports
    <3>4. OtherImports(g, importer[g].release)' = {}
      BY <3>1, <3>3 DEF OtherImports
    <3> QED BY <3>1, <3>4 DEF AloneSeesAll
  <2> QED BY <2>1, <2>2
<1>13. FewComponents' /\ ImportTakesEffect'
  BY <1>1 DEF FewComponents, ImportTakesEffect
<1> QED BY <1>8, <1>11, <1>12, <1>13

\* A flush deletes the edges that the document does not have.
LEMMA FlushKeeps ==
    ASSUME SInv, NEW h \in Importers, FlushRows(h)
    PROVE  SInv'
<1> USE DEF SInv
<1> DEFINE i == importer[h]
           now == [i EXCEPT !.phase = "flushed", !.gone = Gone(i.release)]
<1>1. /\ i.phase = "read" /\ importer' = [importer EXCEPT ![h] = now]
      /\ UNCHANGED <<component, edge, link, latest, met>>
  BY DEF FlushRows
<1>2. i \in InProgress /\ i.release \in Releases
  BY <1>1, ImportingTyped, InProgressTyped
<1>3. /\ now \in InProgress /\ now.seen = i.seen /\ now.release = i.release /\ now.met = i.met
      /\ now.gone = edge[i.release]
  <2>1. Gone(i.release) \in SUBSET (Refs \X Refs) /\ Gone(i.release) = edge[i.release]
    BY <1>2 DEF Gone, SbomTypeOK
  <2> HIDE DEF i
  <2> QED BY <1>2, <2>1 DEF InProgress, ImportOf
<1> HIDE DEF now
<1>4. importer'[h] = now /\ \A g \in Importers \ {h} : importer'[g] = importer[g]
  BY <1>1 DEF SbomTypeOK
<1>5. SbomTypeOK'
  <2>1. importer' \in [Importers -> {NoImport} \cup ImportOf("read") \cup ImportOf("flushed")]
    BY <1>1, <1>3 DEF SbomTypeOK, InProgress
  <2> QED BY <1>1, <2>1 DEF SbomTypeOK
<1>6. Importing(h) /\ Importing(h)' /\ \A g \in Importers \ {h} : (Importing(g)' <=> Importing(g))
  BY <1>2, <1>3, <1>4, InProgressTyped DEF Importing
<1>7. \A g \in Importers : /\ (Importing(g)' <=> Importing(g))
                           /\ importer'[g].seen = importer[g].seen
                           /\ importer'[g].release = importer[g].release
                           /\ importer'[g].met = importer[g].met
  <2>1. importer'[h].seen = i.seen /\ importer'[h].release = i.release /\ importer'[h].met = i.met
    BY <1>3, <1>4
  <2> QED BY <1>4, <1>6, <2>1
<1>8. RowsRemain'
  BY <1>1, <1>7 DEF RowsRemain
<1>9. AloneSeesAll'
  <2> SUFFICES ASSUME NEW g \in Importers, Importing(g)', ~importer'[g].met
      PROVE /\ OtherImports(g, importer[g].release)' = {}
            /\ importer'[g].seen = component[importer'[g].release]
            /\ importer'[g].phase = "flushed" => importer'[g].gone = edge[importer'[g].release]
    BY <1>1, <1>7 DEF AloneSeesAll
  <2>1. Importing(g) /\ ~importer[g].met
    BY <1>7
  <2>2. OtherImports(g, importer[g].release)' = OtherImports(g, importer[g].release)
    BY <1>7 DEF OtherImports
  <2>3. importer'[g].phase = "flushed" => importer'[g].gone = edge[importer'[g].release]
    BY <1>3, <1>4, <2>1 DEF AloneSeesAll
  <2> QED BY <1>7, <2>1, <2>2, <2>3 DEF AloneSeesAll
<1>10. FewComponents' /\ ImportTakesEffect'
  BY <1>1 DEF FewComponents, ImportTakesEffect
<1> QED BY <1>5, <1>8, <1>9, <1>10

\* However an import ends: the others go on, and find the rows that they have read.
LEMMA ImportEnds ==
    ASSUME SInv, NEW h \in Importers, importer' = [importer EXCEPT ![h] = NoImport],
           \A v \in Releases : \A r \in Refs : component[v][r] # NoRow => component'[v][r] # NoRow
    PROVE  /\ importer' \in [Importers -> {NoImport} \cup ImportOf("read") \cup ImportOf("flushed")]
           /\ \A g \in Importers : Importing(g)' => g # h /\ Importing(g) /\ importer'[g] = importer[g]
           /\ RowsRemain'
<1> USE DEF SInv
<1>1. importer \in [Importers -> {NoImport} \cup ImportOf("read") \cup ImportOf("flushed")]
  BY DEF SbomTypeOK
<1>2. importer' \in [Importers -> {NoImport} \cup ImportOf("read") \cup ImportOf("flushed")]
  BY <1>1
<1>3. \A g \in Importers : Importing(g)' => g # h /\ Importing(g) /\ importer'[g] = importer[g]
  BY <1>1 DEF Importing, NoImport
<1>4. \A g \in Importers : Importing(g) => importer[g].release \in Releases
  BY ImportingTyped, InProgressTyped
<1>5. RowsRemain'
  BY <1>3, <1>4 DEF RowsRemain
<1> QED BY <1>2, <1>3, <1>5

\* An import rolled back leaves the rows.
LEMMA GiveUpKeeps ==
    ASSUME SInv, NEW h \in Importers, GiveUpImport(h)
    PROVE  SInv'
<1> USE DEF SInv
<1>1. importer' = [importer EXCEPT ![h] = NoImport] /\ UNCHANGED <<component, edge, link, latest, met>>
  BY DEF GiveUpImport
<1>2. /\ importer' \in [Importers -> {NoImport} \cup ImportOf("read") \cup ImportOf("flushed")]
      /\ \A g \in Importers : Importing(g)' => g # h /\ Importing(g) /\ importer'[g] = importer[g]
      /\ RowsRemain'
  BY <1>1, ImportEnds
<1>3. SbomTypeOK'
  BY <1>1, <1>2 DEF SbomTypeOK
<1>4. AloneSeesAll'
  BY <1>1, <1>2 DEF AloneSeesAll, OtherImports
<1>5. FewComponents' /\ ImportTakesEffect'
  BY <1>1 DEF FewComponents, ImportTakesEffect
<1> QED BY <1>2, <1>3, <1>4, <1>5

\* A document lists finitely many components.
LEMMA ListedFinite ==
    ASSUME NEW d \in Documents
    PROVE  IsFiniteSet(Listed(d)) /\ Listed(d) \subseteq Refs
<1> DEFINE ref == [n \in Named(d) |-> d.entries[n].ref]
<1>1. DOMAIN d.entries = 1..Len(d.entries) /\ Len(d.entries) \in Nat
  BY DocumentTyped
<1>2. IsFiniteSet(1..Len(d.entries))
  BY <1>1, FS_Interval
<1>3. Named(d) \in SUBSET (1..Len(d.entries))
  BY <1>1 DEF Named
<1>4. IsFiniteSet(Named(d))
  BY <1>2, <1>3, FS_Subset
<1>5. ref \in Surjection(Named(d), Listed(d))
  BY DEF Surjection, Listed
<1>6. IsFiniteSet(Listed(d))
  <2> HIDE DEF ref
  <2> QED BY <1>4, <1>5, FS_Surjection
<1>7. Listed(d) \subseteq Refs
  BY EntryTyped
<1> QED BY <1>6, <1>7

\* A missing row is not a row.
LEMMA NoRowApart == NoRow \notin Columns
BY DEF NoRow, Columns

\* A commit that met no other import leaves what the document says.
LEMMA CommitKeeps ==
    ASSUME SInv, NEW h \in Importers, CommitImport(h)
    PROVE  SInv'
<1> USE DEF SInv
<1> DEFINE i == importer[h]
           v == i.release
           d == i.doc
           new(r) == Imported(d, r, i.seen)
           rows == [r \in Refs |-> IF r \in Listed(d) THEN Overlaid(component[v][r], i.seen[r], new(r))
                                  ELSE component[v][r]]
<1>1. /\ i.phase = "flushed"
      /\ component' = [component EXCEPT ![v] = rows]
      /\ edge' = [edge EXCEPT ![v] = (edge[v] \ i.gone) \cup Edges(d)]
      /\ link' = [link EXCEPT ![v] = Correlated(link[v], rows, d.fmt)]
      /\ latest' = [latest EXCEPT ![v] = d]
      /\ met' = IF i.met THEN met \cup {v} ELSE met \ {v}
      /\ importer' = [importer EXCEPT ![h] = NoImport]
  BY DEF CommitImport
<1>2. Importing(h) /\ i \in InProgress
  BY <1>1, ImportingTyped
<1>3. /\ v \in Releases /\ d \in Documents /\ i.met \in BOOLEAN /\ d.fmt \in Formats
      /\ i.seen \in [Refs -> Columns \cup {NoRow}] /\ i.gone \in SUBSET (Refs \X Refs)
  BY <1>2, InProgressTyped, DocumentTyped
<1>4. component[v] \in [Refs -> Columns \cup {NoRow}]
  BY <1>3 DEF SbomTypeOK
<1>5. \A r \in Refs : i.seen[r] # NoRow => component[v][r] # NoRow
  BY <1>2 DEF RowsRemain
<1>6. \A r \in Listed(d) : r \in Refs /\ new(r) \in Columns /\ rows[r] \in Columns
  <2> SUFFICES ASSUME NEW r \in Listed(d)
               PROVE  r \in Refs /\ new(r) \in Columns /\ rows[r] \in Columns
    OBVIOUS
  <2>1. r \in Refs /\ new(r) \in Columns
    BY <1>3, EntryTyped, ImportedTyped
  <2>2. component[v][r] \in Columns \cup {NoRow} /\ i.seen[r] \in Columns \cup {NoRow}
    BY <1>3, <1>4, <2>1
  <2> HIDE DEF new
  <2>3. Overlaid(component[v][r], i.seen[r], new(r)) \in Columns
    BY <1>5, <2>1, <2>2, OverlaidTyped
  <2> QED BY <2>1, <2>3
<1>7. \A r \in Refs \ Listed(d) : rows[r] = component[v][r]
  OBVIOUS
<1>8. rows = [r \in Refs |-> rows[r]]
  OBVIOUS
<1>9. \A r \in Listed(d) : rows[r] = Overlaid(component[v][r], i.seen[r], new(r))
  BY <1>6
<1> HIDE DEF rows
<1>10. rows \in [Refs -> Columns \cup {NoRow}]
  BY <1>4, <1>6, <1>7, <1>8
<1>11. \A r \in Refs : component[v][r] # NoRow => rows[r] # NoRow
  BY <1>6, <1>7, NoRowApart
<1>12. Edges(d) \subseteq Refs \X Refs
  BY <1>3, ListedFinite DEF Edges
<1>13. link[v] \in SUBSET [cve : KnownCves, ref : Refs, fmt : Formats, path : Paths]
  BY <1>3 DEF SbomTypeOK
<1>14. /\ Correlated(link[v], rows, d.fmt)
             \in SUBSET [cve : KnownCves, ref : Refs, fmt : Formats, path : Paths]
       /\ \A r \in Refs : rows[r] # NoRow => \A c \in rows[r].cves :
             [cve |-> c, ref |-> r, fmt |-> d.fmt, path |-> rows[r].path]
               \in Correlated(link[v], rows, d.fmt)
  <2> HIDE DEF d, v
  <2> QED BY <1>3, <1>10, <1>13, CorrelatedLinks
<1>15. /\ component'[v] = rows /\ edge'[v] = (edge[v] \ i.gone) \cup Edges(d)
       /\ link'[v] = Correlated(link[v], rows, d.fmt) /\ latest'[v] = d
       /\ \A w \in Releases \ {v} : /\ component'[w] = component[w] /\ edge'[w] = edge[w]
                                     /\ link'[w] = link[w] /\ latest'[w] = latest[w]
                                     /\ (w \in met' <=> w \in met)
  BY <1>1, <1>3 DEF SbomTypeOK
<1>16. \A w \in Releases : \A r \in Refs : component[w][r] # NoRow => component'[w][r] # NoRow
  BY <1>11, <1>15
<1>17. /\ importer' \in [Importers -> {NoImport} \cup ImportOf("read") \cup ImportOf("flushed")]
       /\ \A g \in Importers : Importing(g)' => g # h /\ Importing(g) /\ importer'[g] = importer[g]
       /\ RowsRemain'
  BY <1>1, <1>16, ImportEnds
<1>18. SbomTypeOK'
  <2>1. component' \in [Releases -> [Refs -> Columns \cup {NoRow}]]
    BY <1>1, <1>10 DEF SbomTypeOK
  <2>2. (edge[v] \ i.gone) \cup Edges(d) \in SUBSET (Refs \X Refs)
    BY <1>3, <1>12 DEF SbomTypeOK
  <2>3. edge' \in [Releases -> SUBSET (Refs \X Refs)]
    BY <1>1, <2>2 DEF SbomTypeOK
  <2>4. link' \in [Releases -> SUBSET [cve : KnownCves, ref : Refs, fmt : Formats, path : Paths]]
    BY <1>1, <1>14 DEF SbomTypeOK
  <2>5. latest' \in [Releases -> Documents \cup {NoDocument}]
    BY <1>1, <1>3 DEF SbomTypeOK
  <2>6. met' \subseteq Releases
    BY <1>1, <1>3 DEF SbomTypeOK
  <2> QED BY <1>17, <2>1, <2>3, <2>4, <2>5, <2>6 DEF SbomTypeOK
<1>19. AloneSeesAll'
  <2> SUFFICES ASSUME NEW g \in Importers, Importing(g)', ~importer'[g].met
      PROVE /\ OtherImports(g, importer[g].release)' = {}
            /\ importer'[g].seen = component'[importer'[g].release]
            /\ importer'[g].phase = "flushed" => importer'[g].gone = edge'[importer'[g].release]
    BY DEF AloneSeesAll
  <2>1. g # h /\ Importing(g) /\ importer'[g] = importer[g] /\ ~importer[g].met
    BY <1>17
  <2>2. /\ OtherImports(g, importer[g].release) = {}
        /\ importer[g].seen = component[importer[g].release]
        /\ importer[g].phase = "flushed" => importer[g].gone = edge[importer[g].release]
    BY <2>1 DEF AloneSeesAll
  <2>3. importer[g].release \in Releases \ {v}
    BY <1>2, <2>1, <2>2, ImportingTyped, InProgressTyped DEF OtherImports
  <2>4. OtherImports(g, importer[g].release)' = {}
    BY <1>17, <2>1, <2>2 DEF OtherImports
  <2> QED BY <1>15, <2>1, <2>2, <2>3, <2>4
<1>20. FewComponents'
  <2> SUFFICES ASSUME NEW w \in Releases
               PROVE  IsFiniteSet({r \in Refs : component'[w][r] # NoRow})
    BY DEF FewComponents
  <2>1. IsFiniteSet({r \in Refs : component[w][r] # NoRow})
    BY DEF FewComponents
  <2>2. CASE w = v
    <3> DEFINE all == {r \in Refs : component[v][r] # NoRow} \cup Listed(d)
               left == {r \in Refs : component'[v][r] # NoRow}
    <3>1. IsFiniteSet(all)
      BY <1>3, <2>1, <2>2, ListedFinite, FS_Union
    <3>2. left \in SUBSET all
      BY <1>7, <1>15
    <3> HIDE DEF all, left
    <3>3. IsFiniteSet(left)
      BY <3>1, <3>2, FS_Subset
    <3> QED BY <3>3, <2>2 DEF left
  <2>3. CASE w # v
    BY <1>15, <2>1, <2>3
  <2> QED BY <2>2, <2>3
<1>21. ImportTakesEffect'
  <2> SUFFICES ASSUME NEW w \in Releases, latest'[w] # NoDocument, w \notin met'
      PROVE /\ edge'[w] = Edges(latest'[w])
            /\ \A r \in Listed(latest'[w]) :
                 /\ component'[w][r] # NoRow
                 /\ component'[w][r].name = Entry(latest'[w], r).name
                 /\ component'[w][r].version = Entry(latest'[w], r).version
                 /\ IF component'[w][r].path = <<>> THEN \A e \in edge'[w] : e[2] # r
                    ELSE component'[w][r].path \in edge'[w]
                 /\ \A c \in component'[w][r].cves :
                      [cve |-> c, ref |-> r, fmt |-> latest'[w].fmt, path |-> component'[w][r].path]
                        \in link'[w]
    BY DEF ImportTakesEffect
  <2>1. CASE w # v
    <3>1. /\ component'[w] = component[w] /\ edge'[w] = edge[w] /\ link'[w] = link[w]
          /\ latest'[w] = latest[w] /\ w \notin met
      BY <1>15, <2>1
    <3> QED BY <3>1 DEF ImportTakesEffect
  <2>2. CASE w = v
    <3>1. ~i.met
      BY <1>1, <2>2
    <3>2. i.seen = component[v] /\ i.gone = edge[v]
      BY <1>1, <1>2, <3>1 DEF AloneSeesAll
    <3>3. edge'[w] = Edges(d) /\ latest'[w] = d /\ component'[w] = rows
          /\ link'[w] = Correlated(link[v], rows, d.fmt)
      BY <1>15, <2>2, <3>2
    <3>4. ASSUME NEW r \in Listed(d)
          PROVE  /\ rows[r] # NoRow
                 /\ rows[r].name = Entry(d, r).name /\ rows[r].version = Entry(d, r).version
                 /\ IF rows[r].path = <<>> THEN \A e \in Edges(d) : e[2] # r
                    ELSE rows[r].path \in Edges(d)
                 /\ \A c \in rows[r].cves :
                      [cve |-> c, ref |-> r, fmt |-> d.fmt, path |-> rows[r].path]
                        \in Correlated(link[v], rows, d.fmt)
      <4>1. r \in Refs /\ component[v][r] \in Columns \cup {NoRow} /\ new(r) \in Columns
        BY <1>4, <1>6
      <4>2. new(r).name = Entry(d, r).name /\ new(r).version = Entry(d, r).version
            /\ new(r).path = Path(d, r, i.seen)
        BY <1>3, ImportedTyped
      <4>3. IF Path(d, r, i.seen) = <<>> THEN \A e \in Edges(d) : e[2] # r
            ELSE Path(d, r, i.seen) \in Edges(d)
        BY <1>3, PathIsAnEdge
      <4> HIDE DEF new
      <4>4. Overlaid(component[v][r], component[v][r], new(r)) = new(r)
        BY <4>1, OverlaidAlone
      <4>5. rows[r] = new(r)
        BY <1>9, <3>2, <4>4
      <4>6. rows[r] # NoRow
        BY <4>1, <4>5, NoRowApart
      <4> QED BY <1>14, <4>1, <4>2, <4>3, <4>5, <4>6
    <3> QED BY <3>3, <3>4
  <2> QED BY <2>1, <2>2
<1> QED BY <1>17, <1>18, <1>19, <1>20, <1>21

\* Every step keeps the invariant.
LEMMA SbomKeeps == SInv /\ [SbomNext]_sbomVars => SInv'
<1> SUFFICES ASSUME SInv, [SbomNext]_sbomVars PROVE SInv'
  OBVIOUS
<1>1. ASSUME NEW h \in Importers, NEW v \in Releases, NEW d \in Documents, Read(h, v, d) PROVE SInv'
  BY <1>1, ReadKeeps
<1>2. ASSUME NEW h \in Importers, FlushRows(h) PROVE SInv'
  BY <1>2, FlushKeeps
<1>3. ASSUME NEW h \in Importers, CommitImport(h) PROVE SInv'
  BY <1>3, CommitKeeps
<1>4. ASSUME NEW h \in Importers, GiveUpImport(h) PROVE SInv'
  BY <1>4, GiveUpKeeps
<1>5. CASE UNCHANGED sbomVars
  BY <1>5 DEF sbomVars, SInv, SbomTypeOK, RowsRemain, AloneSeesAll, OtherImports, Importing,
              FewComponents, ImportTakesEffect
<1> QED BY <1>1, <1>2, <1>3, <1>4, <1>5 DEF SbomNext

\* An import that met no other one leaves the version as its document says.
THEOREM ImportsTakeEffect == SbomSpec => []ImportTakesEffect
<1>1. SInv => ImportTakesEffect
  BY DEF SInv
<1> QED BY <1>1, SbomStart, SbomKeeps, PTL DEF SbomSpec

-----------------------------------------------------------------------------
(* The comparison *)

\* A listing has every reference once.
IsListing(L) ==
  /\ IsFiniteSet(L)
  /\ \A c \in L : c.name \in DOMAIN GroupOf /\ c.version \in DOMAIN Text /\ c.ref \in DOMAIN RefText
  /\ \A c, e \in L : c.ref = e.ref => c = e

\* The components of a listing are in a strict order.
LEMMA BeforeOrders ==
    ASSUME NEW L, IsListing(L)
    PROVE  /\ \A c \in L : ~Before(c, c)
           /\ \A c, e, f \in L : Before(c, e) /\ Before(e, f) => Before(c, f)
           /\ \A c, e \in L : c # e => Before(c, e) \/ Before(e, c)
<1>1. \A c \in L : Text[c.version] \in Nat /\ RefText[c.ref] \in Nat
  BY DiffAssumption DEF IsListing
<1>2. \A c, e \in L : c # e => RefText[c.ref] # RefText[e.ref]
  BY DiffAssumption DEF IsListing
<1>3. \A c, e \in L : c.version # e.version => Text[c.version] # Text[e.version]
  BY DiffAssumption DEF IsListing
<1>4. \A c \in L : ~Before(c, c)
  BY <1>1 DEF Before
<1>5. \A c, e, f \in L : Before(c, e) /\ Before(e, f) => Before(c, f)
  BY <1>1 DEF Before
<1>6. ASSUME NEW c \in L, NEW e \in L, c # e PROVE Before(c, e) \/ Before(e, c)
  BY <1>1, <1>2, <1>3, <1>6 DEF Before
<1> QED BY <1>4, <1>5, <1>6

\* A component is preceded by fewer of its group than one that it precedes.
LEMMA RankGrows ==
    ASSUME NEW L, IsListing(L), NEW S \in SUBSET L, IsFiniteSet(S), NEW c \in S
    PROVE  /\ Rank(S, c) \in Nat /\ Rank(S, c) < Cardinality(S)
           /\ \A e \in S : Before(c, e) => Rank(S, c) < Rank(S, e)
<1> DEFINE below(x) == {y \in S : Before(y, x)}
<1>1. \A x : below(x) \in SUBSET S
  OBVIOUS
<1>2. \A x : Rank(S, x) = Cardinality(below(x))
  BY DEF Rank
<1>3. c \notin below(c)
  BY BeforeOrders
<1>4. \A e \in S : Before(c, e) => c \in below(e) /\ below(c) \subseteq below(e)
  BY BeforeOrders
<1> HIDE DEF below
<1>5. \A x : IsFiniteSet(below(x)) /\ Cardinality(below(x)) \in Nat
  BY <1>1, FS_Subset, FS_CardinalityType
<1>6. Cardinality(below(c)) <= Cardinality(S) /\ (Cardinality(S) = Cardinality(below(c)) => S = below(c))
  BY <1>1, FS_Subset
<1>7. Cardinality(S) \in Nat
  BY FS_CardinalityType
<1>8. ASSUME NEW e \in S, Before(c, e) PROVE Rank(S, c) < Rank(S, e)
  <2>1. below(c) \in SUBSET below(e) /\ below(c) # below(e)
    BY <1>3, <1>4, <1>8
  <2>2. Cardinality(below(c)) <= Cardinality(below(e))
        /\ (Cardinality(below(e)) = Cardinality(below(c)) => below(e) = below(c))
    BY <2>1, <1>5, FS_Subset
  <2> QED BY <1>2, <1>5, <2>1, <2>2
<1> QED BY <1>2, <1>3, <1>5, <1>6, <1>7, <1>8

\* Sorting a group loses no component and repeats none.
LEMMA SortedEnumerates ==
    ASSUME NEW L, IsListing(L), NEW g
    PROVE  LET s == Sorted(L, g)  n == Cardinality(InGroup(L, g)) IN
           /\ n \in Nat /\ DOMAIN s = 1..n
           /\ \A i \in 1..n : s[i] \in InGroup(L, g)
           /\ \A c \in InGroup(L, g) : \E i \in 1..n : s[i] = c
           /\ \A i, j \in 1..n : s[i] = s[j] => i = j
<1> DEFINE S == InGroup(L, g)
           n == Cardinality(S)
           s == Sorted(L, g)
           place == [c \in S |-> Rank(S, c) + 1]
<1>1. S \in SUBSET L /\ IsFiniteSet(S)
  <2>1. S \in SUBSET L
    BY DEF InGroup
  <2> QED BY <2>1, FS_Subset DEF IsListing
<1>2. n \in Nat
  BY <1>1, FS_CardinalityType
<1>3. s = [i \in 1..n |-> CHOOSE c \in S : Rank(S, c) = i - 1]
  BY DEF Sorted
<1> HIDE DEF S, n, s
<1>4. \A c \in S : Rank(S, c) \in Nat /\ Rank(S, c) < n
  BY <1>1, RankGrows DEF n
<1>5. ASSUME NEW c \in S, NEW e \in S, Rank(S, c) = Rank(S, e) PROVE c = e
  <2>1. c # e => Before(c, e) \/ Before(e, c)
    BY <1>1, BeforeOrders
  <2>2. Before(c, e) => Rank(S, c) < Rank(S, e)
    BY <1>1, RankGrows
  <2>3. Before(e, c) => Rank(S, e) < Rank(S, c)
    BY <1>1, RankGrows
  <2> QED BY <1>4, <1>5, <2>1, <2>2, <2>3
<1>6. place \in Injection(S, 1..n)
  <2>1. place \in [S -> 1..n]
    BY <1>2, <1>4
  <2>2. \A c, e \in S : place[c] = place[e] => c = e
    BY <1>4, <1>5
  <2> QED BY <2>1, <2>2 DEF Injection, IsInjective
<1>7. place \in Surjection(S, 1..n)
  <2>1. IsFiniteSet(1..n) /\ Cardinality(1..n) = n
    BY <1>2, FS_Interval
  <2> HIDE DEF place
  <2> QED BY <1>6, <2>1, FS_Injection DEF n
<1>8. \A i \in 1..n : \E c \in S : Rank(S, c) + 1 = i
  <2>1. \A i \in 1..n : \E c \in S : place[c] = i
    <3> HIDE DEF place
    <3> QED BY <1>7 DEF Surjection
  <2> QED BY <2>1
<1>9. ASSUME NEW i \in 1..n PROVE s[i] \in S /\ Rank(S, s[i]) = i - 1
  <2>1. \E c \in S : Rank(S, c) = i - 1
    BY <1>4, <1>8
  <2>2. s[i] = CHOOSE c \in S : Rank(S, c) = i - 1
    BY <1>3
  <2> QED BY <2>1, <2>2
<1>10. \A c \in S : \E i \in 1..n : s[i] = c
  <2> SUFFICES ASSUME NEW c \in S PROVE \E i \in 1..n : s[i] = c
    OBVIOUS
  <2>1. PICK i \in 1..n : i = Rank(S, c) + 1
    BY <1>2, <1>4
  <2>2. s[i] \in S /\ Rank(S, s[i]) = i - 1
    BY <1>9
  <2>3. i - 1 = Rank(S, c)
    BY <1>4, <2>1
  <2>4. s[i] = c
    BY <1>5, <2>2, <2>3
  <2> QED BY <2>4
<1>11. \A i, j \in 1..n : s[i] = s[j] => i = j
  <2> SUFFICES ASSUME NEW i \in 1..n, NEW j \in 1..n, s[i] = s[j] PROVE i = j
    OBVIOUS
  <2>1. i - 1 = j - 1
    BY <1>9
  <2> QED BY <1>2, <2>1
<1>12. DOMAIN s = 1..n
  BY <1>3
<1> QED BY <1>2, <1>9, <1>10, <1>11, <1>12 DEF s, n, S

\* A component is in one pair at most, of its group, and what is in none is unpaired.
LEMMA PairsMatch ==
    ASSUME NEW from, IsListing(from), NEW to, IsListing(to)
    PROVE  /\ \A p \in Pairs(from, to) :
                /\ p = <<p[1], p[2]>> /\ p[1] \in from /\ p[2] \in to
                /\ GroupOf[p[1].name] = GroupOf[p[2].name]
           /\ \A p, q \in Pairs(from, to) : p[1] = q[1] <=> p[2] = q[2]
           /\ Unpaired(from, to) = from \ Olds(Pairs(from, to))
           /\ Pairs(to, from) = Flipped(Pairs(from, to))
<1> DEFINE a(g) == Sorted(from, g)
           b(g) == Sorted(to, g)
           n(g) == Cardinality(InGroup(from, g))
           m(g) == Cardinality(InGroup(to, g))
<1>1. ASSUME NEW g
      PROVE  /\ n(g) \in Nat /\ DOMAIN a(g) = 1..n(g)
             /\ \A i \in 1..n(g) : a(g)[i] \in InGroup(from, g)
             /\ \A c \in InGroup(from, g) : \E i \in 1..n(g) : a(g)[i] = c
             /\ \A i, j \in 1..n(g) : a(g)[i] = a(g)[j] => i = j
  BY SortedEnumerates
<1>2. ASSUME NEW g
      PROVE  /\ m(g) \in Nat /\ DOMAIN b(g) = 1..m(g)
             /\ \A i \in 1..m(g) : b(g)[i] \in InGroup(to, g)
             /\ \A c \in InGroup(to, g) : \E i \in 1..m(g) : b(g)[i] = c
             /\ \A i, j \in 1..m(g) : b(g)[i] = b(g)[j] => i = j
  BY SortedEnumerates
<1>3. Pairs(from, to) = UNION {{<<a(g)[i], b(g)[i]>> : i \in DOMAIN a(g) \cap DOMAIN b(g)} : g \in Groups}
  BY DEF Pairs
<1>4. Pairs(to, from) = UNION {{<<b(g)[i], a(g)[i]>> : i \in DOMAIN b(g) \cap DOMAIN a(g)} : g \in Groups}
  BY DEF Pairs
<1>5. Unpaired(from, to) = UNION {{a(g)[i] : i \in DOMAIN a(g) \ DOMAIN b(g)} : g \in Groups}
  BY DEF Unpaired
<1> HIDE DEF a, b, n, m
<1>6. ASSUME NEW p \in Pairs(from, to)
      PROVE  \E g \in Groups : \E i \in (1..n(g)) \cap (1..m(g)) : p = <<a(g)[i], b(g)[i]>>
  BY <1>1, <1>2, <1>3
<1>7. ASSUME NEW g \in Groups, NEW i \in (1..n(g)) \cap (1..m(g))
      PROVE  <<a(g)[i], b(g)[i]>> \in Pairs(from, to)
  BY <1>1, <1>2, <1>3
<1>8. ASSUME NEW p \in Pairs(from, to)
      PROVE  /\ p = <<p[1], p[2]>> /\ p[1] \in from /\ p[2] \in to
             /\ GroupOf[p[1].name] = GroupOf[p[2].name]
  <2>1. PICK g \in Groups : \E i \in (1..n(g)) \cap (1..m(g)) : p = <<a(g)[i], b(g)[i]>>
    BY <1>6
  <2>2. PICK i \in (1..n(g)) \cap (1..m(g)) : p = <<a(g)[i], b(g)[i]>>
    BY <2>1
  <2>3. a(g)[i] \in InGroup(from, g) /\ b(g)[i] \in InGroup(to, g)
    BY <1>1, <1>2
  <2> QED BY <2>2, <2>3 DEF InGroup
<1>9. ASSUME NEW p \in Pairs(from, to), NEW q \in Pairs(from, to)
      PROVE  p[1] = q[1] <=> p[2] = q[2]
  <2>1. PICK g \in Groups : \E i \in (1..n(g)) \cap (1..m(g)) : p = <<a(g)[i], b(g)[i]>>
    BY <1>6
  <2>2. PICK i \in (1..n(g)) \cap (1..m(g)) : p = <<a(g)[i], b(g)[i]>>
    BY <2>1
  <2>3. PICK h \in Groups : \E j \in (1..n(h)) \cap (1..m(h)) : q = <<a(h)[j], b(h)[j]>>
    BY <1>6
  <2>4. PICK j \in (1..n(h)) \cap (1..m(h)) : q = <<a(h)[j], b(h)[j]>>
    BY <2>3
  <2>5. a(g)[i] \in InGroup(from, g) /\ b(g)[i] \in InGroup(to, g)
        /\ a(h)[j] \in InGroup(from, h) /\ b(h)[j] \in InGroup(to, h)
    BY <1>1, <1>2
  <2>6. p[1] = q[1] \/ p[2] = q[2] => g = h
    BY <2>2, <2>4, <2>5 DEF InGroup
  <2>7. g = h => (a(g)[i] = a(h)[j] <=> b(g)[i] = b(h)[j])
    BY <1>1, <1>2
  <2> QED BY <2>2, <2>4, <2>6, <2>7
<1>10. ASSUME NEW c \in from
       PROVE  \E g \in Groups : \E i \in 1..n(g) : c = a(g)[i]
  <2>1. GroupOf[c.name] \in Groups /\ c \in InGroup(from, GroupOf[c.name])
    BY DEF Groups, InGroup, IsListing
  <2> QED BY <1>1, <2>1
<1>11. ASSUME NEW c \in Unpaired(from, to) PROVE c \in from \ Olds(Pairs(from, to))
  <2>0. PICK g \in Groups : \E i \in DOMAIN a(g) \ DOMAIN b(g) : c = a(g)[i]
    BY <1>5
  <2>1. PICK i \in (1..n(g)) \ (1..m(g)) : c = a(g)[i]
    BY <1>1, <1>2, <2>0
  <2>2. c \in InGroup(from, g)
    BY <1>1, <2>1
  <2>3. ASSUME NEW p \in Pairs(from, to), p[1] = c PROVE FALSE
    <3>0. PICK h \in Groups : \E j \in (1..n(h)) \cap (1..m(h)) : p = <<a(h)[j], b(h)[j]>>
      BY <1>6
    <3>1. PICK j \in (1..n(h)) \cap (1..m(h)) : p = <<a(h)[j], b(h)[j]>>
      BY <3>0
    <3>2. a(h)[j] = c /\ c \in InGroup(from, h)
      BY <1>1, <2>3, <3>1
    <3>3. g = h
      BY <2>2, <3>2 DEF InGroup
    <3>4. i = j
      BY <1>1, <2>1, <3>2, <3>3
    <3> QED BY <2>1, <3>3, <3>4
  <2> QED BY <2>2, <2>3 DEF InGroup, Olds
<1>12. ASSUME NEW c \in from \ Olds(Pairs(from, to)) PROVE c \in Unpaired(from, to)
  <2>0. PICK g \in Groups : \E i \in 1..n(g) : c = a(g)[i]
    BY <1>10
  <2>1. PICK i \in 1..n(g) : c = a(g)[i]
    BY <2>0
  <2>2. ASSUME i \in 1..m(g) PROVE FALSE
    <3>1. <<a(g)[i], b(g)[i]>> \in Pairs(from, to)
      BY <1>7, <2>2
    <3>2. c \in Olds(Pairs(from, to))
      BY <2>1, <3>1 DEF Olds
    <3> QED BY <3>2
  <2> QED BY <1>1, <1>2, <1>5, <2>1, <2>2
<1>13. Unpaired(from, to) = from \ Olds(Pairs(from, to))
  BY <1>11, <1>12
<1>14. Pairs(to, from) = Flipped(Pairs(from, to))
  <2>1. ASSUME NEW q \in Pairs(to, from) PROVE q \in Flipped(Pairs(from, to))
    <3>0. PICK g \in Groups : \E i \in DOMAIN b(g) \cap DOMAIN a(g) : q = <<b(g)[i], a(g)[i]>>
      BY <1>4
    <3>1. PICK i \in (1..n(g)) \cap (1..m(g)) : q = <<b(g)[i], a(g)[i]>>
      BY <1>1, <1>2, <3>0
    <3>2. <<a(g)[i], b(g)[i]>> \in Pairs(from, to)
      BY <1>7
    <3> QED BY <3>1, <3>2 DEF Flipped
  <2>2. ASSUME NEW p \in Pairs(from, to) PROVE <<p[2], p[1]>> \in Pairs(to, from)
    <3>0. PICK g \in Groups : \E i \in (1..n(g)) \cap (1..m(g)) : p = <<a(g)[i], b(g)[i]>>
      BY <1>6
    <3>1. PICK i \in (1..n(g)) \cap (1..m(g)) : p = <<a(g)[i], b(g)[i]>>
      BY <3>0
    <3>2. <<b(g)[i], a(g)[i]>> \in Pairs(to, from)
      BY <1>1, <1>2, <1>4
    <3> QED BY <3>1, <3>2
  <2> QED BY <2>1, <2>2 DEF Flipped
<1> QED BY <1>8, <1>9, <1>13, <1>14

\* What is reported turns the one listing into the other, and nothing is counted twice.
LEMMA ReportTransforms ==
    ASSUME NEW from, IsListing(from), NEW to, IsListing(to)
    PROVE  Transforms(from, to)
<1> DEFINE pairs == Pairs(from, to)
           changed == ChangedComponents(from, to)
           added == AddedComponents(from, to)
           removed == RemovedComponents(from, to)
           View(c) == [group |-> GroupOf[c.name], ref |-> c.ref, version |-> c.version]
<1>1. /\ \A p \in pairs : /\ p = <<p[1], p[2]>> /\ p[1] \in from /\ p[2] \in to
                          /\ GroupOf[p[1].name] = GroupOf[p[2].name]
      /\ \A p, q \in pairs : p[1] = q[1] <=> p[2] = q[2]
      /\ removed = from \ Olds(pairs)
  BY PairsMatch DEF RemovedComponents
<1>2. added = to \ News(pairs)
  <2>1. added = to \ Olds(Pairs(to, from)) /\ Pairs(to, from) = Flipped(pairs)
    BY PairsMatch DEF AddedComponents
  <2>2. Olds(Flipped(pairs)) = News(pairs)
    <3> HIDE DEF pairs
    <3>1. \A p \in pairs : <<p[2], p[1]>>[1] = p[2]
      OBVIOUS
    <3>2. Olds(Flipped(pairs)) \subseteq News(pairs)
      BY <3>1 DEF Olds, News, Flipped
    <3>3. News(pairs) \subseteq Olds(Flipped(pairs))
      BY <3>1 DEF Olds, News, Flipped
    <3> QED BY <3>2, <3>3
  <2> QED BY <2>1, <2>2
<1>3. changed = {p \in pairs : p[1].version # p[2].version \/ p[1].ref # p[2].ref}
  BY DEF ChangedComponents
<1> HIDE DEF pairs, changed, added, removed
<1>4. Olds(pairs) \subseteq from /\ News(pairs) \subseteq to
  BY <1>1 DEF Olds, News
<1>5. \A c, e : View(c) = View(e) <=> /\ GroupOf[c.name] = GroupOf[e.name]
                                    /\ c.ref = e.ref /\ c.version = e.version
  <2> SUFFICES ASSUME NEW c, NEW e
               PROVE  View(c) = View(e) <=> /\ GroupOf[c.name] = GroupOf[e.name]
                                            /\ c.ref = e.ref /\ c.version = e.version
    OBVIOUS
  <2>1. /\ View(c).group = GroupOf[c.name] /\ View(c).ref = c.ref /\ View(c).version = c.version
        /\ View(e).group = GroupOf[e.name] /\ View(e).ref = e.ref /\ View(e).version = e.version
    OBVIOUS
  <2> QED BY <2>1
<1>6. \A cs : Visible(cs) = {View(c) : c \in cs}
  BY DEF Visible
<1> HIDE DEF View
<1>7. \A c, e \in from : View(c) = View(e) => c = e
  BY <1>5 DEF IsListing
<1>8. \A p \in pairs \ changed : View(p[1]) = View(p[2])
  BY <1>1, <1>3, <1>5
<1>9. Visible(to) \subseteq (Visible(from) \ Visible(removed \cup Olds(changed)))
                              \cup Visible(added \cup News(changed))
  <2> SUFFICES ASSUME NEW c \in to, c \notin added \cup News(changed)
               PROVE  View(c) \in Visible(from) \ Visible(removed \cup Olds(changed))
    BY <1>6
  <2>1. PICK p \in pairs \ changed : p[2] = c
    BY <1>2 DEF News
  <2>2. p[1] \in from /\ View(p[1]) = View(c)
    BY <1>1, <1>8, <2>1
  <2>3. ASSUME NEW e \in removed \cup Olds(changed), View(e) = View(c) PROVE FALSE
    <3>1. e \in from
      BY <1>1, <1>3, <1>4 DEF Olds
    <3>2. e = p[1]
      BY <1>7, <2>2, <2>3, <3>1
    <3>3. e \notin removed
      BY <1>1, <2>1, <3>2 DEF Olds
    <3>4. PICK q \in changed : q[1] = p[1]
      BY <3>2, <3>3 DEF Olds
    <3>5. q \in pairs /\ q[2] = p[2]
      BY <1>1, <1>3, <2>1, <3>4
    <3>6. q = p
      BY <1>1, <2>1, <3>4, <3>5
    <3> QED BY <2>1, <3>4, <3>6
  <2> QED BY <1>6, <2>2, <2>3
<1>10. (Visible(from) \ Visible(removed \cup Olds(changed))) \subseteq Visible(to)
  <2> SUFFICES ASSUME NEW c \in from, c \notin removed \cup Olds(changed)
               PROVE  View(c) \in Visible(to)
    BY <1>6
  <2>1. PICK p \in pairs : p[1] = c
    BY <1>1 DEF Olds
  <2>2. p \notin changed
    BY <2>1 DEF Olds
  <2>3. p[2] \in to /\ View(c) = View(p[2])
    BY <1>1, <1>8, <2>1, <2>2
  <2> QED BY <1>6, <2>3
<1>11. Visible(added \cup News(changed)) \subseteq Visible(to)
  <2>1. added \cup News(changed) \subseteq to
    BY <1>1, <1>2, <1>3 DEF News
  <2> QED BY <1>6, <2>1
<1>12. Cardinality(to) + Cardinality(removed) = Cardinality(from) + Cardinality(added)
  <2> DEFINE partner == [c \in Olds(pairs) |-> (CHOOSE p \in pairs : p[1] = c)[2]]
  <2>1. \A p \in pairs : partner[p[1]] = p[2]
    <3> SUFFICES ASSUME NEW p \in pairs PROVE partner[p[1]] = p[2]
      OBVIOUS
    <3>1. p[1] \in Olds(pairs)
      BY DEF Olds
    <3> DEFINE q == CHOOSE q \in pairs : q[1] = p[1]
    <3>2. q \in pairs /\ q[1] = p[1]
      OBVIOUS
    <3>3. partner[p[1]] = q[2]
      BY <3>1
    <3> HIDE DEF q, partner
    <3> QED BY <1>1, <3>2, <3>3
  <2>2. DOMAIN partner = Olds(pairs) /\ partner = [c \in Olds(pairs) |-> partner[c]]
    OBVIOUS
  <2> HIDE DEF partner
  <2>3. partner \in Bijection(Olds(pairs), News(pairs))
    <3>1. \A c \in Olds(pairs) : partner[c] \in News(pairs)
      BY <2>1 DEF Olds, News
    <3>2. partner \in [Olds(pairs) -> News(pairs)]
      BY <2>2, <3>1
    <3>3. \A c, e \in Olds(pairs) : partner[c] = partner[e] => c = e
      BY <1>1, <2>1 DEF Olds
    <3>4. \A c \in News(pairs) : \E e \in Olds(pairs) : partner[e] = c
      BY <2>1 DEF Olds, News
    <3> QED BY <3>2, <3>3, <3>4 DEF Bijection, Injection, Surjection, IsInjective
  <2>4. ExistsBijection(Olds(pairs), News(pairs))
    BY <2>3 DEF ExistsBijection
  <2>5. IsFiniteSet(from) /\ IsFiniteSet(to)
    BY DEF IsListing
  <2>6. IsFiniteSet(Olds(pairs))
    BY <1>4, <2>5, FS_Subset
  <2>7. Cardinality(Olds(pairs)) = Cardinality(News(pairs))
    BY <2>4, <2>6, FS_Bijection
  <2>8. Cardinality(removed) = Cardinality(from) - Cardinality(Olds(pairs))
    <3>1. from \cap Olds(pairs) = Olds(pairs)
      BY <1>4
    <3>2. Cardinality(from \ Olds(pairs)) = Cardinality(from) - Cardinality(from \cap Olds(pairs))
      BY <2>5, FS_Difference
    <3> QED BY <1>1, <3>1, <3>2
  <2>9. Cardinality(added) = Cardinality(to) - Cardinality(News(pairs))
    <3>1. to \cap News(pairs) = News(pairs)
      BY <1>4
    <3>2. Cardinality(to \ News(pairs)) = Cardinality(to) - Cardinality(to \cap News(pairs))
      BY <2>5, FS_Difference
    <3> QED BY <1>2, <3>1, <3>2
  <2>10. Cardinality(from) \in Nat /\ Cardinality(to) \in Nat /\ Cardinality(Olds(pairs)) \in Nat
    BY <2>5, <2>6, FS_CardinalityType
  <2> QED BY <2>7, <2>8, <2>9, <2>10
<1>13. removed \cap Olds(pairs) = {} /\ added \cap News(pairs) = {}
  BY <1>1, <1>2
<1>14. Visible(to) = (Visible(from) \ Visible(removed \cup Olds(changed)))
                       \cup Visible(added \cup News(changed))
  BY <1>9, <1>10, <1>11
<1> QED BY <1>12, <1>13, <1>14 DEF Transforms, pairs, changed, added, removed

\* The comparison the other way round reports the reverse.
LEMMA ReportMirrored ==
    ASSUME NEW from, IsListing(from), NEW to, IsListing(to)
    PROVE  Mirrored(from, to)
<1>1. Pairs(to, from) = Flipped(Pairs(from, to))
      /\ \A p \in Pairs(from, to) : p = <<p[1], p[2]>> /\ p[1] \in from /\ p[2] \in to
  BY PairsMatch
<1>2. \A c \in from \cup to : c.version \in DOMAIN Text
  BY DEF IsListing
<1>3. \A c, e \in from \cup to : Older(c.version, e.version) => ~Older(e.version, c.version)
  <2> SUFFICES ASSUME NEW c \in from \cup to, NEW e \in from \cup to,
                      Older(c.version, e.version), Older(e.version, c.version)
               PROVE  FALSE
    OBVIOUS
  <2> DEFINE v == c.version  w == e.version
  <2>1. Lowered[v] \in Nat /\ Lowered[w] \in Nat
    BY <1>2, DiffAssumption
  <2> HIDE DEF v, w
  <2>2. CASE {v, w} \subseteq DOMAIN Parsed
    <3>1. Parsed[v] \in Nat /\ Parsed[w] \in Nat
      BY <2>2, DiffAssumption
    <3>2. Parsed[v] < Parsed[w] /\ Parsed[w] < Parsed[v]
      BY <2>2 DEF Older, v, w
    <3> QED BY <3>1, <3>2
  <2>3. CASE ~({v, w} \subseteq DOMAIN Parsed)
    <3>1. Lowered[v] < Lowered[w] /\ Lowered[w] < Lowered[v]
      BY <2>3 DEF Older, v, w
    <3> QED BY <2>1, <3>1
  <2> QED BY <2>2, <2>3
<1>4. Flipped(Moved(from, to)) = Moved(to, from)
  BY <1>1 DEF Flipped, Moved
<1>5. \A p \in Moved(from, to) : p \in Pairs(from, to)
  BY DEF Moved
<1>6. Flipped(Upgrades(from, to)) \subseteq Downgrades(to, from)
  <2> SUFFICES ASSUME NEW p \in Upgrades(from, to) PROVE <<p[2], p[1]>> \in Downgrades(to, from)
    BY DEF Flipped
  <2>1. p \in Moved(from, to) /\ Older(p[1].version, p[2].version)
    BY DEF Upgrades
  <2>2. ~Older(p[2].version, p[1].version)
    BY <1>1, <1>3, <1>5, <2>1
  <2>3. <<p[2], p[1]>> \in Moved(to, from)
    BY <1>4, <2>1 DEF Flipped
  <2> QED BY <2>2, <2>3 DEF Downgrades, Upgrades
<1>7. ASSUME NEW p \in Flipped(Downgrades(from, to)) \ Upgrades(to, from)
      PROVE  ~Older(p[1].version, p[2].version) /\ ~Older(p[2].version, p[1].version)
  <2>1. PICK q \in Downgrades(from, to) : p = <<q[2], q[1]>>
    BY DEF Flipped
  <2>2. q \in Moved(from, to) /\ ~Older(q[1].version, q[2].version)
    BY DEF Downgrades, Upgrades
  <2>3. p \in Moved(to, from)
    BY <1>4, <2>1, <2>2 DEF Flipped
  <2> QED BY <2>1, <2>2, <2>3 DEF Upgrades
<1> QED BY <1>6, <1>7 DEF Mirrored

\* A listing has not changed since itself.
LEMMA NothingChangedBySelf ==
    ASSUME NEW from, IsListing(from)
    PROVE  ChangedComponents(from, from) = {}
<1>1. \A p \in Pairs(from, from) : p[1] = p[2]
  BY DEF Pairs
<1> QED BY <1>1 DEF ChangedComponents

\* What the imports leave of a version, and what a document lists, can be compared.
LEMMA ListingsCompared ==
    ASSUME SInv
    PROVE  /\ \A v \in Releases : IsListing(Listing(v))
           /\ \A d \in Documents : IsListing(ListingOf(d))
<1> USE DEF SInv
<1>1. ASSUME NEW v \in Releases PROVE IsListing(Listing(v))
  <2> DEFINE there == {r \in Refs : component[v][r] # NoRow}
             c(r) == [ref |-> r, name |-> component[v][r].name, version |-> component[v][r].version]
             all == [r \in there |-> c(r)]
  <2>1. IsFiniteSet(there)
    BY DEF FewComponents
  <2>2. all \in Surjection(there, Listing(v))
    BY DEF Surjection, Listing
  <2>3. IsFiniteSet(Listing(v))
    <3> HIDE DEF there, all
    <3> QED BY <2>1, <2>2, FS_Surjection
  <2>4. \A r \in there : component[v][r].name \in Names /\ component[v][r].version \in Versions
    BY DEF SbomTypeOK, Columns
  <2>5. ASSUME NEW e \in Listing(v)
        PROVE  \E r \in there : e = c(r)
    BY DEF Listing
  <2>6. \A r : c(r).ref = r /\ c(r).name = component[v][r].name
              /\ c(r).version = component[v][r].version
    OBVIOUS
  <2> HIDE DEF c, all
  <2>7. \A e \in Listing(v) : e.name \in DOMAIN GroupOf /\ e.version \in DOMAIN Text
                              /\ e.ref \in DOMAIN RefText
    BY <2>4, <2>5, <2>6, SbomAssumption
  <2>8. \A e, f \in Listing(v) : e.ref = f.ref => e = f
    BY <2>5, <2>6
  <2> QED BY <2>3, <2>7, <2>8 DEF IsListing
<1>2. ASSUME NEW d \in Documents PROVE IsListing(ListingOf(d))
  <2> DEFINE c(r) == [ref |-> r, name |-> Entry(d, r).name, version |-> Entry(d, r).version]
             all == [r \in Listed(d) |-> c(r)]
  <2>1. IsFiniteSet(Listed(d)) /\ Listed(d) \subseteq Refs
    BY ListedFinite
  <2>2. all \in Surjection(Listed(d), ListingOf(d))
    BY DEF Surjection, ListingOf
  <2>3. IsFiniteSet(ListingOf(d))
    <3> HIDE DEF all
    <3> QED BY <2>1, <2>2, FS_Surjection
  <2>4. \A r \in Listed(d) : Entry(d, r).name \in Names /\ Entry(d, r).version \in Versions
    BY EntryTyped
  <2>5. ASSUME NEW e \in ListingOf(d)
        PROVE  \E r \in Listed(d) : e = c(r)
    BY DEF ListingOf
  <2>6. \A r : c(r).ref = r /\ c(r).name = Entry(d, r).name /\ c(r).version = Entry(d, r).version
    OBVIOUS
  <2> HIDE DEF c, all
  <2>7. \A e \in ListingOf(d) : e.name \in DOMAIN GroupOf /\ e.version \in DOMAIN Text
                                /\ e.ref \in DOMAIN RefText
    BY <2>1, <2>4, <2>5, <2>6, SbomAssumption
  <2>8. \A e, f \in ListingOf(d) : e.ref = f.ref => e = f
    BY <2>5, <2>6
  <2> QED BY <2>3, <2>7, <2>8 DEF IsListing
<1> QED BY <1>1, <1>2

\* Whatever the imports have left of a version, its comparison accounts for every component,
\* once, and turns around.
THEOREM ComparisonsAccount == SbomSpec => []ComparisonAccounts
<1>1. ASSUME SInv PROVE ComparisonAccounts
  <2> SUFFICES ASSUME NEW v \in Releases,
                      NEW to \in {Listing(w) : w \in Releases} \cup {ListingOf(d) : d \in Documents}
               PROVE  /\ ChangedComponents(Listing(v), Listing(v)) = {}
                      /\ Transforms(Listing(v), to) /\ Transforms(to, Listing(v))
                      /\ Mirrored(Listing(v), to)
    BY DEF ComparisonAccounts
  <2>1. IsListing(Listing(v)) /\ IsListing(to)
    BY <1>1, ListingsCompared
  <2> QED BY <2>1, ReportTransforms, ReportMirrored, NothingChangedBySelf
<1> QED BY <1>1, SbomStart, SbomKeeps, PTL DEF SbomSpec
=============================================================================
