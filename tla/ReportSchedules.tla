-------------------------- MODULE ReportSchedules ---------------------------
(***************************************************************************)
(* Report schedules and the templates they may follow                      *)
(* (api/report_schedules.py, api/report_templates.py,                      *)
(* api/report_exports.py).  A schedule runs when a user asks for it: it    *)
(* loads the row, renders, delivers, and then writes the columns whose     *)
(* values differ from those it loaded.                                     *)
(***************************************************************************)
EXTENDS Integers, FiniteSets

CONSTANTS Plans, Forms,  \* schedules and templates
          Senders,       \* runs at the same time
          MaxStreak      \* bound on the failures counted in a row

ASSUME PlanAssumption == "none" \notin Forms \cup Plans /\ MaxStreak \in Nat

VARIABLES form,     \* template -> "unmade", "made" or "gone"
          plan,     \* schedule -> row
          sender,   \* run -> the schedule it delivers and the columns it loaded
          streak,   \* schedule -> failures recorded since the last success
          mingled   \* schedules whose last recorded runs overlapped

planVars == <<form, plan, sender, streak, mingled>>

\* "own": the recipients it stores itself.
NoPlan == [life |-> "unmade", own |-> FALSE, form |-> "none",
           status |-> "never", retries |-> 0, wait |-> 0]
NotSending == [plan |-> "none", retries |-> 0, status |-> "never", wait |-> 0,
               mingled |-> FALSE]
Statuses == {"never", "success", "retrying", "failed"}

\* _retry_window_minutes, and 0 for next_retry_at NULL
RetryWait(n) == CASE n <= 0 -> 0 [] n >= 7 -> 240 [] OTHER -> 5 * 2 ^ (n - 1)

PlanTypeOK ==
  /\ form \in [Forms -> {"unmade", "made", "gone"}]
  /\ plan \in [Plans -> [life : {"unmade", "made", "gone"}, own : BOOLEAN, form : Forms \cup {"none"},
                         status : Statuses, retries : 0 .. MaxStreak, wait : 0 .. 240]]
  /\ sender \in [Senders -> [plan : Plans \cup {"none"}, retries : 0 .. MaxStreak,
                             status : Statuses, wait : 0 .. 240, mingled : BOOLEAN]]
  /\ streak \in [Plans -> 0 .. MaxStreak] /\ mingled \subseteq Plans

Planned(p) == plan[p].life = "made"

-----------------------------------------------------------------------------
(* Templates and schedules *)

\* create_report_template; _parse_recipients refuses an empty list.
MakeForm(f) ==
  /\ form[f] = "unmade" /\ form' = [form EXCEPT ![f] = "made"]
  /\ UNCHANGED <<plan, sender, streak, mingled>>

\* delete_report_template; the foreign key is ON DELETE SET NULL.
DropForm(f) ==
  /\ form[f] = "made" /\ form' = [form EXCEPT ![f] = "gone"]
  /\ plan' = [p \in Plans |->
       IF plan[p].form = f THEN [plan[p] EXCEPT !.form = "none"] ELSE plan[p]]
  /\ UNCHANGED <<sender, streak, mingled>>

\* The template's list replaces the one given; one of the two is required.
OwnRecipients(f, given) == given \/ f # "none"

\* What report_template_id may come to; an id that names no template comes to none.
Choices == {"none"} \cup {f \in Forms : form[f] = "made"}

\* create_report_schedule
MakePlan(p, f, given) ==
  /\ plan[p].life = "unmade" /\ f \in Choices /\ (f = "none" => given)
  /\ plan' = [plan EXCEPT ![p] =
       [NoPlan EXCEPT !.life = "made", !.form = f, !.own = OwnRecipients(f, given)]]
  /\ UNCHANGED <<form, sender, streak, mingled>>

\* update_report_schedule: another template or none; recipients, when given, are not
\* empty, and the delivery columns are not touched.
FollowForm(p, f) ==
  /\ Planned(p) /\ f \in Choices \ {plan[p].form}
  /\ plan' = [plan EXCEPT ![p].form = f]
  /\ UNCHANGED <<form, sender, streak, mingled>>

\* delete_report_schedule; a run of it that is under way cannot be recorded.
DropPlan(p) ==
  /\ Planned(p) /\ plan' = [plan EXCEPT ![p].life = "gone"]
  /\ UNCHANGED <<form, sender, streak, mingled>>

-----------------------------------------------------------------------------
(* Runs *)

\* run_report_schedule loads the schedule ...
Run(h, p) ==
  LET meets == \E g \in Senders : sender[g].plan = p IN
  /\ sender[h] = NotSending /\ Planned(p) /\ plan[p].retries < MaxStreak
  /\ sender' = [g \in Senders |->
       IF g = h THEN [plan |-> p, retries |-> plan[p].retries, status |-> plan[p].status,
                      wait |-> plan[p].wait, mingled |-> meets]
       ELSE IF sender[g].plan = p THEN [sender[g] EXCEPT !.mingled = TRUE]
       ELSE sender[g]]
  /\ UNCHANGED <<form, plan, streak, mingled>>

\* Fault: a success leaves the retry counter as it is.
CounterKept(ok, retries) == IF ok THEN retries ELSE retries + 1

Counted(ok, retries) == IF ok THEN 0 ELSE retries + 1

\* _mark_schedule_delivery_state
Marked(ok, retries) ==
  LET n == Counted(ok, retries) IN
  [retries |-> n, wait |-> IF ok THEN 0 ELSE RetryWait(n),
   status |-> IF ok THEN "success" ELSE IF n < 5 THEN "retrying" ELSE "failed"]

\* ... and, after the delivery, commits the columns that changed.
Record(h, ok) ==
  LET s == sender[h]  p == s.plan  to == Marked(ok, s.retries)  row == plan[p] IN
  /\ p \in Plans /\ Planned(p) /\ streak[p] < MaxStreak
  /\ plan' = [plan EXCEPT ![p] =
       [life |-> row.life, own |-> row.own, form |-> row.form,
        retries |-> IF to.retries = s.retries THEN row.retries ELSE to.retries,
        status |-> IF to.status = s.status THEN row.status ELSE to.status,
        wait |-> IF to.wait = s.wait THEN row.wait ELSE to.wait]]
  /\ streak' = [streak EXCEPT ![p] = IF ok THEN 0 ELSE @ + 1]
  /\ mingled' = IF s.mingled THEN mingled \cup {p}
                ELSE IF ok THEN mingled \ {p} ELSE mingled
  /\ sender' = [sender EXCEPT ![h] = NotSending]
  /\ UNCHANGED form

\* The report has gone out or not; the request dies before the commit.
RunLost(h) ==
  /\ sender[h] # NotSending /\ sender' = [sender EXCEPT ![h] = NotSending]
  /\ UNCHANGED <<form, plan, streak, mingled>>

PlanInit ==
  /\ form = [f \in Forms |-> "unmade"] /\ plan = [p \in Plans |-> NoPlan]
  /\ sender = [h \in Senders |-> NotSending] /\ streak = [p \in Plans |-> 0]
  /\ mingled = {}

PlanNext ==
  \/ \E f \in Forms : MakeForm(f) \/ DropForm(f)
  \/ \E p \in Plans : DropPlan(p)
  \/ \E p \in Plans, f \in Forms \cup {"none"} :
       FollowForm(p, f) \/ \E given \in BOOLEAN : MakePlan(p, f, given)
  \/ \E h \in Senders : RunLost(h) \/ \E ok \in BOOLEAN : Record(h, ok)
  \/ \E h \in Senders, p \in Plans : Run(h, p)

PlanSpec == PlanInit /\ [][PlanNext]_planVars

-----------------------------------------------------------------------------
(* What a schedule promises *)

\* The retry state of a row tells its recent history: the count, the wait and the
\* status are those of the failures since the last success.  Runs of one schedule
\* that overlap write mixed columns; the next success of a run by itself mends them.
RetryStateHonest ==
  \A p \in Plans : Planned(p) /\ p \notin mingled =>
    /\ plan[p].retries = streak[p] /\ plan[p].wait = RetryWait(streak[p])
    /\ plan[p].status \in (IF streak[p] = 0 THEN {"never", "success"}
                           ELSE IF streak[p] < 5 THEN {"retrying"} ELSE {"failed"})

\* A schedule always has somebody to deliver to, whatever becomes of the template it
\* was made from: deleted, exchanged, or taken away.
NeverAddressless ==
  \A p \in Plans : Planned(p) => plan[p].own \/ plan[p].form # "none"

\* Whatever runs, templates and edits have done to a schedule, it has addressees and
\* knows how often it has failed.
ScheduleSound == RetryStateHonest /\ NeverAddressless
=============================================================================
