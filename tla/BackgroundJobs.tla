--------------------------- MODULE BackgroundJobs ---------------------------
(***************************************************************************)
(* Background work: plugin runs (plugins/runner.py, plugins/state.py) and  *)
(* asynchronous PDF reports (api/report_exports.py), executed by Celery    *)
(* tasks (tasks.py), and the retention purge (services/data_retention.py). *)
(*                                                                         *)
(* A request commits a row ("running", "pending": working here), then      *)
(* sends a message that names it; a worker finishes the row.  Messages are *)
(* acknowledged after the task (task_acks_late), so a message whose worker *)
(* host disappears, or that stays unacknowledged longer than the broker's  *)
(* visibility timeout, is delivered again.  Nothing else ever looks at a   *)
(* working row.                                                            *)
(***************************************************************************)
EXTENDS Integers

CONSTANTS Runs, Reports,   \* ids of plugin runs and of report artifacts
          Workers,         \* celery worker processes
          Files,           \* names of rendered files; each is used once
          NoFile,          \* storage_path NULL
          MaxMishaps       \* bound on lost calls, killed workers and redeliveries

Jobs == Runs \cup Reports

ASSUME JobsAssumption ==
  /\ Runs \cap Reports = {} /\ "none" \notin Jobs
  /\ NoFile \notin Files /\ MaxMishaps \in Nat

VARIABLES row,        \* job -> status of its row
          path,       \* report -> storage_path
          sending,    \* jobs whose request has committed the row, not yet sent
          queue,      \* jobs with a message waiting in the broker
          task,       \* worker -> the task it executes
          disk,       \* files in the report directory
          used,       \* file names handed out
          doomed,     \* reports whose file the running purge has removed
          lost,       \* jobs whose message was never sent, or acknowledged unfinished
          redelivered,\* jobs whose message was delivered again
          torn,       \* reports whose file a purge removed and whose row it kept
          mishaps

vars == <<row, path, sending, queue, task, disk, used, doomed, lost,
          redelivered, torn, mishaps>>

Working == "working"
Settled == {"ready", "failed", "partial"}
Existing == {Working} \cup Settled
NoTask == [job |-> "none", phase |-> "idle", file |-> NoFile, message |-> FALSE]

Exists(j) == row[j] \in Existing
Busy(w) == task[w].phase # "idle"

TypeOK ==
  /\ row \in [Jobs -> {"none", "purged"} \cup Existing]
  /\ path \in [Reports -> Files \cup {NoFile}]
  /\ sending \subseteq Jobs /\ queue \subseteq Jobs
  /\ task \in [Workers -> [job : Jobs, phase : {"loaded", "written"},
                           file : Files \cup {NoFile}, message : BOOLEAN] \cup {NoTask}]
  /\ disk \subseteq used /\ used \subseteq Files
  /\ doomed \subseteq Reports /\ torn \subseteq Reports
  /\ lost \subseteq Jobs /\ redelivered \subseteq Jobs
  /\ mishaps \in 0 .. MaxMishaps

files == <<path, disk, used, doomed, torn>>
faults == <<lost, redelivered, mishaps>>

Mishap == mishaps < MaxMishaps /\ mishaps' = mishaps + 1

-----------------------------------------------------------------------------
(* The request *)

\* create_plugin_run / _create_pending_pdf_artifact: the row is committed first.
Create(j) ==
  /\ row[j] = "none"
  /\ row' = [row EXCEPT ![j] = Working] /\ sending' = sending \cup {j}
  /\ UNCHANGED <<queue, task, files, faults>>

\* Fault: the request may send its message again.
SendAgain(j) ==
  /\ j \in sending
  /\ queue' = queue \cup {j}
  /\ UNCHANGED <<row, sending, task, files, faults>>

\* apply_async / delay: the message names the row.
Send(j) ==
  /\ j \in sending
  /\ sending' = sending \ {j} /\ queue' = queue \cup {j}
  /\ UNCHANGED <<row, task, files, faults>>

\* The broker refuses the message, or the web process dies: the row stays.
SendFails(j) ==
  /\ j \in sending /\ Mishap
  /\ sending' = sending \ {j} /\ lost' = lost \cup {j}
  /\ UNCHANGED <<row, queue, task, files, redelivered>>

-----------------------------------------------------------------------------
(* The worker *)

\* A received message is hidden from the other workers.
TakenFromQueue(j) == queue \ {j}

\* A message is received and its row loaded; without a row there is nothing to
\* do and the task returns at once.  The status of the row is not looked at.
Receive(w, j) ==
  /\ ~Busy(w) /\ j \in queue
  /\ queue' = TakenFromQueue(j)
  /\ task' = IF Exists(j)
             THEN [task EXCEPT ![w] = [job |-> j, phase |-> "loaded", file |-> NoFile,
                                       message |-> TRUE]]
             ELSE task
  /\ UNCHANGED <<row, sending, files, faults>>

\* run_plugin in the hourly task or the command line: no message of its own.
RunInline(w, j) ==
  /\ ~Busy(w) /\ j \in Runs /\ row[j] = "none"
  /\ row' = [row EXCEPT ![j] = Working]
  /\ task' = [task EXCEPT ![w] = [job |-> j, phase |-> "loaded", file |-> NoFile,
                                  message |-> FALSE]]
  /\ UNCHANGED <<sending, queue, files, faults>>

\* Fault: a result whose artifacts cannot be stored leaves the row as it was.
PluginStatusUnlessBroken(j, outcome) == IF outcome = "partial" THEN row[j] ELSE outcome

\* save_plugin_run_result: the outcome is written whatever the row says by now;
\* "partial" when storing the artifacts fails and the row is saved without them.
PluginStatus(j, outcome) == outcome

Ack(w) == task' = [task EXCEPT ![w] = NoTask]

FinishRun(w, outcome) ==
  /\ Busy(w) /\ task[w].job \in Runs /\ outcome \in Settled
  /\ row' = IF Exists(task[w].job)
            THEN [row EXCEPT ![task[w].job] = PluginStatus(task[w].job, outcome)]
            ELSE row           \* purged meanwhile: the update matches no row
  /\ Ack(w)
  /\ UNCHANGED <<sending, queue, files, faults>>

\* _finalize_pdf_artifact: the rendered bytes go to a new file ...
WriteFile(w, f) ==
  /\ task[w].phase = "loaded" /\ task[w].job \in Reports /\ f \notin used
  /\ task' = [task EXCEPT ![w].phase = "written", ![w].file = f]
  /\ disk' = disk \cup {f} /\ used' = used \cup {f}
  /\ UNCHANGED <<row, path, sending, queue, doomed, torn, faults>>

\* ... then the row points to it and is ready, if it still exists ...
FinishReport(w) ==
  /\ task[w].phase = "written"
  /\ LET r == task[w].job IN
       /\ row' = IF Exists(r) THEN [row EXCEPT ![r] = "ready"] ELSE row
       /\ path' = IF Exists(r) THEN [path EXCEPT ![r] = task[w].file] ELSE path
       /\ torn' = torn \ {r}
  /\ Ack(w)
  /\ UNCHANGED <<sending, queue, disk, used, doomed, faults>>

\* ... or rendering, writing or the commit raises: the row is failed, even one
\* that an earlier delivery of the message made ready.
ReportFails(w) ==
  /\ Busy(w) /\ task[w].job \in Reports
  /\ row' = IF Exists(task[w].job) THEN [row EXCEPT ![task[w].job] = "failed"] ELSE row
  /\ Ack(w)
  /\ UNCHANGED <<sending, queue, files, faults>>

\* The child process is killed (time limit, memory): Celery acknowledges the
\* message of a task that is lost this way.
LoseChild(w) ==
  /\ Busy(w) /\ Mishap
  /\ lost' = lost \cup {task[w].job} /\ Ack(w)
  /\ UNCHANGED <<row, sending, queue, files, redelivered>>

\* Fault: acknowledged on receipt, nothing is left to deliver again.
AckedEarly(w) == queue

\* What the broker does with the messages of a host that disappeared.
Returned(w) == IF task[w].message THEN queue \cup {task[w].job} ELSE queue

LoseHost(w) ==
  /\ Busy(w) /\ Mishap
  /\ queue' = Returned(w)
  /\ redelivered' = IF task[w].message THEN redelivered \cup {task[w].job} ELSE redelivered
  /\ lost' = IF task[w].message THEN lost ELSE lost \cup {task[w].job}
  /\ Ack(w)
  /\ UNCHANGED <<row, sending, files>>

\* The visibility timeout runs out while the task is still executing.
Redeliver(w) ==
  /\ Busy(w) /\ task[w].message /\ Mishap
  /\ queue' = queue \cup {task[w].job}
  /\ redelivered' = redelivered \cup {task[w].job}
  /\ UNCHANGED <<row, sending, task, files, lost>>

-----------------------------------------------------------------------------
(* The retention purge: files go one by one, rows in the final commit *)

PurgeFile(r) ==
  /\ Exists(r) /\ r \notin doomed
  /\ disk' = disk \ {path[r]} /\ doomed' = doomed \cup {r}
  /\ UNCHANGED <<row, path, sending, queue, task, used, torn, faults>>

\* Fault: the purge forgets to delete the rows whose files it removed.
PurgedRunsOnly(rs) == rs

PurgedRows(rs) == doomed \cup rs

\* The commit deletes the reports gone through and the runs that are old enough.
PurgeCommit(rs) ==
  /\ rs \subseteq {j \in Runs : Exists(j)} /\ doomed \cup rs # {}
  /\ row' = [j \in Jobs |-> IF j \in PurgedRows(rs) THEN "purged" ELSE row[j]]
  /\ doomed' = {}
  /\ UNCHANGED <<path, sending, queue, task, disk, used, torn, faults>>

\* The purge dies or its commit fails: the rows are back, the files are not.
PurgeDies ==
  /\ doomed # {} /\ Mishap
  /\ torn' = torn \cup doomed /\ doomed' = {}
  /\ UNCHANGED <<row, path, sending, queue, task, disk, used, lost, redelivered>>

-----------------------------------------------------------------------------
Init ==
  /\ row = [j \in Jobs |-> "none"] /\ path = [r \in Reports |-> NoFile]
  /\ sending = {} /\ queue = {} /\ task = [w \in Workers |-> NoTask]
  /\ disk = {} /\ used = {} /\ doomed = {} /\ lost = {} /\ redelivered = {}
  /\ torn = {} /\ mishaps = 0

Finish(w) ==
  \/ \E outcome \in Settled : FinishRun(w, outcome)
  \/ \E f \in Files : WriteFile(w, f)
  \/ FinishReport(w) \/ ReportFails(w)

Next ==
  \/ \E j \in Jobs : Create(j) \/ Send(j) \/ SendFails(j)
  \/ \E w \in Workers, j \in Jobs : Receive(w, j) \/ RunInline(w, j)
  \/ \E w \in Workers : Finish(w) \/ LoseChild(w) \/ LoseHost(w) \/ Redeliver(w)
  \/ \E r \in Reports : PurgeFile(r)
  \/ \E rs \in SUBSET Runs : PurgeCommit(rs)
  \/ PurgeDies

Spec == Init /\ [][Next]_vars

\* Workers keep taking messages and a task ends: it has a time limit.
Fairness ==
  /\ \A j \in Jobs : WF_vars(Send(j)) /\ WF_vars(\E w \in Workers : Receive(w, j))
  /\ \A w \in Workers : WF_vars(Finish(w))

FairSpec == Spec /\ Fairness

-----------------------------------------------------------------------------
(* What background work promises *)

\* A row that says running or pending is in somebody's hands - its request, the
\* broker or a worker - unless a message was lost: no other path leaves a row
\* that nobody will ever finish (the state docs/CHANGELOG.md:85 calls hung).
WorkInHand ==
  \A j \in Jobs : row[j] = Working =>
     \/ j \in sending \cup queue \cup lost
     \/ \E w \in Workers : task[w].job = j

\* A report offered for download has its file: the file is written before the
\* row is ready and removed only by a purge that removes the row, unless that
\* purge dies half way.
ReadyHasFile ==
  \A r \in Reports : row[r] = "ready" => path[r] \in disk \/ r \in doomed \cup torn

\* Reports that download_report_artifact finds: a ready row and its file.
Fetchable == {r \in Reports : row[r] = "ready" /\ path[r] \in disk}

Lifecycle == INSTANCE JobLifecycle WITH
  status <- row, fetchable <- Fetchable, again <- redelivered

\* Requests, messages, workers and the purge together are no more than the lifecycle
\* that clients see: in particular a settled row is settled for good, except for a job
\* whose message came twice (its second execution may turn a ready report into a failed
\* one), and no execution or purge of one report takes away the file of another.
FollowsLifecycle == Lifecycle!Spec

\* Every job whose message reached the broker is settled in the end, or purged,
\* whatever hosts disappear, unless its message was acknowledged unfinished.
JobsSettle == \A j \in Jobs : j \in queue ~> (row[j] # Working \/ j \in lost)
=============================================================================
