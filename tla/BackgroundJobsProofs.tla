------------------------ MODULE BackgroundJobsProofs ------------------------
(***************************************************************************)
(* Proofs about BackgroundJobs, for every set of runs, reports, workers    *)
(* and files and every bound: no row is forgotten, a ready report has its  *)
(* file, and the whole implements JobLifecycle.                            *)
(*                                                                         *)
(* WorkInHand is inductive together with the part of the types that says a *)
(* worker's task names a job.  The refinement needs beside it that one     *)
(* party at a time has a job whose message came once: the request, the     *)
(* broker or one worker.                                                   *)
(***************************************************************************)
EXTENDS BackgroundJobs, TLAPS

Tasks == [job : Jobs, phase : {"loaded", "written"}, file : Files \cup {NoFile},
          message : BOOLEAN]

\* The inductive invariant.
InHand ==
  /\ row \in [Jobs -> {"none", "purged"} \cup Existing]
  /\ task \in [Workers -> Tasks \cup {NoTask}]
  /\ WorkInHand

\* Who has the job, as WorkInHand counts it.
Held(j) == j \in sending \cup queue \cup lost \/ \E w \in Workers : task[w].job = j

\* An idle worker is not busy, and a busy one executes a task.
LEMMA BusyTask ==
  ASSUME InHand, NEW w \in Workers, Busy(w)
  PROVE  task[w] \in Tasks
<1>1. NoTask.phase = "idle" BY DEF NoTask
<1> QED BY <1>1 DEF InHand, Busy

\* The initial state has no rows.
LEMMA InHandInit == Init => InHand
BY DEF Init, InHand, WorkInHand, Existing, Settled, Working

\* A worker that drops its task leaves the tasks of the others alone.
LEMMA AckTasks ==
  ASSUME InHand, NEW w \in Workers, Ack(w)
  PROVE  /\ task' \in [Workers -> Tasks \cup {NoTask}]
         /\ \A v \in Workers \ {w} : task'[v] = task[v]
BY DEF InHand, Ack

\* A worker that acknowledges its message leaves the row settled, purged or
\* never seen: nobody waits for a row it gave up.
LEMMA FinishInHand ==
  ASSUME InHand, NEW w \in Workers,
         \/ \E outcome \in Settled : FinishRun(w, outcome)
         \/ FinishReport(w)
         \/ ReportFails(w)
  PROVE  InHand'
<1> DEFINE j == task[w].job
<1>1. Busy(w) /\ Ack(w) /\ sending' = sending /\ queue' = queue /\ lost' = lost
  BY DEF FinishRun, FinishReport, ReportFails, Busy, faults
<1>2. j \in Jobs BY <1>1, BusyTask DEF Tasks
<1>3. \E s \in Settled : row' = IF Exists(j) THEN [row EXCEPT ![j] = s] ELSE row
  BY DEF FinishRun, FinishReport, ReportFails, PluginStatus, Settled
<1>4. /\ row' \in [Jobs -> {"none", "purged"} \cup Existing]
      /\ row'[j] # Working
      /\ \A k \in Jobs \ {j} : row'[k] = row[k]
  BY <1>2, <1>3 DEF InHand, Existing, Settled, Working, Exists
<1>5. task' \in [Workers -> Tasks \cup {NoTask}] /\ \A v \in Workers \ {w} : task'[v] = task[v]
  BY <1>1, AckTasks
<1>6. WorkInHand'
  <2> SUFFICES ASSUME NEW k \in Jobs, row'[k] = Working
               PROVE  \/ k \in sending' \cup queue' \cup lost'
                      \/ \E v \in Workers : task'[v].job = k
    BY DEF WorkInHand
  <2>1. k # j /\ row[k] = Working BY <1>4
  <2>2. CASE k \in sending \cup queue \cup lost BY <2>2, <1>1
  <2>3. ASSUME NEW v \in Workers, task[v].job = k PROVE task'[v].job = k
    BY <2>1, <2>3, <1>5
  <2> QED BY <2>1, <2>2, <2>3 DEF InHand, WorkInHand
<1> QED BY <1>4, <1>5, <1>6 DEF InHand

\* A step that changes no row, and hands a job it takes from one holder to another.
LEMMA HandOver ==
  ASSUME InHand, row' = row, task' \in [Workers -> Tasks \cup {NoTask}],
         \A j \in Jobs : row[j] = Working /\ Held(j) => Held(j)'
  PROVE  InHand'
BY DEF InHand, WorkInHand, Held

\* The request and the broker: the job goes from the request to the queue or is
\* counted as lost.
LEMMA RequestInHand ==
  ASSUME InHand, NEW j \in Jobs, Create(j) \/ Send(j) \/ SendFails(j)
  PROVE  InHand'
<1>1. CASE Create(j)
  <2>1. UNCHANGED <<queue, task, lost>> BY <1>1 DEF Create, faults
  <2>2. row' \in [Jobs -> {"none", "purged"} \cup Existing]
        /\ \A k \in Jobs \ {j} : row'[k] = row[k]
    BY <1>1 DEF Create, InHand, Existing
  <2>3. WorkInHand' BY <1>1, <2>1, <2>2 DEF Create, InHand, WorkInHand
  <2> QED BY <2>1, <2>2, <2>3 DEF InHand
<1>2. CASE Send(j)
  BY <1>2, HandOver DEF Send, faults, InHand, Held
<1>3. CASE SendFails(j)
  BY <1>3, HandOver DEF SendFails, InHand, Held
<1> QED BY <1>1, <1>2, <1>3

\* A worker that starts: the job goes from the queue to the worker, unless its
\* row is not there to be working; an inline run starts in its worker's hands.
LEMMA StartInHand ==
  ASSUME InHand, NEW w \in Workers, NEW j \in Jobs, Receive(w, j) \/ RunInline(w, j)
  PROVE  InHand'
<1> DEFINE t(m) == [job |-> j, phase |-> "loaded", file |-> NoFile, message |-> m]
<1>0. \A m \in BOOLEAN : t(m) \in Tasks BY DEF Tasks
<1>a. task[w] = NoTask BY DEF Receive, RunInline, InHand, Tasks, Busy
<1>b. NoTask.job = "none" BY DEF NoTask
<1>1. CASE Receive(w, j) /\ Exists(j)
  <2>1. task' = [task EXCEPT ![w] = t(TRUE)] BY <1>1 DEF Receive
  <2>2. task' \in [Workers -> Tasks \cup {NoTask}] BY <1>0, <2>1 DEF InHand
  <2>3. task'[w].job = j /\ \A v \in Workers \ {w} : task'[v] = task[v]
    BY <2>1 DEF InHand
  <2>4. row' = row /\ sending' = sending /\ lost' = lost /\ queue' = queue \ {j}
    BY <1>1 DEF Receive, faults, TakenFromQueue
  <2>5. \A k \in Jobs : row[k] = Working /\ Held(k) => Held(k)'
    <3> SUFFICES ASSUME NEW k \in Jobs, Held(k) PROVE Held(k)' OBVIOUS
    <3>1. CASE k = j BY <3>1, <2>3 DEF Held
    <3>2. CASE k # j /\ k \in sending \cup queue \cup lost BY <3>2, <2>4 DEF Held
    <3>3. ASSUME k # j, NEW v \in Workers, task[v].job = k PROVE Held(k)'
      <4>1. v # w BY <3>3, <1>a, <1>b, JobsAssumption
      <4> QED BY <4>1, <3>3, <2>3 DEF Held
    <3> QED BY <3>1, <3>2, <3>3 DEF Held
  <2> QED BY <2>2, <2>4, <2>5, HandOver
<1>2. CASE Receive(w, j) /\ ~Exists(j)
  <2>1. row' = row /\ task' = task /\ sending' = sending /\ lost' = lost /\ queue' = queue \ {j}
    BY <1>2 DEF Receive, faults, TakenFromQueue
  <2>2. \A k \in Jobs : row[k] = Working /\ Held(k) => Held(k)'
    BY <1>2, <2>1 DEF Held, Exists, Existing
  <2>3. task' \in [Workers -> Tasks \cup {NoTask}] BY <2>1 DEF InHand
  <2> QED BY <2>1, <2>2, <2>3, HandOver
<1>3. CASE RunInline(w, j)
  <2>1. task' = [task EXCEPT ![w] = t(FALSE)] /\ row' = [row EXCEPT ![j] = Working]
    BY <1>3 DEF RunInline
  <2>2. /\ task' \in [Workers -> Tasks \cup {NoTask}]
        /\ task'[w].job = j
        /\ \A v \in Workers \ {w} : task'[v] = task[v]
    BY <1>0, <2>1 DEF InHand
  <2>3. UNCHANGED <<sending, queue, lost>> BY <1>3 DEF RunInline, faults
  <2>4. row' \in [Jobs -> {"none", "purged"} \cup Existing]
        /\ \A k \in Jobs \ {j} : row'[k] = row[k]
    BY <2>1 DEF InHand, Existing
  <2>5. WorkInHand'
    <3> SUFFICES ASSUME NEW k \in Jobs, row'[k] = Working
                 PROVE  \/ k \in sending' \cup queue' \cup lost'
                        \/ \E v \in Workers : task'[v].job = k
      BY DEF WorkInHand
    <3>1. CASE k = j BY <3>1, <2>2
    <3>2. CASE k # j /\ k \in sending \cup queue \cup lost BY <3>2, <2>3
    <3>3. ASSUME k # j, NEW v \in Workers, task[v].job = k PROVE task'[v].job = k
      <4>1. v # w BY <3>3, <1>a, <1>b, JobsAssumption
      <4> QED BY <4>1, <3>3, <2>2
    <3> QED BY <3>1, <3>2, <3>3, <2>4 DEF InHand, WorkInHand
  <2> QED BY <2>2, <2>4, <2>5 DEF InHand
<1> QED BY <1>1, <1>2, <1>3

\* A lost child leaves its job among the lost; a lost host gives its message back
\* or, without one, does the same; a redelivery adds a message.
LEMMA MishapInHand ==
  ASSUME InHand, NEW w \in Workers, LoseChild(w) \/ LoseHost(w) \/ Redeliver(w)
  PROVE  InHand'
<1>1. CASE LoseChild(w) \/ LoseHost(w)
  <2>1. row' = row /\ sending' = sending /\ Ack(w) BY <1>1 DEF LoseChild, LoseHost
  <2>2. task[w].job \in queue' \cup lost' /\ queue \subseteq queue' /\ lost \subseteq lost'
    BY <1>1 DEF LoseChild, LoseHost, Returned
  <2>3. task' \in [Workers -> Tasks \cup {NoTask}] /\ \A v \in Workers \ {w} : task'[v] = task[v]
    BY <2>1, AckTasks
  <2>4. \A k \in Jobs : Held(k) => Held(k)'
    <3> SUFFICES ASSUME NEW k \in Jobs, Held(k) PROVE Held(k)' OBVIOUS
    <3>1. CASE k \in sending \cup queue \cup lost BY <3>1, <2>1, <2>2 DEF Held
    <3>2. ASSUME NEW v \in Workers, task[v].job = k PROVE Held(k)'
      BY <3>2, <2>2, <2>3 DEF Held
    <3> QED BY <3>1, <3>2 DEF Held
  <2> QED BY <2>1, <2>3, <2>4, HandOver
<1>2. CASE Redeliver(w)
  <2>1. UNCHANGED <<row, sending, task, lost>> /\ queue \subseteq queue'
    BY <1>2 DEF Redeliver
  <2>2. \A k \in Jobs : Held(k) => Held(k)' BY <2>1 DEF Held
  <2>3. task' \in [Workers -> Tasks \cup {NoTask}] BY <2>1 DEF InHand
  <2> QED BY <2>1, <2>2, <2>3, HandOver
<1> QED BY <1>1, <1>2

\* A report being written stays with its worker.
LEMMA WriteInHand ==
  ASSUME InHand, NEW w \in Workers, NEW f \in Files, WriteFile(w, f)
  PROVE  InHand'
<1>1. UNCHANGED <<row, sending, queue, lost>> BY DEF WriteFile, faults
<1>2. task[w] \in Tasks BY BusyTask DEF WriteFile, Busy
<1>3. task'[w] = [task[w] EXCEPT !.phase = "written", !.file = f]
      /\ \A v \in Workers \ {w} : task'[v] = task[v]
  BY DEF WriteFile, InHand
<1>4. task'[w] \in Tasks /\ task'[w].job = task[w].job BY <1>2, <1>3 DEF Tasks
<1>5. task' \in [Workers -> Tasks \cup {NoTask}] BY <1>3, <1>4 DEF WriteFile, InHand
<1>6. \A k \in Jobs : Held(k) => Held(k)' BY <1>1, <1>3, <1>4 DEF Held
<1> QED BY <1>1, <1>5, <1>6, HandOver

\* The purge only takes rows away.
LEMMA PurgeInHand ==
  ASSUME InHand, \/ \E r \in Reports : PurgeFile(r)
                 \/ \E rs \in SUBSET Runs : PurgeCommit(rs)
                 \/ PurgeDies
  PROVE  InHand'
<1>1. UNCHANGED <<sending, queue, task, lost>> BY DEF PurgeFile, PurgeCommit, PurgeDies, faults
<1>2. row' \in [Jobs -> {"none", "purged"} \cup Existing]
      /\ \A j \in Jobs : row'[j] = Working => row[j] = Working
  <2>1. CASE row' = row BY <2>1 DEF InHand
  <2>2. ASSUME NEW rs \in SUBSET Runs, PurgeCommit(rs)
        PROVE  row' = [j \in Jobs |-> IF j \in PurgedRows(rs) THEN "purged" ELSE row[j]]
    BY <2>2 DEF PurgeCommit
  <2>3. "purged" # Working BY DEF Working
  <2> QED BY <2>1, <2>2, <2>3 DEF PurgeFile, PurgeDies, InHand
<1>3. WorkInHand' BY <1>1, <1>2 DEF InHand, WorkInHand
<1> QED BY <1>1, <1>2, <1>3 DEF InHand

\* Every step keeps the invariant: one case per action.
LEMMA InHandStep == InHand /\ [Next]_vars => InHand'
<1> SUFFICES ASSUME InHand, [Next]_vars PROVE InHand' OBVIOUS
<1>1. CASE UNCHANGED vars BY <1>1 DEF vars, InHand, WorkInHand
<1>2. CASE \E j \in Jobs : Create(j) \/ Send(j) \/ SendFails(j) BY <1>2, RequestInHand
<1>3. CASE \E w \in Workers, j \in Jobs : Receive(w, j) \/ RunInline(w, j)
  BY <1>3, StartInHand
<1>4. CASE \E w \in Workers : Finish(w) \/ LoseChild(w) \/ LoseHost(w) \/ Redeliver(w)
  BY <1>4, FinishInHand, WriteInHand, MishapInHand DEF Finish
<1>5. CASE \/ \E r \in Reports : PurgeFile(r)
           \/ \E rs \in SUBSET Runs : PurgeCommit(rs)
           \/ PurgeDies
  BY <1>5, PurgeInHand
<1> QED BY <1>1, <1>2, <1>3, <1>4, <1>5 DEF Next

\* No row is left running or pending with nobody to finish it, unless a message
\* was lost: enqueue_plugin_run and the tasks hand every job over.
THEOREM NoRowForgotten == Spec => []WorkInHand
<1>1. InHand => WorkInHand BY DEF InHand
<1> QED BY <1>1, InHandInit, InHandStep, PTL DEF Spec

(***************************************************************************)
(* A ready report has its file.  The names a report and a worker hold are  *)
(* never held by another: each rendering takes a fresh one, so that the    *)
(* purge of one report removes nobody else's file.                         *)
(***************************************************************************)

Written(w) == task[w].phase = "written"

\* The file a worker has written is there, and is no report's yet.
WrittenFiles ==
  \A w \in Workers : Written(w) =>
     /\ task[w].job \in Reports /\ task[w].file \in disk
     /\ \A r \in Reports : path[r] # task[w].file
     /\ \A v \in Workers \ {w} : Written(v) => task[v].file # task[w].file

\* Only names that were handed out are in use, and no two reports share one.
OwnFiles ==
  /\ disk \subseteq used /\ used \subseteq Files
  /\ path \in [Reports -> used \cup {NoFile}]
  /\ \A r, q \in Reports : r # q /\ path[r] # NoFile => path[r] # path[q]

\* The inductive invariant.
Filed == InHand /\ WrittenFiles /\ OwnFiles /\ ReadyHasFile

\* The initial state has no files.
LEMMA FiledInit == Init => Filed
<1> SUFFICES ASSUME Init PROVE Filed OBVIOUS
<1>1. InHand BY InHandInit
<1>2. WrittenFiles BY DEF Init, WrittenFiles, Written, NoTask
<1>3. OwnFiles BY DEF Init, OwnFiles
<1>4. ReadyHasFile BY DEF Init, ReadyHasFile, Jobs
<1> QED BY <1>1, <1>2, <1>3, <1>4 DEF Filed

\* A step that touches no file, writes no new one and makes no report ready.
LEMMA FilesUntouched ==
  ASSUME Filed, InHand',
         path' = path, disk' = disk, used' = used,
         doomed \subseteq doomed', torn \subseteq torn',
         \A w \in Workers : Written(w)' => task'[w] = task[w],
         \A r \in Reports : row'[r] = "ready" => row[r] = "ready"
  PROVE  Filed'
<1>1. WrittenFiles' BY DEF Filed, WrittenFiles, Written
<1>2. OwnFiles' BY DEF Filed, OwnFiles
<1>3. ReadyHasFile' BY DEF Filed, ReadyHasFile
<1> QED BY <1>1, <1>2, <1>3 DEF Filed

\* A worker that drops its task has written nothing any more.
LEMMA AckWritten ==
  ASSUME InHand, NEW w \in Workers, Ack(w)
  PROVE  \A v \in Workers : Written(v)' => v # w /\ task'[v] = task[v]
<1>1. task'[w] = NoTask BY DEF Ack, InHand
<1>2. NoTask.phase = "idle" BY DEF NoTask
<1> QED BY <1>1, <1>2, AckTasks DEF Written

\* Requests and mishaps touch no file.
LEMMA RequestFiled ==
  ASSUME Filed, NEW j \in Jobs, Create(j) \/ Send(j) \/ SendFails(j)
  PROVE  Filed'
<1>1. InHand' BY RequestInHand DEF Filed
<1>2. UNCHANGED <<task, path, disk, used, doomed, torn>>
  BY DEF Create, Send, SendFails, files
<1>3. \A r \in Reports : row'[r] = "ready" => row[r] = "ready"
  BY DEF Create, Send, SendFails, Filed, InHand, Jobs, Working
<1> QED BY <1>1, <1>2, <1>3, FilesUntouched

\* A task that starts has written nothing.
LEMMA StartFiled ==
  ASSUME Filed, NEW w \in Workers, NEW j \in Jobs, Receive(w, j) \/ RunInline(w, j)
  PROVE  Filed'
<1>1. InHand' BY StartInHand DEF Filed
<1>2. UNCHANGED <<path, disk, used, doomed, torn>> BY DEF Receive, RunInline, files
<1>3. \A v \in Workers : Written(v)' => task'[v] = task[v]
  BY DEF Receive, RunInline, Filed, InHand, Written
<1>4. \A r \in Reports : row'[r] = "ready" => row[r] = "ready"
  BY DEF Receive, RunInline, Filed, InHand, Jobs, Working
<1> QED BY <1>1, <1>2, <1>3, <1>4, FilesUntouched

\* A worker that ends without a file for a report: a plugin run, a failure, a
\* killed child, a lost host, a second delivery.
LEMMA EndFiled ==
  ASSUME Filed, NEW w \in Workers,
         \/ \E outcome \in Settled : FinishRun(w, outcome)
         \/ ReportFails(w) \/ LoseChild(w) \/ LoseHost(w) \/ Redeliver(w)
  PROVE  Filed'
<1>1. InHand' BY FinishInHand, MishapInHand DEF Filed
<1>2. UNCHANGED <<path, disk, used, doomed, torn>>
  BY DEF FinishRun, ReportFails, LoseChild, LoseHost, Redeliver, files
<1>3. Ack(w) \/ task' = task
  BY DEF FinishRun, ReportFails, LoseChild, LoseHost, Redeliver
<1>4. \A v \in Workers : Written(v)' => task'[v] = task[v]
  BY <1>3, AckWritten DEF Filed, Written
<1>5. \A r \in Reports : row'[r] = "ready" => row[r] = "ready"
  <2> SUFFICES ASSUME NEW r \in Reports, row'[r] = "ready" PROVE row[r] = "ready" OBVIOUS
  <2>1. CASE \E outcome \in Settled : FinishRun(w, outcome)
    <3>1. r # task[w].job BY <2>1, JobsAssumption DEF FinishRun
    <3>2. r \in Jobs BY DEF Jobs
    <3> QED BY <2>1, <3>1, <3>2 DEF FinishRun, Filed, InHand
  <2>2. CASE ReportFails(w) BY <2>2 DEF ReportFails, Filed, InHand, Jobs
  <2>3. CASE LoseChild(w) \/ LoseHost(w) \/ Redeliver(w)
    BY <2>3 DEF LoseChild, LoseHost, Redeliver
  <2> QED BY <2>1, <2>2, <2>3
<1> QED BY <1>1, <1>2, <1>4, <1>5, FilesUntouched

\* A rendered report takes a name nobody holds.
LEMMA WriteFiled ==
  ASSUME Filed, NEW w \in Workers, NEW f \in Files, WriteFile(w, f)
  PROVE  Filed'
<1>1. InHand' BY WriteInHand DEF Filed
<1>2. UNCHANGED <<row, path, doomed, torn>> /\ f \notin used
      /\ disk' = disk \cup {f} /\ used' = used \cup {f}
  BY DEF WriteFile
<1>3. task[w] \in Tasks BY BusyTask DEF WriteFile, Busy, Filed
<1>4. task'[w].job = task[w].job /\ task'[w].file = f
      /\ \A v \in Workers \ {w} : task'[v] = task[v]
  BY <1>3 DEF WriteFile, Filed, InHand, Tasks
<1>5. task[w].job \in Reports BY DEF WriteFile
<1>6. OwnFiles' BY <1>2 DEF Filed, OwnFiles
<1>7. f # NoFile /\ (\A r \in Reports : path[r] # f)
  BY <1>2, JobsAssumption DEF Filed, OwnFiles
<1>8. \A v \in Workers : Written(v) => task[v].file # f
  BY <1>2 DEF Filed, WrittenFiles, OwnFiles
<1>9. WrittenFiles'
  BY <1>2, <1>4, <1>5, <1>7, <1>8 DEF Filed, WrittenFiles, Written
<1>10. ReadyHasFile' BY <1>2 DEF Filed, ReadyHasFile
<1> QED BY <1>1, <1>6, <1>9, <1>10 DEF Filed

\* The report that becomes ready takes over the file its worker wrote.
LEMMA ReportFiled ==
  ASSUME Filed, NEW w \in Workers, FinishReport(w)
  PROVE  Filed'
<1> DEFINE r == task[w].job
           f == task[w].file
<1>1. InHand' BY FinishInHand DEF Filed
<1>2. UNCHANGED <<disk, used, doomed>> /\ torn' = torn \ {r} /\ Ack(w) /\ Written(w)
  BY DEF FinishReport, Written
<1>3. \A v \in Workers : Written(v)' => v # w /\ task'[v] = task[v]
  BY <1>2, AckWritten DEF Filed
<1>4. r \in Reports /\ f \in disk /\ f \in used /\ (\A q \in Reports : path[q] # f)
      /\ (\A v \in Workers \ {w} : Written(v) => task[v].file # f)
  BY <1>2 DEF Filed, WrittenFiles, OwnFiles
<1>5. /\ row' = IF Exists(r) THEN [row EXCEPT ![r] = "ready"] ELSE row
      /\ path' = IF Exists(r) THEN [path EXCEPT ![r] = f] ELSE path
  BY DEF FinishReport
<1> HIDE DEF r, f
<1>6. CASE Exists(r)
  <2>1. path'[r] = f /\ \A q \in Reports \ {r} : path'[q] = path[q] /\ row'[q] = row[q]
    BY <1>4, <1>5, <1>6 DEF Filed, OwnFiles, InHand, Jobs
  <2>2. path' \in [Reports -> used \cup {NoFile}]
    BY <1>4, <1>5, <1>6 DEF Filed, OwnFiles
  <2>3. OwnFiles'
    <3>1. \A q, p \in Reports : q # p /\ path'[q] # NoFile => path'[q] # path'[p]
      BY <1>4, <2>1 DEF Filed, OwnFiles
    <3> QED BY <1>2, <2>2, <3>1 DEF Filed, OwnFiles
  <2>4. WrittenFiles'
    <3> SUFFICES ASSUME NEW v \in Workers, Written(v)'
                 PROVE  /\ task'[v].job \in Reports /\ task'[v].file \in disk'
                        /\ \A q \in Reports : path'[q] # task'[v].file
                        /\ \A u \in Workers \ {v} : Written(u)' => task'[u].file # task'[v].file
      BY DEF WrittenFiles
    <3>1. v # w /\ task'[v] = task[v] /\ Written(v) BY <1>3 DEF Written
    <3>2. /\ task[v].job \in Reports /\ task[v].file \in disk
          /\ \A q \in Reports : path[q] # task[v].file
          /\ \A u \in Workers \ {v} : Written(u) => task[u].file # task[v].file
      BY <3>1 DEF Filed, WrittenFiles
    <3>3. \A q \in Reports : path'[q] # task'[v].file BY <1>4, <2>1, <3>1, <3>2
    <3>4. \A u \in Workers \ {v} : Written(u)' => task'[u].file # task'[v].file
      BY <1>3, <3>1, <3>2 DEF Written
    <3> QED BY <1>2, <3>1, <3>2, <3>3, <3>4
  <2>5. ReadyHasFile' BY <1>2, <1>4, <2>1 DEF Filed, ReadyHasFile
  <2> QED BY <1>1, <2>3, <2>4, <2>5 DEF Filed
<1>7. CASE ~Exists(r)
  <2>1. row' = row /\ path' = path BY <1>5, <1>7
  <2>2. row[r] # "ready" BY <1>7 DEF Exists, Existing, Settled
  <2>3. WrittenFiles' BY <1>2, <1>3, <2>1 DEF Filed, WrittenFiles, Written
  <2>4. OwnFiles' BY <1>2, <2>1 DEF Filed, OwnFiles
  <2>5. ReadyHasFile' BY <1>2, <2>1, <2>2 DEF Filed, ReadyHasFile
  <2> QED BY <1>1, <2>3, <2>4, <2>5 DEF Filed
<1> QED BY <1>6, <1>7

\* The purge removes the file of a report it will delete, and no other.
LEMMA PurgeFiled ==
  ASSUME Filed, \/ \E r \in Reports : PurgeFile(r)
                \/ \E rs \in SUBSET Runs : PurgeCommit(rs)
                \/ PurgeDies
  PROVE  Filed'
<1>1. InHand' BY PurgeInHand DEF Filed
<1>2. UNCHANGED <<task, path, used>> BY DEF PurgeFile, PurgeCommit, PurgeDies
<1>3. ASSUME NEW r \in Reports, PurgeFile(r) PROVE Filed'
  <2>1. row' = row /\ torn' = torn /\ disk' = disk \ {path[r]} /\ doomed' = doomed \cup {r}
    BY <1>3 DEF PurgeFile
  <2>2. WrittenFiles' BY <1>2, <2>1 DEF Filed, WrittenFiles, Written
  <2>3. OwnFiles' BY <1>2, <2>1 DEF Filed, OwnFiles
  <2>4. ReadyHasFile'
    <3> SUFFICES ASSUME NEW q \in Reports, row[q] = "ready", q \notin doomed', q \notin torn
                 PROVE  path[q] \in disk'
      BY <1>2, <2>1 DEF ReadyHasFile
    <3>1. q # r /\ path[q] \in disk BY <2>1 DEF Filed, ReadyHasFile
    <3>2. path[q] # NoFile BY <3>1, JobsAssumption DEF Filed, OwnFiles
    <3> QED BY <2>1, <3>1, <3>2 DEF Filed, OwnFiles
  <2> QED BY <1>1, <2>2, <2>3, <2>4 DEF Filed
<1>4. ASSUME NEW rs \in SUBSET Runs, PurgeCommit(rs) PROVE Filed'
  <2>1. UNCHANGED <<disk, torn>>
        /\ row' = [j \in Jobs |-> IF j \in doomed \cup rs THEN "purged" ELSE row[j]]
    BY <1>4 DEF PurgeCommit, PurgedRows
  <2>2. WrittenFiles' BY <1>2, <2>1 DEF Filed, WrittenFiles, Written
  <2>3. OwnFiles' BY <1>2, <2>1 DEF Filed, OwnFiles
  <2>4. \A q \in Reports : row'[q] = "ready" => row[q] = "ready" /\ q \notin doomed
    BY <2>1 DEF Jobs
  <2>5. ReadyHasFile' BY <1>2, <2>1, <2>4 DEF Filed, ReadyHasFile
  <2> QED BY <1>1, <2>2, <2>3, <2>5 DEF Filed
<1>5. CASE PurgeDies
  <2>1. UNCHANGED <<row, disk>> /\ torn' = torn \cup doomed BY <1>5 DEF PurgeDies
  <2>2. WrittenFiles' BY <1>2, <2>1 DEF Filed, WrittenFiles, Written
  <2>3. OwnFiles' BY <1>2, <2>1 DEF Filed, OwnFiles
  <2>4. ReadyHasFile' BY <1>2, <2>1 DEF Filed, ReadyHasFile
  <2> QED BY <1>1, <2>2, <2>3, <2>4 DEF Filed
<1> QED BY <1>3, <1>4, <1>5

\* Every step keeps the invariant: one case per action.
LEMMA FiledStep == Filed /\ [Next]_vars => Filed'
<1> SUFFICES ASSUME Filed, [Next]_vars PROVE Filed' OBVIOUS
<1>1. CASE UNCHANGED vars
  <2>1. InHand' BY <1>1, InHandStep DEF Filed
  <2> QED BY <1>1, <2>1, FilesUntouched DEF vars
<1>2. CASE \E j \in Jobs : Create(j) \/ Send(j) \/ SendFails(j) BY <1>2, RequestFiled
<1>3. CASE \E w \in Workers, j \in Jobs : Receive(w, j) \/ RunInline(w, j)
  BY <1>3, StartFiled
<1>4. CASE \E w \in Workers : Finish(w) \/ LoseChild(w) \/ LoseHost(w) \/ Redeliver(w)
  BY <1>4, EndFiled, WriteFiled, ReportFiled DEF Finish
<1>5. CASE \/ \E r \in Reports : PurgeFile(r)
           \/ \E rs \in SUBSET Runs : PurgeCommit(rs)
           \/ PurgeDies
  BY <1>5, PurgeFiled
<1> QED BY <1>1, <1>2, <1>3, <1>4, <1>5 DEF Next

\* A report offered for download has its file, unless a purge is taking it away
\* or died doing so, whatever is delivered twice, killed or purged meanwhile.
THEOREM ReadyReportsHaveFiles == Spec => []ReadyHasFile
<1>1. Filed => ReadyHasFile BY DEF Filed
<1> QED BY <1>1, FiledInit, FiledStep, PTL DEF Spec

-----------------------------------------------------------------------------
(* The jobs follow their life cycle *)

Executing(j) == \E w \in Workers : task[w].job = j

\* A job that somebody has was submitted.
Submitted == \A j \in Jobs : j \in sending \cup queue \/ Executing(j) => row[j] # "none"

\* One party at a time has it, and it is not settled before that party is done.
OneHolder ==
  \A j \in Jobs \ redelivered :
    /\ j \in sending => j \notin queue /\ ~Executing(j)
    /\ j \in queue => ~Executing(j)
    /\ \A v, w \in Workers : task[v].job = j /\ task[w].job = j => v = w
    /\ j \in sending \cup queue \/ Executing(j) => row[j] \in {Working, "purged"}

\* The inductive invariant.
Orderly == Filed /\ Submitted /\ OneHolder

\* Nobody has anything at first.
LEMMA OrderlyInit == Init => Orderly
<1> SUFFICES ASSUME Init PROVE Orderly OBVIOUS
<1>1. \A j \in Jobs : ~Executing(j) BY JobsAssumption DEF Init, Executing, NoTask
<1>2. Submitted BY <1>1 DEF Init, Submitted
<1>3. OneHolder BY <1>1 DEF Init, OneHolder, Executing
<1> QED BY <1>2, <1>3, FiledInit DEF Orderly

\* A busy worker executes a submitted job.
LEMMA BusyJob ==
  ASSUME Orderly, NEW w \in Workers, Busy(w)
  PROVE  task[w].job \in Jobs /\ Executing(task[w].job) /\ row[task[w].job] # "none"
<1>1. task[w].job \in Jobs BY BusyTask DEF Orderly, Filed, Tasks
<1>2. Executing(task[w].job) BY DEF Executing
<1> QED BY <1>1, <1>2 DEF Orderly, Submitted

\* A worker that drops its task executes nothing; the others go on.
LEMMA AckExecuting ==
  ASSUME Orderly, NEW w \in Workers, Ack(w)
  PROVE  \A v \in Workers, j \in Jobs : task'[v].job = j => v # w /\ task[v].job = j
<1>1. task'[w] = NoTask BY DEF Ack, Orderly, Filed, InHand
<1>2. NoTask.job = "none" BY DEF NoTask
<1>3. \A v \in Workers \ {w} : task'[v] = task[v] BY AckTasks DEF Orderly, Filed
<1> QED BY <1>1, <1>2, <1>3, JobsAssumption

\* A step by which nobody gets a job, and which leaves alone the rows of those that
\* somebody has, unless it purges them.
LEMMA NothingHandedOut ==
  ASSUME Orderly, Filed', redelivered \subseteq redelivered',
         sending' \subseteq sending,
         \A j \in Jobs \ redelivered' : j \in queue' => j \in queue,
         \A j \in Jobs : j \in queue' => j \in queue \/ Executing(j),
         \A v \in Workers, j \in Jobs : task'[v].job = j => task[v].job = j,
         \A j \in Jobs : row[j] # "none" => row'[j] # "none",
         \A j \in Jobs \ redelivered' : (j \in sending' \cup queue' \/ Executing(j)')
                                          => row'[j] \in {row[j], "purged"}
  PROVE  Orderly'
<1>1. \A j \in Jobs : Executing(j)' => Executing(j) BY DEF Executing
<1>2. Submitted' BY <1>1 DEF Orderly, Submitted
<1>3. OneHolder'
  <2> SUFFICES ASSUME NEW j \in Jobs, j \notin redelivered'
               PROVE  /\ j \in sending' => j \notin queue' /\ ~Executing(j)'
                      /\ j \in queue' => ~Executing(j)'
                      /\ \A v, w \in Workers : task'[v].job = j /\ task'[w].job = j => v = w
                      /\ j \in sending' \cup queue' \/ Executing(j)'
                           => row'[j] \in {Working, "purged"}
    BY DEF OneHolder
  <2>1. /\ j \in sending => j \notin queue /\ ~Executing(j)
        /\ j \in queue => ~Executing(j)
        /\ \A v, w \in Workers : task[v].job = j /\ task[w].job = j => v = w
        /\ j \in sending \cup queue \/ Executing(j) => row[j] \in {Working, "purged"}
    BY DEF Orderly, OneHolder
  <2>2. j \in queue' => j \in queue OBVIOUS
  <2>3. j \in sending' \cup queue' \/ Executing(j)' => row'[j] \in {Working, "purged"}
    BY <1>1, <2>1, <2>2
  <2> QED BY <1>1, <2>1, <2>2, <2>3
<1> QED BY <1>2, <1>3 DEF Orderly

\* The request: a new job is nobody's yet; a message sent is the broker's alone.
LEMMA RequestOrderly ==
  ASSUME Orderly, Filed', NEW j \in Jobs, Create(j) \/ Send(j) \/ SendFails(j)
  PROVE  Orderly'
<1>0. UNCHANGED <<task, redelivered>> BY DEF Create, Send, SendFails, faults
<1>a. \A k \in Jobs : Executing(k)' <=> Executing(k) BY <1>0 DEF Executing
<1>b. row \in [Jobs -> {"none", "purged"} \cup Existing] BY DEF Orderly, Filed, InHand
<1>1. CASE Create(j)
  <2>1. /\ row[j] = "none" /\ row'[j] = Working
        /\ \A k \in Jobs \ {j} : row'[k] = row[k]
        /\ sending' = sending \cup {j} /\ queue' = queue
    BY <1>1, <1>b DEF Create
  <2>2. j \notin queue /\ ~Executing(j) BY <2>1 DEF Orderly, Submitted
  <2>3. Submitted' BY <1>a, <2>1 DEF Orderly, Submitted, Working
  <2>4. OneHolder' BY <1>0, <1>a, <2>1, <2>2 DEF Orderly, OneHolder
  <2> QED BY <2>3, <2>4 DEF Orderly
<1>2. CASE Send(j)
  <2>1. j \in sending /\ row' = row /\ sending' = sending \ {j} /\ queue' = queue \cup {j}
    BY <1>2 DEF Send
  <2>2. Submitted' BY <1>a, <2>1 DEF Orderly, Submitted
  <2>3. OneHolder' BY <1>0, <1>a, <2>1 DEF Orderly, OneHolder
  <2> QED BY <2>2, <2>3 DEF Orderly
<1>3. CASE SendFails(j)
  <2>1. row' = row /\ sending' = sending \ {j} /\ queue' = queue BY <1>3 DEF SendFails
  <2> QED BY <1>0, <2>1, NothingHandedOut
<1> QED BY <1>1, <1>2, <1>3

\* The job goes from the broker to one worker, or from nobody to one.
LEMMA StartOrderly ==
  ASSUME Orderly, Filed', NEW w \in Workers, NEW j \in Jobs, Receive(w, j) \/ RunInline(w, j)
  PROVE  Orderly'
<1>0. UNCHANGED <<sending, redelivered>> BY DEF Receive, RunInline, faults
<1>a. task[w] = NoTask /\ NoTask.job = "none"
  BY DEF Receive, RunInline, Busy, Orderly, Filed, InHand, Tasks, NoTask
<1>b. task \in [Workers -> Tasks \cup {NoTask}]
      /\ row \in [Jobs -> {"none", "purged"} \cup Existing]
  BY DEF Orderly, Filed, InHand
<1>1. CASE Receive(w, j) /\ Exists(j)
  <2>1. j \in queue /\ row' = row /\ queue' = queue \ {j}
    BY <1>1 DEF Receive, TakenFromQueue
  <2>2. task'[w].job = j /\ \A v \in Workers \ {w} : task'[v] = task[v]
    BY <1>1, <1>b DEF Receive
  <2>3. \A k \in Jobs \ {j} : Executing(k)' <=> Executing(k)
    BY <1>a, <2>2, JobsAssumption DEF Executing
  <2>4. Submitted' BY <1>0, <2>1, <2>3 DEF Orderly, Submitted
  <2>5. \A k \in Jobs \ redelivered, v, u \in Workers :
          task'[v].job = k /\ task'[u].job = k => v = u
    BY <1>a, <2>1, <2>2, JobsAssumption DEF Orderly, OneHolder, Executing
  <2>6. OneHolder' BY <1>0, <2>1, <2>3, <2>5 DEF Orderly, OneHolder
  <2> QED BY <2>4, <2>6 DEF Orderly
<1>2. CASE Receive(w, j) /\ ~Exists(j)
  <2>1. row' = row /\ queue' = queue \ {j} /\ task' = task
    BY <1>2 DEF Receive, TakenFromQueue
  <2> QED BY <1>0, <2>1, NothingHandedOut
<1>3. CASE RunInline(w, j)
  <2>1. /\ row[j] = "none" /\ row'[j] = Working /\ queue' = queue
        /\ \A k \in Jobs \ {j} : row'[k] = row[k]
    BY <1>3, <1>b DEF RunInline
  <2>2. j \notin queue /\ j \notin sending /\ ~Executing(j)
    BY <2>1 DEF Orderly, Submitted
  <2>3. task'[w].job = j /\ \A v \in Workers \ {w} : task'[v] = task[v]
    BY <1>3, <1>b DEF RunInline
  <2>4. \A k \in Jobs \ {j} : Executing(k)' <=> Executing(k)
    BY <1>a, <2>3, JobsAssumption DEF Executing
  <2>5. Submitted' BY <1>0, <2>1, <2>4 DEF Orderly, Submitted, Working
  <2>6. \A k \in Jobs \ redelivered, v, u \in Workers :
          task'[v].job = k /\ task'[u].job = k => v = u
    BY <1>a, <2>2, <2>3, JobsAssumption DEF Orderly, OneHolder, Executing
  <2>7. OneHolder' BY <1>0, <2>1, <2>2, <2>4, <2>6 DEF Orderly, OneHolder
  <2> QED BY <2>5, <2>7 DEF Orderly
<1> QED BY <1>1, <1>2, <1>3

\* The row of a job whose message came once is settled by the one party that has it.
LEMMA FinishOrderly ==
  ASSUME Orderly, Filed', NEW w \in Workers,
         \/ \E outcome \in Settled : FinishRun(w, outcome)
         \/ FinishReport(w)
         \/ ReportFails(w)
  PROVE  Orderly'
<1> DEFINE j == task[w].job
<1>1. Busy(w) /\ Ack(w) /\ sending' = sending /\ queue' = queue /\ redelivered' = redelivered
  BY DEF FinishRun, FinishReport, ReportFails, Busy, faults
<1>2. j \in Jobs /\ Executing(j) BY <1>1, BusyJob
<1>3. \E s \in Settled : row' = IF Exists(j) THEN [row EXCEPT ![j] = s] ELSE row
  BY DEF FinishRun, FinishReport, ReportFails, PluginStatus, Settled
<1>4. row \in [Jobs -> {"none", "purged"} \cup Existing] BY DEF Orderly, Filed, InHand
<1>5. /\ \A k \in Jobs \ {j} : row'[k] = row[k]
      /\ \A k \in Jobs : row[k] # "none" => row'[k] # "none"
  BY <1>2, <1>3, <1>4 DEF Settled
<1>6. \A v \in Workers, k \in Jobs : task'[v].job = k => v # w /\ task[v].job = k
  BY <1>1, AckExecuting
<1>7. ASSUME NEW k \in Jobs \ redelivered, k \in sending' \cup queue' \/ Executing(k)'
      PROVE  row'[k] \in {row[k], "purged"}
  <2>1. k # j
    <3> SUFFICES ASSUME k = j PROVE FALSE OBVIOUS
    <3>1. k \notin sending /\ k \notin queue BY <1>2 DEF Orderly, OneHolder
    <3>2. PICK v \in Workers : task'[v].job = k BY <1>1, <1>7, <3>1 DEF Executing
    <3>3. v # w /\ task[v].job = k BY <1>6, <3>2
    <3> QED BY <3>3 DEF Orderly, OneHolder
  <2> QED BY <1>5, <2>1
<1> HIDE DEF j
<1> QED BY <1>1, <1>5, <1>6, <1>7, NothingHandedOut

\* A report that was written is still its worker's; what a mishap gives back has come twice.
LEMMA OnwardOrderly ==
  ASSUME Orderly, Filed', NEW w \in Workers,
         \/ \E f \in Files : WriteFile(w, f)
         \/ LoseChild(w) \/ LoseHost(w) \/ Redeliver(w)
  PROVE  Orderly'
<1>1. row' = row /\ sending' = sending /\ redelivered \subseteq redelivered'
  BY DEF WriteFile, LoseChild, LoseHost, Redeliver, faults
<1>2. Busy(w) BY DEF WriteFile, LoseChild, LoseHost, Redeliver, Busy
<1>3. task[w].job \in Jobs /\ Executing(task[w].job) BY <1>2, BusyJob
<1>4. \A j \in Jobs : j \in queue' => j \in queue \/ (j = task[w].job /\ j \in redelivered')
  BY DEF WriteFile, LoseChild, LoseHost, Redeliver, Returned
<1>5. \A v \in Workers, j \in Jobs : task'[v].job = j => task[v].job = j
  <2>1. CASE Ack(w) BY <2>1, AckExecuting
  <2>2. CASE task' = task BY <2>2
  <2>3. CASE \E f \in Files : WriteFile(w, f)
    <3>1. task[w] \in Tasks BY <1>2, BusyTask DEF Orderly, Filed
    <3>2. PICK f \in Files : WriteFile(w, f) BY <2>3
    <3>3. task'[w] = [task[w] EXCEPT !.phase = "written", !.file = f]
          /\ \A v \in Workers \ {w} : task'[v] = task[v]
      BY <3>2 DEF WriteFile, Orderly, Filed, InHand
    <3>4. task'[w].job = task[w].job BY <3>1, <3>3 DEF Tasks
    <3> QED BY <3>3, <3>4
  <2> QED BY <2>1, <2>2, <2>3 DEF LoseChild, LoseHost, Redeliver
<1> QED BY <1>1, <1>3, <1>4, <1>5, NothingHandedOut

\* The purge takes rows away.
LEMMA PurgeOrderly ==
  ASSUME Orderly, Filed', \/ \E r \in Reports : PurgeFile(r)
                          \/ \E rs \in SUBSET Runs : PurgeCommit(rs)
                          \/ PurgeDies
  PROVE  Orderly'
<1>1. UNCHANGED <<sending, queue, task, redelivered>>
  BY DEF PurgeFile, PurgeCommit, PurgeDies, faults
<1>2. \A j \in Jobs : row'[j] \in {row[j], "purged"}
  BY DEF PurgeFile, PurgeCommit, PurgeDies
<1> QED BY <1>1, <1>2, NothingHandedOut

\* Every step keeps the invariant.
LEMMA OrderlyStep == Orderly /\ [Next]_vars => Orderly'
<1> SUFFICES ASSUME Orderly, [Next]_vars PROVE Orderly' OBVIOUS
<1>0. Filed' BY FiledStep DEF Orderly
<1>1. CASE UNCHANGED vars
  BY <1>0, <1>1 DEF vars, Orderly, Submitted, OneHolder, Executing
<1>2. CASE \E j \in Jobs : Create(j) \/ Send(j) \/ SendFails(j)
  BY <1>0, <1>2, RequestOrderly
<1>3. CASE \E w \in Workers, j \in Jobs : Receive(w, j) \/ RunInline(w, j)
  BY <1>0, <1>3, StartOrderly
<1>4. CASE \E w \in Workers : Finish(w) \/ LoseChild(w) \/ LoseHost(w) \/ Redeliver(w)
  BY <1>0, <1>4, FinishOrderly, OnwardOrderly DEF Finish
<1>5. CASE \/ \E r \in Reports : PurgeFile(r)
           \/ \E rs \in SUBSET Runs : PurgeCommit(rs)
           \/ PurgeDies
  BY <1>0, <1>5, PurgeOrderly
<1> QED BY <1>1, <1>2, <1>3, <1>4, <1>5 DEF Next

\* Rows whose files a purge has removed are there until its commit.
Going == \A r \in doomed : r \in Reports /\ Exists(r)

LEMMA GoingStep == Filed /\ Going /\ [Next]_vars => Going'
<1> SUFFICES ASSUME Filed, Going, [Next]_vars PROVE Going' OBVIOUS
<1>a. row \in [Jobs -> {"none", "purged"} \cup Existing] BY DEF Filed, InHand
<1>1. CASE doomed' = doomed /\ \A j \in Jobs : Exists(j) => Exists(j)'
  BY <1>1 DEF Going, Jobs
<1>2. CASE UNCHANGED vars BY <1>2, <1>1 DEF vars, Exists
<1>3. ASSUME NEW j \in Jobs, Create(j) \/ Send(j) \/ SendFails(j) PROVE Going'
  <2>1. doomed' = doomed BY <1>3 DEF Create, Send, SendFails, files
  <2>2. row' = row \/ row' = [row EXCEPT ![j] = Working]
    BY <1>3 DEF Create, Send, SendFails
  <2>3. \A k \in Jobs : Exists(k) => Exists(k)' BY <2>2, <1>a DEF Exists, Existing
  <2> QED BY <2>1, <2>3, <1>1
<1>4. ASSUME NEW w \in Workers, NEW j \in Jobs, Receive(w, j) \/ RunInline(w, j) PROVE Going'
  <2>1. doomed' = doomed BY <1>4 DEF Receive, RunInline, files
  <2>2. row' = row \/ row' = [row EXCEPT ![j] = Working]
    BY <1>4 DEF Receive, RunInline
  <2>3. \A k \in Jobs : Exists(k) => Exists(k)' BY <2>2, <1>a DEF Exists, Existing
  <2> QED BY <2>1, <2>3, <1>1
<1>5. ASSUME NEW w \in Workers, Finish(w) \/ LoseChild(w) \/ LoseHost(w) \/ Redeliver(w)
      PROVE  Going'
  <2>1. doomed' = doomed
    BY <1>5 DEF Finish, FinishRun, WriteFile, FinishReport, ReportFails, LoseChild, LoseHost,
                Redeliver, files
  <2>2. row' = row \/ \E s \in Settled : row' = [row EXCEPT ![task[w].job] = s]
    BY <1>5 DEF Finish, FinishRun, WriteFile, FinishReport, ReportFails, LoseChild, LoseHost,
                Redeliver, PluginStatus, Settled
  <2>3. \A k \in Jobs : Exists(k) => Exists(k)' BY <2>2, <1>a DEF Exists, Existing
  <2> QED BY <2>1, <2>3, <1>1
<1>6. ASSUME NEW r \in Reports, PurgeFile(r) PROVE Going'
  BY <1>6 DEF PurgeFile, Going, Exists
<1>7. CASE (\E rs \in SUBSET Runs : PurgeCommit(rs)) \/ PurgeDies
  BY <1>7 DEF PurgeCommit, PurgeDies, Going
<1> QED BY <1>2, <1>3, <1>4, <1>5, <1>6, <1>7 DEF Next

(***************************************************************************)
(* Every step is a step of the lifecycle or a stutter.                     *)
(***************************************************************************)

\* A step that changes neither rows, nor paths, nor the files that rows point to.
LEMMA Stutter ==
  ASSUME row' = row, path' = path, redelivered' = redelivered,
         \A r \in Reports : path[r] \in disk' <=> path[r] \in disk
  PROVE  UNCHANGED Lifecycle!lifecycleVars
BY DEF Lifecycle!lifecycleVars, Fetchable

\* A request, or an inline run, submits the job.
LEMMA SubmitStep ==
  ASSUME Orderly, NEW j \in Jobs, row[j] = "none", row' = [row EXCEPT ![j] = Working],
         UNCHANGED <<path, disk, redelivered>>
  PROVE  Lifecycle!Next
<1>1. row'[j] = Working /\ \A k \in Jobs \ {j} : row'[k] = row[k]
  BY DEF Orderly, Filed, InHand
<1>2. Fetchable' = Fetchable BY <1>1 DEF Fetchable, Working, Jobs
<1>3. Lifecycle!Submit(j) BY <1>2 DEF Lifecycle!Submit, Working
<1> QED BY <1>3 DEF Lifecycle!Next

\* A worker with a row settles it, and may: the row is working, or its message came twice.
LEMMA SettleStep ==
  ASSUME Orderly, NEW w \in Workers, Busy(w), NEW outcome,
         outcome \in Lifecycle!Outcomes(task[w].job),
         Exists(task[w].job), row' = [row EXCEPT ![task[w].job] = outcome],
         Fetchable' = IF task[w].job \in Reports /\ outcome = "ready"
                      THEN Fetchable \cup {task[w].job} ELSE Fetchable \ {task[w].job},
         redelivered' = redelivered
  PROVE  Lifecycle!Next
<1> DEFINE j == task[w].job
<1>1. j \in Jobs /\ Executing(j) BY BusyJob
<1>2. row[j] = "working" \/ (j \in redelivered /\ Lifecycle!Present(j))
  BY <1>1 DEF Orderly, OneHolder, Exists, Existing, Settled, Working, Lifecycle!Present
<1>3. Lifecycle!Settle(j, outcome) BY <1>2 DEF Lifecycle!Settle
<1> HIDE DEF j
<1>4. outcome \in Lifecycle!Outcomes(j) BY DEF j
<1> QED BY <1>1, <1>3, <1>4 DEF Lifecycle!Next

\* The end of a task.
LEMMA FinishLifecycle ==
  ASSUME Orderly, NEW w \in Workers,
         \/ \E outcome \in Settled : FinishRun(w, outcome)
         \/ FinishReport(w)
         \/ ReportFails(w)
  PROVE  [Lifecycle!Next]_(Lifecycle!lifecycleVars)
<1> DEFINE j == task[w].job
<1>1. Busy(w) /\ redelivered' = redelivered /\ disk' = disk
  BY DEF FinishRun, FinishReport, ReportFails, Busy, faults, files
<1>2. j \in Jobs BY <1>1, BusyJob
<1>a. row \in [Jobs -> {"none", "purged"} \cup Existing] /\ path \in [Reports -> used \cup {NoFile}]
  BY DEF Orderly, Filed, InHand, OwnFiles
<1>3. CASE ~Exists(j)
  <2>1. row' = row /\ path' = path
    BY <1>3 DEF FinishRun, FinishReport, ReportFails, files
  <2> QED BY <1>1, <2>1, Stutter
<1>4. ASSUME Exists(j), NEW outcome \in Settled, FinishRun(w, outcome) PROVE Lifecycle!Next
  <2>1. row' = [row EXCEPT ![j] = outcome] /\ path' = path /\ j \notin Reports
    BY <1>4, JobsAssumption DEF FinishRun, PluginStatus, files
  <2>2. \A r \in Reports : row'[r] = row[r] BY <2>1, <1>a DEF Jobs
  <2>3. Fetchable' = Fetchable \ {j} BY <1>1, <2>1, <2>2 DEF Fetchable
  <2>4. outcome \in Lifecycle!Outcomes(j) BY <2>1 DEF Lifecycle!Outcomes, Settled
  <2> QED BY <1>1, <1>4, <2>1, <2>3, <2>4, SettleStep
<1>5. CASE Exists(j) /\ FinishReport(w)
  <2>1. row' = [row EXCEPT ![j] = "ready"] /\ path' = [path EXCEPT ![j] = task[w].file]
    BY <1>5 DEF FinishReport
  <2>2. j \in Reports /\ task[w].file \in disk
    BY <1>5 DEF FinishReport, Orderly, Filed, WrittenFiles, Written
  <2>3. /\ row'[j] = "ready" /\ path'[j] \in disk
        /\ \A r \in Reports \ {j} : row'[r] = row[r] /\ path'[r] = path[r]
    BY <1>2, <1>a, <2>1, <2>2 DEF Jobs
  <2>4. Fetchable' = Fetchable \cup {j} BY <1>1, <2>2, <2>3 DEF Fetchable
  <2>5. "ready" \in Lifecycle!Outcomes(j) BY DEF Lifecycle!Outcomes
  <2> HIDE DEF j
  <2>6. Lifecycle!Next
    BY <1>1, <1>5, <2>1, <2>2, <2>4, <2>5, SettleStep DEF j
  <2> QED BY <2>6
<1>6. CASE Exists(j) /\ ReportFails(w)
  <2>1. row' = [row EXCEPT ![j] = "failed"] /\ path' = path BY <1>6 DEF ReportFails, files
  <2>2. row'[j] = "failed" /\ \A r \in Reports \ {j} : row'[r] = row[r]
    BY <1>2, <1>a, <2>1 DEF Jobs
  <2>3. Fetchable' = Fetchable \ {j} BY <1>1, <2>1, <2>2 DEF Fetchable
  <2>4. "failed" \in Lifecycle!Outcomes(j) BY DEF Lifecycle!Outcomes
  <2>5. Lifecycle!Next BY <1>1, <1>6, <2>1, <2>3, <2>4, SettleStep
  <2> QED BY <2>5
<1> QED BY <1>3, <1>4, <1>5, <1>6

\* What happens to a task before its end: nothing that clients see, but the message may
\* come back.
LEMMA OnwardLifecycle ==
  ASSUME Orderly, NEW w \in Workers,
         \/ \E f \in Files : WriteFile(w, f)
         \/ LoseChild(w) \/ LoseHost(w) \/ Redeliver(w)
  PROVE  [Lifecycle!Next]_(Lifecycle!lifecycleVars)
<1>1. Busy(w) BY DEF WriteFile, LoseChild, LoseHost, Redeliver, Busy
<1>2. task[w].job \in Jobs /\ row[task[w].job] # "none" BY <1>1, BusyJob
<1>3. row' = row /\ path' = path BY DEF WriteFile, LoseChild, LoseHost, Redeliver, files
<1>4. \A r \in Reports : path[r] \in disk' <=> path[r] \in disk
  BY JobsAssumption DEF WriteFile, LoseChild, LoseHost, Redeliver, files, Orderly, Filed, OwnFiles
<1>5. redelivered' = redelivered \/ redelivered' = redelivered \cup {task[w].job}
  BY DEF WriteFile, LoseChild, LoseHost, Redeliver, faults
<1>6. CASE redelivered' = redelivered BY <1>3, <1>4, <1>6, Stutter
<1>7. CASE redelivered' = redelivered \cup {task[w].job}
  <2>1. Fetchable' = Fetchable BY <1>3, <1>4 DEF Fetchable
  <2>2. Lifecycle!Repeat(task[w].job) BY <1>2, <1>3, <1>7, <2>1 DEF Lifecycle!Repeat
  <2> QED BY <1>2, <2>2 DEF Lifecycle!Next
<1> QED BY <1>5, <1>6, <1>7

\* The purge withdraws one report at a time and deletes rows at once.
LEMMA PurgeLifecycle ==
  ASSUME Orderly, Going, \/ \E r \in Reports : PurgeFile(r)
                         \/ \E rs \in SUBSET Runs : PurgeCommit(rs)
                         \/ PurgeDies
  PROVE  [Lifecycle!Next]_(Lifecycle!lifecycleVars)
<1>1. path' = path /\ redelivered' = redelivered
  BY DEF PurgeFile, PurgeCommit, PurgeDies, faults
<1>2. ASSUME NEW r \in Reports, PurgeFile(r) PROVE Lifecycle!Next
  <2>1. row' = row /\ disk' = disk \ {path[r]} BY <1>2 DEF PurgeFile
  <2>2. \A q \in Reports : path[q] \in disk /\ q # r => path[q] # path[r]
    BY JobsAssumption DEF Orderly, Filed, OwnFiles
  <2>3. Fetchable' = Fetchable \ {r} BY <1>1, <2>1, <2>2 DEF Fetchable
  <2>4. Lifecycle!Withdraw(r) BY <1>1, <2>1, <2>3 DEF Lifecycle!Withdraw
  <2> QED BY <2>4 DEF Lifecycle!Next
<1>3. ASSUME NEW rs \in SUBSET Runs, PurgeCommit(rs) PROVE Lifecycle!Next
  <2> DEFINE js == doomed \cup rs
  <2>1. disk' = disk /\ row' = [j \in Jobs |-> IF j \in js THEN "purged" ELSE row[j]]
    BY <1>3 DEF PurgeCommit, PurgedRows
  <2>2. \A j \in js : j \in Jobs /\ Exists(j) BY <1>3 DEF PurgeCommit, Going, Jobs
  <2>3. Fetchable' = Fetchable \ js BY <1>1, <2>1 DEF Fetchable, Jobs
  <2>4. \A j \in js : Lifecycle!Present(j)
    BY <2>2 DEF Lifecycle!Present, Exists, Existing, Settled, Working
  <2>5. Lifecycle!Purge(js) BY <1>1, <2>1, <2>3, <2>4 DEF Lifecycle!Purge
  <2> HIDE DEF js
  <2>6. js \in SUBSET Jobs BY <2>2
  <2> QED BY <2>5, <2>6 DEF Lifecycle!Next
<1>4. CASE PurgeDies
  <2>1. row' = row /\ disk' = disk BY <1>4 DEF PurgeDies
  <2> QED BY <1>1, <2>1, Stutter
<1> QED BY <1>2, <1>3, <1>4

LEMMA LifecycleStep ==
  Orderly /\ Going /\ [Next]_vars => [Lifecycle!Next]_(Lifecycle!lifecycleVars)
<1> SUFFICES ASSUME Orderly, Going, [Next]_vars
             PROVE  [Lifecycle!Next]_(Lifecycle!lifecycleVars)
  OBVIOUS
<1>1. CASE UNCHANGED vars BY <1>1, Stutter DEF vars
<1>2. ASSUME NEW j \in Jobs, Create(j)
      PROVE  [Lifecycle!Next]_(Lifecycle!lifecycleVars)
  <2>1. UNCHANGED <<path, disk, redelivered>> /\ row[j] = "none"
        /\ row' = [row EXCEPT ![j] = Working]
    BY <1>2 DEF Create, files, faults
  <2> QED BY <2>1, SubmitStep
<1>3. ASSUME NEW j \in Jobs, Send(j) \/ SendFails(j)
      PROVE  [Lifecycle!Next]_(Lifecycle!lifecycleVars)
  BY <1>3, Stutter DEF Send, SendFails, files, faults
<1>4. ASSUME NEW w \in Workers, NEW j \in Jobs, Receive(w, j)
      PROVE  [Lifecycle!Next]_(Lifecycle!lifecycleVars)
  BY <1>4, Stutter DEF Receive, files, faults
<1>5. ASSUME NEW w \in Workers, NEW j \in Jobs, RunInline(w, j)
      PROVE  [Lifecycle!Next]_(Lifecycle!lifecycleVars)
  <2>1. UNCHANGED <<path, disk, redelivered>> /\ row[j] = "none"
        /\ row' = [row EXCEPT ![j] = Working]
    BY <1>5 DEF RunInline, files, faults
  <2> QED BY <2>1, SubmitStep
<1>6. CASE \E w \in Workers : Finish(w) \/ LoseChild(w) \/ LoseHost(w) \/ Redeliver(w)
  BY <1>6, FinishLifecycle, OnwardLifecycle DEF Finish
<1>7. CASE \/ \E r \in Reports : PurgeFile(r)
           \/ \E rs \in SUBSET Runs : PurgeCommit(rs)
           \/ PurgeDies
  BY <1>7, PurgeLifecycle
<1> QED BY <1>1, <1>2, <1>3, <1>4, <1>5, <1>6, <1>7 DEF Next

LEMMA LifecycleInit == Init => Lifecycle!Init
BY DEF Init, Lifecycle!Init, Fetchable, Jobs

\* enqueue_plugin_run, the report routes, the Celery tasks and the purge implement the
\* lifecycle that clients see, whatever is lost, killed, delivered twice or purged.
THEOREM JobsFollowLifecycle == Spec => FollowsLifecycle
<1>1. Init => Orderly /\ Going /\ Lifecycle!Init
  BY OrderlyInit, LifecycleInit DEF Init, Going
<1>2. Orderly /\ Going /\ [Next]_vars
        => Orderly' /\ Going' /\ [Lifecycle!Next]_(Lifecycle!lifecycleVars)
  BY OrderlyStep, GoingStep, LifecycleStep DEF Orderly
<1> QED BY <1>1, <1>2, PTL DEF Spec, FollowsLifecycle, Lifecycle!Spec
=============================================================================
