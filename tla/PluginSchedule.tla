--------------------------- MODULE PluginSchedule ---------------------------
(***************************************************************************)
(* The interval of a plugin (plugins/runner.py, plugins/state.py): the     *)
(* hourly task and the command line look for the latest run and, when it   *)
(* is old enough, create the next; a run asked for by hand asks nobody.    *)
(***************************************************************************)
EXTENDS Integers, FiniteSets

CONSTANTS Schedulers,   \* the hourly task, the command line
          Intervals,    \* values of interval_minutes, in hours
          LastHour      \* bound on time

ASSUME ScheduleAssumption == Intervals \subseteq Nat \ {0} /\ LastHour \in Nat

VARIABLES hour,
          every,     \* interval_minutes; 0 when NULL, 0 or less
          enabled,
          checking,  \* scheduler -> the interval it found passed, and what came between
          runs       \* plugin_runs: when each started, and how it came about

scheduleVars == <<hour, every, enabled, checking, runs>>

NoCheck == [on |-> FALSE, every |-> 0, met |-> FALSE]
Hours == 0 .. LastHour

ScheduleTypeOK ==
  /\ hour \in Hours /\ every \in Intervals \cup {0} /\ enabled \in BOOLEAN
  /\ checking \in [Schedulers -> [on : BOOLEAN, every : Intervals \cup {0}, met : BOOLEAN]]
  /\ runs \subseteq [at : Hours, how : {"due", "met", "asked"}, every : Intervals \cup {0}]

\* update_plugin_config, upsert_plugin_config.  NULL is taken for "not given", and keeps
\* the interval; 0 takes it away.  A negative one passes the same check and has passed
\* since any run, so it is 0 here.
SetInterval(n, on) ==
  /\ every' = n /\ enabled' = on
  /\ UNCHANGED <<hour, checking, runs>>

\* Fault: the first run that comes is taken for the latest.
AnyRun == IF runs = {} THEN {} ELSE {CHOOSE r \in runs : \A s \in runs : r.at <= s.at}

\* get_latest_plugin_run
Latest == {r \in runs : \A s \in runs : s.at <= r.at}

\* is_plugin_due
Due == every = 0 \/ \A r \in Latest : hour >= r.at + every

\* run_plugins(only_due) looks at one plugin ...
CheckDue(c) ==
  /\ ~checking[c].on /\ enabled /\ Due
  /\ checking' = [checking EXCEPT ![c] = [on |-> TRUE, every |-> every, met |-> FALSE]]
  /\ UNCHANGED <<hour, every, enabled, runs>>

\* Whoever has checked does not see a run that is created now.
Created(how, n, by) ==
  /\ runs' = runs \cup {[at |-> hour, how |-> how, every |-> n]}
  /\ checking' = [c \in Schedulers |->
       IF c = by THEN NoCheck
       ELSE IF checking[c].on THEN [checking[c] EXCEPT !.met = TRUE] ELSE checking[c]]
  /\ UNCHANGED <<hour, every, enabled>>

\* ... and run_plugin creates its run.
StartRun(c) ==
  /\ checking[c].on
  /\ Created(IF checking[c].met THEN "met" ELSE "due", checking[c].every, c)

\* run_plugin_now
RunNow == Created("asked", 0, "nobody")

\* The scheduler dies, or skips on an error.
CheckLost(c) ==
  /\ checking[c].on /\ checking' = [checking EXCEPT ![c] = NoCheck]
  /\ UNCHANGED <<hour, every, enabled, runs>>

HourPasses ==
  /\ hour < LastHour /\ hour' = hour + 1
  /\ UNCHANGED <<every, enabled, checking, runs>>

ScheduleInit ==
  /\ hour = 0 /\ every = 0 /\ enabled = TRUE /\ runs = {}
  /\ checking = [c \in Schedulers |-> NoCheck]

ScheduleNext ==
  \/ \E n \in Intervals \cup {0}, on \in BOOLEAN : SetInterval(n, on)
  \/ \E c \in Schedulers : CheckDue(c) \/ StartRun(c) \/ CheckLost(c)
  \/ RunNow \/ HourPasses

ScheduleSpec == ScheduleInit /\ [][ScheduleNext]_scheduleVars

-----------------------------------------------------------------------------
(* What the interval promises *)

\* A scheduled run starts no sooner after any other run than the interval it was
\* checked against, unless that run was created between its check and its start.
RunsSpaced ==
  \A r, s \in runs : r.how = "due" /\ s.at < r.at => r.at - s.at >= r.every
=============================================================================
