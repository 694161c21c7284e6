----------------------------- MODULE MCServices -----------------------------
(* What is kept around the records, checked side by side: a behaviour is a behaviour of the
   part that its initial state chooses; the other parts stay in their initial state. *)
EXTENDS ReportSchedules, SavedDefaults, PluginSettings, PluginSchedule, WebhookIngest,
        Teams, SbomImport, Inbox, TLC

CONSTANT Parts
VARIABLE part

\* The same requests serve every part.
Symmetry == Permutations(Users) \cup Permutations(Requests)

\* A list of the generic shape, and one whose second entry cannot be parsed and whose first
\* shares the title of another CVE id.
MCPayloads == {<<"c1", "e1">>, <<"c2", "broken">>}
MCTitleOf == [e \in AllEntries |-> IF e = "e1" THEN "t1" ELSE "t2"]

\* Bills of materials: a repeated reference and a component without a name; one name in two
\* spellings; versions that are equal when parsed, and two that cannot be and differ in case;
\* a reference repeated among the children.
MCGroupOf == [n \in Names |-> IF n = "zip" THEN "zip" ELSE "lib"]
MCText == [v \in Versions |-> CASE v = "1" -> 1 [] v = "1.0" -> 2 [] v = "10" -> 3
                                [] v = "2" -> 4 [] v = "Dev" -> 5 [] v = "dev" -> 6]
MCLowered == [v \in Versions |-> IF v = "dev" THEN MCText["Dev"] ELSE MCText[v]]
MCParsed == [v \in Versions \ {"Dev", "dev"} |->
               CASE v \in {"1", "1.0"} -> 1 [] v = "10" -> 10 [] v = "2" -> 2]
MCRefText == [r \in Refs |-> CASE r = "ra" -> 1 [] r = "rb" -> 2 [] r = "rc" -> 3]
Item(r, n, v, ids) == [ref |-> r, name |-> n, version |-> v, cves |-> ids]
DependsOn(r, s) == [of |-> r, on |-> s]
MCDocuments == {
  [fmt |-> "cyclonedx",
   entries |-> <<Item("ra", "lib", "10", {"cve"}), Item("rb", "lib", "dev", {}),
                 Item("rc", "", "1", {}), Item("ra", "lib", "1", {"cve"})>>,
   depends |-> <<DependsOn("ra", <<"rb", "rc">>)>>],
  [fmt |-> "cyclonedx",
   entries |-> <<Item("ra", "Lib", "Dev", {}), Item("rc", "lib", "10", {"cve"})>>,
   depends |-> <<DependsOn("ra", <<"ra">>), DependsOn("ra", <<"rc">>)>>],
  [fmt |-> "spdx",
   entries |-> <<Item("rb", "lib", "1.0", {}), Item("rc", "zip", "2", {})>>,
   depends |-> <<DependsOn("rc", <<"rb">>), DependsOn("rc", <<"rc">>)>>],
  [fmt |-> "spdx",
   entries |-> <<Item("rb", "lib", "1.0", {})>>,
   depends |-> <<DependsOn("rb", <<"rb">>), DependsOn("rb", <<"rb">>)>>]}

\* One row to a page, and one row to the browser's copy: both leave rows out.
MCViews == [page : {1, 2}, size : {1}]

\* Runs of one plugin that are told apart.
FewRuns == Cardinality(runs) <= 4

settledVars == <<planVars, savedVars, settingVars, scheduleVars, hookVars>>
sharedVars == <<teamVars, sbomVars, inboxVars>>

Init ==
  /\ part \in Parts
  /\ PlanInit /\ SavedInit /\ SettingsInit /\ ScheduleInit /\ HookInit
  /\ TeamInit /\ SbomInit /\ InboxInit

Next ==
  /\ UNCHANGED part
  /\ \/ /\ part = "plans" /\ PlanNext
        /\ UNCHANGED <<savedVars, settingVars, scheduleVars, hookVars, sharedVars>>
     \/ /\ part = "defaults" /\ SavedNext
        /\ UNCHANGED <<planVars, settingVars, scheduleVars, hookVars, sharedVars>>
     \/ /\ part = "settings" /\ SettingsNext
        /\ UNCHANGED <<planVars, savedVars, scheduleVars, hookVars, sharedVars>>
     \/ /\ part = "schedule" /\ ScheduleNext
        /\ UNCHANGED <<planVars, savedVars, settingVars, hookVars, sharedVars>>
     \/ /\ part = "webhook" /\ HookNext
        /\ UNCHANGED <<planVars, savedVars, settingVars, scheduleVars, sharedVars>>
     \/ part = "teams" /\ TeamNext /\ UNCHANGED <<settledVars, sbomVars, inboxVars>>
     \/ part = "sbom" /\ SbomNext /\ UNCHANGED <<settledVars, teamVars, inboxVars>>
     \/ part = "inbox" /\ InboxNext /\ UNCHANGED <<settledVars, teamVars, sbomVars>>

Spec == Init /\ [][Next]_<<part, settledVars, sharedVars>>
=============================================================================
