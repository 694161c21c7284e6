\* Two requests at a time in every part; clocks, retries and deliveries are bounded.
SPECIFICATION Spec
CONSTANTS
  Parts = {"plans", "defaults", "settings", "schedule", "webhook",
           "teams", "sbom", "inbox"}
  Plans = {pl1}
  Forms = {fo1}
  Senders = {h1, h2}
  MaxStreak = 7
  Items = {it1, it2, it3}
  Savers = {h1, h2}
  Fields = {fi1, fi2}
  Required = {fi1}
  Typed = {ty1, ty2}
  Clients = {h1, h2}
  Schedulers = {h1, h2}
  Intervals = {1, 2}
  LastHour = 2
  Titled = {"e1"}
  WithCve = {"c1", "c2"}
  TitleOf <- MCTitleOf
  Payloads <- MCPayloads
  Calls = {h1, h2}
  MaxCalls = 3
  Users = {p1, p2}
  Boots = {h1, h2}
  MoreTeams = {"blue"}
  Notes = {"mention", "watched"}
  Mentions = {"mention"}
  Requests = {h1, h2}
  Views <- MCViews
  MostShown = 1
  Releases = {"v1"}
  Importers = {h1, h2}
  Refs = {"ra", "rb", "rc"}
  Names = {"lib", "Lib", "zip"}
  Versions = {"1", "1.0", "10", "2", "Dev", "dev"}
  KnownCves = {"cve"}
  Documents <- MCDocuments
  GroupOf <- MCGroupOf
  Text <- MCText
  Lowered <- MCLowered
  Parsed <- MCParsed
  RefText <- MCRefText
CONSTRAINT FewRuns
SYMMETRY Symmetry
INVARIANTS
  ScheduleSound
  DefaultIsLastChoice
  SecretKept
  RunsSpaced
  DeliveriesAccounted
  EveryoneEnrolled
  ShownAsHeld
  ImportTakesEffect ComparisonAccounts
\* The bounds end every part.
CHECK_DEADLOCK FALSE
