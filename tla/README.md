# Verification of the Universal Vulnerability Tracker

TLA+ models of the backend (`src/backend`), the TLC configurations that check
them on small instances, and TLAPS proofs of the properties that matter most for
every instance. The models are written from the code; line numbers refer to it.

## 1. The system

A Flask application over one SQL database (PostgreSQL in production, READ
COMMITTED, no row locks, no version columns), several web workers, Celery workers
and a Celery beat over Redis, and a single-page client. One request or task is one
database session; most commit once at their end. SQLAlchemy writes the columns that
differ from the row as it was LOADED, so of two overlapping requests the second
overwrites what it changed and keeps the rest: the pattern behind most of the races
below.

| component | state | operations | hard because | correct when |
|---|---|---|---|---|
| vulnerability record and merging (`api/vuln_crud.py`, `services/dedup.py`, `services/vulnerability_service.py`) | `vulnerabilities` rows: status, severity, `resolved_at`, `sla_due_at`, `is_merged`, `merged_into_id`, `references_json` | create, PUT, delete, enrich, merge | requests overlap; a merge moves rows of a dozen tables | redirects form a forest, lead to existing records, and no evidence is lost |
| batch updates, watchers (`api/vuln_bulk.py`) | the same rows, `vulnerability_watchers` | batch PATCH, watch, unwatch | savepoints inside one transaction | merged records are left alone, remediation times are right |
| mappings (`api/vuln_versions.py`, `attack_vectors.py`, `terminal_impacts.py`) | link tables with unique keys | attach, patch, detach, cascades | a merge must fold two sets of keys | target keeps the union, flags are OR-ed |
| comments, mentions, attachments | rows under a record | post, edit, delete, upload | a merge must move them | nothing filed before a merge stays behind it |
| SLA (`services/sla.py`, `api/sla_policy.py`) | the policy, `sla_due_at` of every record | policy update; every handler recomputes | deadlines are stored, not derived | a new severity gets its deadline; the strictest override wins |
| feed ingest (`services/vuln_ingest.py`, `component_correlation.py`) | records, sources, components | upsert of one item | shares the record with operators | items can always be applied |
| notification scan (`services/notification_rules.py`, `api/notification_delivery.py`) | checkpoints, delivery log | scheduled scan, dry run, retry, replay, escalation | calls a channel in the middle of one long transaction; scans overlap and die | an alert goes out, and not too often |
| in-app notifications (`services/notification_rules.py`, `api/notifications.py`, `frontend/src/main.js`) | rows per user, the browser's copy | trigger, read, delete, push, load | the push precedes the commit; loads overtake pushes | the browser shows the inbox |
| live hub (`live_notifications.py`) | queues of open streams, in one process | greet, subscribe, publish, deliver, close | threads; registration begins after the response | everybody gets what was published; the quota is free again after a disconnect |
| plugin runs (`plugins/runner.py`, `plugins/state.py`, `tasks.py`) | `plugin_runs`, `plugin_configs` | due check, enqueue, run, finish; configure | row first, message after; late acknowledgement; masked secrets come back in forms | every row is finished; runs keep their interval; secrets survive |
| report artifacts (`api/report_exports.py`) | `report_artifacts`, files on disk | queue, render, finish, download | file and row cannot be written together | a ready report has its file |
| retention purge (`services/data_retention.py`) | deletes from the two above | purge | files go one by one, rows in one commit | rows and files go together |
| report schedules (`api/report_schedules.py`, `report_templates.py`) | schedules, templates, retry state | create, edit, run, delete | a slow delivery between load and write | there is somebody to deliver to; the retry state is honest |
| accounts (`auth.py`, `api/users_crud.py`, `api/auth_routes.py`) | `users`: role, status, `token_version`, `last_revoked_at` | register, create, update, toggle, revoke | two checks decide on a token; administrators change each other | revoked tokens stay out; an administrator remains |
| single-use credentials (`auth.py`, `services/password_reset.py`, `email_verification.py`) | refresh tokens, mailed links | rotate, log out, ask, follow | read, checked, spent later | each is used once; logout is final |
| second factor (`services/mfa.py`) | secret, flag, recovery codes | enrol, confirm, disable, challenge, recover | enrolment takes two requests; the list is written back whole | nobody locks themselves out; a code works once |
| lockout (`auth.py`), rate limiter (`rate_limiter.py`) | counter and times; hits per window | sign in; consume | times are read before the row or the lock | attempts and requests are bounded |
| response cache (`cache.py`) | Redis keys with a TTL | get, set, invalidate | computed value older than an invalidation | staleness is explained and ends |
| saved filters, presets (`api/vulnerability_filters.py`, `dashboard_layout_presets.py`) | a default flag per row | create, choose, unset, delete | no constraint keeps the default single | the default is the last choice |
| teams (`services/team_scope.py`, `api/teams.py`) | teams, memberships | boot, enrol, administer | processes boot while others serve | everybody is in the Default team |
| SBOM and comparison (`services/sbom_ingest.py`, `component_diff.py`) | components, dependencies, links | import, compare | imports of one version overlap; pairing by position | the version is as the document says; a comparison accounts for everything |
| inbound webhooks (`api/webhooks.py`, `services/webhook_ingest.py`) | endpoint, counters, log, records | deliver, switch, rotate, delete | each entry commits by itself; senders deliver again | counted once, stored once |

Interactions: route handlers call the services and commit; merges reach into every
table that names a vulnerability, except attachments; changes create notifications
for watchers in the same transaction and publish to the live hub before it commits;
plugins (feeds) and webhooks enter through the ingest; beat starts the scan (every 15
minutes), due plugins (hourly) and the purge; an operator starts any of them from the
command line. Revoking an account's tokens (`revoke_tokens`) goes with every change of
role or activity, password reset and logout of all sessions. `PROJECT.json` lists every
component with its status and the forty hazards that matter most, at their lines.

## 2. Modules

| module | models | depends on |
|---|---|---|
| `VulnRecords` | the record and everything hanging from it; one action per handler, requests one at a time | |
| `VulnRequests` | the same handlers split where they have read and not yet written, a merge also where it has relinked and not committed | `VulnRecords` |
| `NotificationScan` | the scan, its checkpoints, overlap, crashes, the operator's retry | |
| `BackgroundJobs` | plugin runs and PDF reports through request, broker, worker; the purge | `JobLifecycle` |
| `JobLifecycle` | the abstract specification: what those who poll a job may rely on | |
| `PluginSchedule`, `PluginSettings` | the due check; the stored configuration with its masked secrets | |
| `LiveHub`, `Inbox` | the streams of one user in one process; the rows of one user and the browser's copy | |
| `ResponseCache`, `RateLimiter` | the Redis cache; both stores of the limiter | |
| `Accounts`, `OneTimeTokens`, `SecondFactor`, `Lockout` | signing in | |
| `Teams`, `SavedDefaults`, `ReportSchedules`, `WebhookIngest` | settings around the records | |
| `SbomImport`, `ComponentDiff` | imports, and the comparison as operators | `SbomImport` extends `ComponentDiff` |
| `MCVulnRecords`, `MCVulnRequests`, `MCNotificationScan` | model values, policies and symmetry for TLC | |
| `MCBackground`, `MCIdentity`, `MCServices` | three, five and eight of the small modules side by side | the modules they check |
| `VulnRecordsProofs`, `NotificationScanProofs`, `BackgroundJobsProofs` | theorems and proofs; `BackgroundJobs` implements `JobLifecycle` | the module each names |
| `VulnRequestsProofs` | theorems and proofs about overlapping requests | `VulnRequests`, `VulnRecordsProofs` |
| `AdministrationProofs` | theorems and proofs | `Teams`, `PluginSettings`, `SavedDefaults`, `PluginSchedule`, `Accounts` |
| `LiveDataProofs` | theorems and proofs | `Inbox`, `LiveHub`, `ResponseCache` |
| `SigningInProofs` | theorems and proofs | `OneTimeTokens`, `SecondFactor`, `Lockout`, `RateLimiter` |
| `ExchangeProofs` | theorems and proofs | `ReportSchedules`, `WebhookIngest`, `SbomImport` |

The modules of the last rows but the harnesses share no variables: in the code these
parts meet only in data the models leave out (a user's id, a request's identity). So
`MCIdentity`, `MCServices` and `MCBackground` check them side by side: the initial state chooses a
part, a behaviour is a behaviour of that part, and the others stay as they start. A run
then covers the parts one after the other, and its state space is their sum, not their
product.

### VulnRecords

`rows[v]` is the row of a vulnerability id: `unused` until a create or a feed takes
the id, `deleted` afterwards. `products`/`affected` are the version mappings,
`links` the unique-key link tables (watchers, attack vectors, terminal impacts,
sources and components), `filed` the comments, notifications and attachments with the
time they were filed, `policy` the stored SLA policy. A handler that stamps a time
advances `now` (`Tick`), bounded by `MaxNow`. Row-level functions carry the names of
the code's: `Stamp` (`stamp_resolution`), `SlaDays` (`resolve_sla_days`), `Edited`
(`update_vulnerability`), `BatchEdited`, `MergedAway`, `Absorbing`, `MergeAllowed`,
`MoveRows` (the relinking and the three `_merge_*_rows` helpers).

What is abstracted: a product has one version; titles, scores, vectors, risk
acceptance and audit rows are data no property looks at; a deadline is its distance
in days from `created_at` (the code computes it from there); `references_json` is one bit, whether it holds
the dict marker a merge appends; who among the watchers is notified is a free choice
(`Notify`); `vulnerability_id` of a notification has no `ON DELETE`, so a record with
notifications cannot be deleted. The merge's checkpoint rows are a link key.

### VulnRequests

`req[w]` is what a web worker has loaded. `Load*` runs the guards on the rows as they
are; `Commit*` writes the columns whose value differs from the LOADED one over the
rows as they are by then (`Overlay`: SQLAlchemy's UPDATE names the changed columns
only) and reads late what the handler queries late. `Abort` is any failed request. A record deleted under a request makes
the flush fail (`StaleDataError`), so the commit is not enabled and the request can
only abort. A feed item for a record that is there is loaded and committed like any other edit
(`CommitFeed`). Handlers that write rows of their own only - a create, a feed item for a new
record, a comment - keep their single step.

A merge has three steps: `LoadMerge` checks its guards, `Relink` runs the queries and bulk
UPDATEs of `_merge_unique_link_rows` and `_relink_records_by_vulnerability`, and `CommitMerge`
flushes and commits (`MoveTaken`, and the two rows). What is inserted under the source between
the last two is not among the rows relinked and stays there, under a record that is closed by
then; `NothingLost` says that it stays under a record that exists, and that what was relinked
arrives. Link rows are written by their own ids, wherever another merge has taken them
meanwhile. Of two merges in opposite directions each deletes as a duplicate the row the other
keeps, and the key is gone: `DuplicateGone` names that case, and no other loses a link. Left out:
a DELETE of a record waits for the row locks of a merge in progress, and what its cascade then
finds; version mappings, whose rows a merge treats like the links.

### NotificationScan

An item is one (rule, vulnerability) pair. A scan is one transaction: `Start` loads
the qualifying items, `Look` reads the item's checkpoint (and flushes what the last
item added, where a foreign key or a unique violation surfaces), `Deliver` calls the
channel and adds the log row and, on success, the checkpoint write, `Commit` ends it.
`Fail` is a flush that raises or a database deadlock; `Crash` a killed worker or the
task time limit. Both lose the records of the scan and none of the alerts it sent. `Retry` is the operator's retry, which passes the
rule as `dry_run_rule_id` and logs an attempt unless the rule's filters drop it first. Time is counted in days and fixed for a scan at its start,
as `now` is in the code. `disturbed` and `simulated` are history variables the properties use.

### BackgroundJobs

`row[j]` is the status of a plugin run (`running` is `"working"`) or of a report
(`pending` likewise). `Create` commits the row, `Send` sends the message that names
it, `Receive` takes it; the status of the row is not looked at, as in the code.
`FinishRun` is `save_plugin_run_result` with its three outcomes; `WriteFile`,
`FinishReport` and `ReportFails` are the three parts of `_finalize_pdf_artifact`.
`LoseChild` is a killed child process (acknowledged by Celery), `LoseHost` a host that
disappears (delivered again, because of `task_acks_late`), `Redeliver` the Redis
visibility timeout. `PurgeFile`, `PurgeCommit` and `PurgeDies` are the purge. Reading
the old artifacts and removing their files is one step per file, the rows go in the
final commit.

`JobLifecycle` says what the pollers of a job see: submitted once; settled once, unless
its message came twice; a report fetchable from the moment it is ready until the purge
or another execution takes that back. `BackgroundJobs` implements it with a refinement
mapping that forgets broker, workers and files (`FollowsLifecycle`): `fetchable` is
"ready, with the file there", `again` the jobs redelivered.

### PluginSchedule and PluginSettings

`CheckDue` is `is_plugin_due` on the latest run, `StartRun` the run that
`run_plugins(only_due)` creates later; the hourly task and the command line both do it, and
`RunNow` asks nobody. A run notes the interval it was checked against and whether another
was created in between. `PluginSettings` keeps one JSON column as a function of secret fields.
A form is a function to typed values, the mask or nothing, of ANY age; `Merged` is
`_merge_plugin_config`. A save writes the whole column, when it differs from the one loaded. A
registration (`RegisterPlugin`) does not merge: it refuses a mask where the schema requires the
field and stores it elsewhere; `masked` are the fields that happened to.

### LiveHub and Inbox

A stream is greeted before the hub knows it (`Greet`), registers its queue when the
generator first runs (`Subscribe`), and leaves in its `finally` (`Close`). `Publish` copies
the set of queues under the lock, `Put` fills them one at a time after it. `due` remembers
who was open at a publication.

`Inbox` follows one user's notifications from the flush (`Trigger`, which pushes to the
stream), through the commit or rollback, to what the browser shows. A load is three steps:
asked, answered by the server with one page of the rows in their order (`Page`), and applied, which
replaces the copy by that page (`Replaced`). A push goes on top of the copy, of which the first
`MostShown` are kept. `AnswerMarkAll` is the server's part of Mark all read; the header then
marks the copy as it is by that time (`MarkAllHere`, no load), the view of all notifications
loads its page (`LoadAfterMark`). `LogOut` clears the copy and closes the stream. A note that the
copy leaves out because another page holds it, or because it fell out at the end, is `off`.
`unsure` collects the notes something has happened to that the browser cannot know, or has learnt
in another order.

### ResponseCache and RateLimiter

A miss is `Compute` (the query) and later `Store`; an invalidation comes to one key after
the other and may fail on the way, since every Redis error is swallowed. An entry remembers
which invalidations had passed its key when it was stored. The key of the product list does not
name the caller's teams: the model assumes all callers see one list.

`RateLimiter` splits a request into reading the clock and consuming under the lock.
`Kept` and `Added` differ between the two stores as in the code: the deque forgets from the
front and appends, the Redis script forgets by score and keeps the order of scores.

### Accounts

A change of an account is three steps: `Load`; `Flush`, where the last-administrator check
has been passed and the row is locked from here on; `Commit`, which writes the columns
that differ from the loaded ones and the version computed from the loaded row. `Accepted` is
`authenticate_request`: version equal and `iat`, cut to the second, after the
last revocation. `FollowClaims` is the sign-in by OpenID of somebody who has an account
(`upsert_user_from_claims`: role from the claims, active, nothing counted, nothing revoked),
`Provision` that of somebody who has none. `void` are the tokens a completed revocation should
have ended; `crossed` the people whose revocations overlapped; a change that another one overtook
between its load or count and its commit is `met`.

### OneTimeTokens, SecondFactor, Lockout

`OneTimeTokens`: a row is unissued, live or spent. `Rotate`/`Follow` read a live row,
`Rotated`/`Followed` commit that it is spent; `AskLink` marks the outstanding links,
`LinkSent` commits; `LogoutAll` is the UPDATE of a logout of all sessions, `LoggedOut` its commit. `entangled` are the rows that two requests held at once, or issued at once.

`SecondFactor`: each `/mfa` request that writes is `Begin*` (what it loaded) and its
commit. A secret is `proved` once a code of it was verified. `tangled` says that two writing
requests overlapped.

`Lockout`: `SignIn` loads the row, the password decides, and the columns that differ are
written. `Locked` truncates to whole seconds as `_is_locked` does; `Stale` is the idle gap that
starts the count again.

### Teams, SavedDefaults, ReportSchedules, WebhookIngest

`Teams`: `Find`, `List` and `Up` are the statements of `ensure_default_team`, each seeing
what is committed at its time; `InsertUser` and `CommitUser` the transaction that inserts a user
with its membership. `SavedDefaults`: `StartSaving` is the request up to its UPDATE, which
clears the flags it sees, `EndSaving` its commit; saved filters and dashboard presets have the
same handlers. `ReportSchedules`: schedules, templates with their foreign key (`SET NULL`), and a
run that loads, delivers and writes the retry columns. `WebhookIngest`: entries are
looked up by CVE id and then by title, and upserted one commit each, a stored record taking the CVE
id of the entry it was found for (`Carried`); then counters, read when the endpoint was loaded unless a
commit has expired the row (`Reread`), and the log.

### SbomImport and ComponentDiff

Reading a document is a set of operators over the places of its lists (`Listed`, `Entry`, `Children`,
`Edges`, `Path`); an import
is `Read`, `FlushRows` (updates and the DELETE, which lock) and `CommitImport` (dependencies and
links). `ComponentDiff` is the comparison as functions of two listings, with the
sorting, the pairing by place and the version order; it is checked on every listing that imports
produce.

## 3. Runs

| run | instance | shows |
|---|---|---|
| `vuln_records` | 3 records, 1 notification, 4 timestamps; for 2 of them a mapping, a link, a comment, 2 statuses, batches | the redirects of any sequence of creates, merges, deletes and ingests form a forest (`MergeForest`), lead to live records (`RedirectIntact`) and are never taken over (`RedirectKept`); `resolved_at` agrees with the status (`ResolutionStamped`, `ResolutionKept`); a merge drains its source and conserves evidence (`MergedRecordIsDrained`, `EvidenceFollowsMerge`) |
| `vuln_sla` | 1 record, 2 policies, every link table | the deadline follows the severity (`SlaFollowsSeverity`); types |
| `requests` | 2 records, a comment, a link key, 2 overlapping requests, 2 timestamps | an undisturbed request is serial (`UndisturbedIsSerial`), no race of a merge in its three steps loses rows (`NothingLost`) |
| `notification_scan` | 2 items, 2 scanners, 2 days | a checkpoint is backed by an alert (`CheckpointBacked`); alerts are spaced unless scans disturbed each other (`SpacedUnlessDisturbed`) |
| `notification_liveness` | 1 item, 2 scanners, 3 days, 1 crash, 1 dry run | an item that keeps qualifying is alerted (`AlertsGetOut`) |
| `background` | jobs: 1 run, 1 report, 2 workers, 3 files, 3 mishaps; hub: 3 streams, quota 2, 2 events; cache: 2 pages, 2 readers, 2 writes | rows are in hand and files there (`WorkInHand`, `ReadyHasFile`), jobs follow the abstract lifecycle and settle (`FollowsLifecycle`, `JobsSettle`); the quota is honest and events reach every stream (`QuotaHonest`, `Reaches`); stale entries are explained and end (`StaleExplained`, `StaleEnds`) |
| `identity`, `services` | two requests at a time in each of five, and of eight, parts | see below |
| `closed_is_stamped`, `feed_can_apply`, `merge_race`, `retry_delivers` | as above | what the repository says and the code does not do; section 6 |

The properties of `identity` (the first six rows) and `services`, each of its own part:

| property | says |
|---|---|
| `AdminRemains` | the last active administrator is lost only to the claims of an OpenID sign-in, or to a change that another one overtook |
| `RevokedStaysOut` | a token issued before a revocation stays refused, through later changes and reactivations |
| `UsedOnce`, `LastLinkOnly`, `LoggedOutEverywhere` | tokens and links work once, only the last link works, a logout of all sessions is final; what overlapping requests spare is exactly the entangled rows |
| `NotLockedOut`, `CodesUsedOnce` | the stored secret is one the user has shown; recovery codes work once |
| `AttemptsBounded` | no stretch of a lockout's length sees more than `MAX_FAILED_LOGINS` compared passwords |
| `LimitKept` | no window holds more hits than the limit except late ones; `Retry-After` is true |
| `ScheduleSound` | a schedule has addressees, and a retry state that tells its failures |
| `DefaultIsLastChoice` | the default is the item chosen last |
| `SecretKept` | masked forms of any age leave a secret as typed; only a registration puts the mask in its place, and only in an optional field |
| `RunsSpaced` | a scheduled run keeps its interval to every run it could know of |
| `DeliveriesAccounted` | counters and log count a delivery once; a title is stored once unless raced for |
| `EveryoneEnrolled` | boots, registrations and failures leave nobody out of the Default team |
| `ShownAsHeld` | the browser shows what the inbox holds, page by page, and leaves out only what another page has |
| `ImportTakesEffect`, `ComparisonAccounts` | a version is as its last document says; a comparison accounts for every component, both ways |

`CHECK_DEADLOCK FALSE` where the instance really ends: ids are used up and never
reissued, rows purged, clocks stand still at their bound.

Bounds. Two records are all a merge touches; the third lets redirects chain and a
cycle of three form if a guard were lost. Timestamps only order events: a behaviour with four
has two merges, and a status change before and after each. Two overlapping requests are the
smallest race, and every pair of handlers that write a record is among them. Two
scanners and two items give the crossed waits of a database deadlock; a frequency of
one day and two days the boundary "exactly one frequency later", a frequency of two the inside of the
window. Three mishaps are a redelivery, a loss and a dead purge in one behaviour; three
files are one for every time a report can be rendered then. Three streams are one more than the
quota. In `services`, three refresh tokens are a chain of two rotations, two links a link and its
successor, four recovery codes two enrolments of two; seven failures reach the last step of the
back-off and one more than the five that end it; a lock of six half-seconds and twelve
instants hold two locks; a window of four in eight instants holds two windows; three items
allow a default that two races have left double. The documents of `MCDocuments` hold every
case the parsers treat: repeated references, entries without a name, a child that is not
listed, a child named twice, one name in two spellings, versions that differ in text and not in
rank, and two that cannot be parsed and differ in case only, which the text order compares. Two
notifications on pages of one, in a copy of one, leave a note to the other page, and out at the
end. The two payloads share a title between an entry with a CVE id and one without.

Constraints. `vuln_records`: `DetailOrOutline` explores two records with everything that hangs from
them, and three with notifications alone, not three with everything. `identity`: `NobodyCrossed`
stops a behaviour in which revocations of one account have overlapped, about which `RevokedStaysOut` says
nothing more; `FewRevocations` allows a bounded number of revocations in all; `OneSortOfToken`
issues either links or refresh tokens in one behaviour, which share no state. `services`: `FewRuns` tells
at most four runs of a plugin apart. Records, items, workers, scanners, people and handlers are
symmetric where the properties do not tell them apart; the runs with liveness use no symmetry. A batch
with an error in one record, and three parallel requests, are beyond these bounds. `requests` has no
notifications, which `PostComment` would file freely beside the comment, and no version mappings; its theorem is
about any number of comments and notifications.

Type invariants: `TypeOK` of `VulnRecords` is in `vuln_sla`. The small modules define theirs
(`AcctTypeOK`, `OttTypeOK`, `MfaTypeOK`, `HubTypeOK` ...); add them to `INVARIANTS` of the
configuration to see them hold. They are left out of the configurations because every other
property there would fail with a wrong type anyway; those of `Teams`, `Inbox`, `SecondFactor`
and, in what the argument needs of them, `OneTimeTokens` and `Accounts` are conjuncts of the proved
invariants.

Every property has a fault of the code (`mutants` in `PROJECT.json`, the definitions
commented `Fault:` in the modules) that makes its run fail: a lost guard in
`merge_vulnerabilities`, a stamp that is not cleared, a mapping flag not OR-ed,
checkpoints that move on a failed delivery, a purge that forgets the rows, an early
acknowledgement, a revocation that is not done, a mask that is stored, comments that a merge does
not relink, a copy to which a page is added instead of replacing it.

## 4. Fairness

`NotificationScan`: beat starts a scan every 15 minutes (`celery_app.py:49-69`), so a
real scan is started again and again (weak fairness of starting one on some process); a scan that
runs goes on or ends, because Celery enforces a time limit (`celery_app.py:84`); and a
channel that is called over and over for an item takes some of the calls (strong fairness of
a successful delivery). The last one is an assumption about the world: without it nothing could be
delivered. Crashes are bounded, as is the clock, which then stands still.

`BackgroundJobs`: the process that committed a row goes on to send its message unless
it dies; workers keep taking messages; a task ends within its time limit. Nothing is
assumed about the purge, the inline runs, or the mishaps.

`LiveHub`: a publication that has begun goes on (it is a loop without waits), and a stream with
something in its queue takes it or ends: `queue.get` wakes up, and `MAX_STREAM_SECONDS` ends a
stream whose client takes nothing. Nobody has to connect or publish.

`ResponseCache`: entries live `ttl` seconds (`setex`), and a reader that has computed an answer
stores it or fails to. An invalidation need not get anywhere, so `StaleEnds` rests on the time to
live alone.

In `MCBackground` the fairness of all three parts is assumed at once; of the parts that are not
chosen no fair action is ever enabled, so this excludes nothing.

## 5. Proofs

`VulnRecordsProofs` (serial requests, any number of records, products, links and
policies): `TypeCorrect`, `RedirectsFormForest`, `RedirectsIntact`,
`ResolutionConsistent`, `ResolutionPersists`, `RedirectsKept`, `MergedRecordsDrained`,
`EvidenceKept`, `SlaRecomputed`: every property the runs check of `VulnRecords`. None of the invariants is inductive.
`IInv` adds: what is not live is blank (`Vacant`); a redirect leads to a live record
that was merged away later, if at all (`RedirectOrder`); a missing redirect has a
deleted record to blame (`LostRedirect`). The forest follows: take a set of records
that all redirect into it, and the one merged away last redirects to one merged later
still. Every handler but two changes rows "quietly" (redirect and phase stay, the
resolution is consistent), so the proof of a step is one lemma for all of them
(`QuietActions`) and one case each for merge and delete. The guards that do the work
are "source already merged" and "target is merged"; the explicit two-step cycle
check is implied by them when requests do not overlap. `MergedRecordsDrained` needs of `IInv`
that merges lie in the past (what is filed now is filed after them) and that only a merge or a
delete moves a filing without dating it anew (`FilingSteps`).

`VulnRequestsProofs` is about the same handlers when any number of them overlap. Nothing keeps a
loaded row true, so the invariant (`RInv`) says only that each request loaded rows its handler
accepts, and a merge relinked rows of its source (`Loaded`), that what is filed is filed under a record that exists (`FiledLive`) and that
an id not taken has no redirect (`UnusedBlank`). What a request writes is then a few columns over
rows as they have become. `RedirectsSurviveOverlaps` is `RedirectIntact` there: only a merge writes a redirect,
to a record whose row it updates and which therefore still exists, and no other handler touches these columns
(`Steady`); so overlap can close a cycle (the run `merge_race`) but cannot leave a redirect
to nothing. `EvidenceSurvivesOverlaps` is `NothingLost`: what a merge has relinked is written
where it is by the commit, and what it has not found stays where it was. `OverlapIsTheOnlyHarm` is `UndisturbedIsSerial`: a
commit over rows nobody has written is the step of `VulnRecords` of that handler, so `Overlay` of
loaded and edited row is the edited row and every guard checked at the load holds still.
Hence the refinement `UndisturbedImplementsSerial`: while no request commits over rows written since it
loaded them, the handlers in steps implement the one-step specification `Spec` of `VulnRecords`, and what is
proved of that holds of them too; `CyclesNeedDisturbance` draws it for `MergeForest`,
`MergedRecordIsDrained` and `ResolutionStamped`. The condition is what row locks, or a check of
versions at the commit, would establish; the code has neither.

`NotificationScanProofs`: `CheckpointsAreBacked`, for any number of items and
overlapping scans. A commit turns pending writes into checkpoints, so the invariant
adds that a real scan holds a pending write only for an alert it sent (`WroteBacked`).
`AlertsAreSpaced` (`SpacedUnlessDisturbed`) is about a step of one scan and what others did
before it. Its invariant `Spacing` accounts for every alert: a checkpoint at least as young shows
it, or a running scan will write one (`SentShown`), or the item is disturbed. A scan that says it
is alone is, and no alert is younger than its day (`AloneIsAlone`); so what it finds due after a
look at the checkpoints was not alerted within the frequency (`DueAgain`).

`BackgroundJobsProofs`: `NoRowForgotten` (`WorkInHand`; inductive with the types of
the workers' tasks) and `ReadyReportsHaveFiles` (`ReadyHasFile`). The second needs that nobody else
holds a report's file: names are handed out once, a written file belongs to its worker
until the row takes it (`WrittenFiles`, `OwnFiles`), so that purging one report cannot
remove another's file.

Its last part is the refinement: `JobsFollowLifecycle`, `Spec => Lifecycle!Spec`: every step of the
detailed specification is a step of the abstract one or a stutter. What is needed beside the
invariants above is that one party at a time - request, broker, one worker - has a job whose
message came once; so a settled row can only be settled again after a redelivery.

`AdministrationProofs`: `NobodyLeftOut` (`EveryoneEnrolled`) and `TeamTypesKept` about `Teams`,
`SecretsKept` about `PluginSettings`, `OneDefault` about `SavedDefaults`, `ScheduledRunsSpaced`
about `PluginSchedule`. What each rests on is that a reading stays true until the commit. A boot between its
statements knows users; the invariant relates what it knew, had and adds to who is there
by now, so that at its commit nobody who was there when it listed is missing. A save of settings
or of a default that has met no other is the only one there is (`SavesAlone`, `ChoicesAlone`), and
what a save leaves alone is what is stored, or was typed beside it (`UntypedKept`); what a
registration puts in a required field is typed. A run that is due after the latest run is due after
every run (`DueAfterAll`: in a bounded span of hours there is a latest one), and stays so until somebody creates one
(`StillDue`).

Its last part is `RevokedTokensRefused` and `SomebodyAdministers` about `Accounts`. The first is an argument of
versions (`VersionsInOrder`): a revocation nobody overlapped has loaded the version the account
has, a change of claims writes none, no token is ahead of its account, a void one is behind it. The proof uses the version alone,
so the comparison of `iat` is a second line of defence that the model shows not to be needed unless
revocations of one account overlap. The second keeps the answer to "is there another
administrator" true until the commit (`AnswersStand`): nobody else has changed the row, nor
taken an administrator, or the request is `met`; and a change of claims is named by the property.

`LiveDataProofs`: `BrowserShowsInbox` (`ShownAsHeld`). The invariant says the same of an answer that
is on its way: for every note nothing has happened to since, it has what the inbox holds, or leaves
it to another page (`AnswersHold`); and a push handled before its commit is shown as the commit will
leave the row (`PushedAsUnread`).
`HubHoldsWhatItServes` (`QuotaHonest`) needs that the set it counts is finite.
`StalePagesExplained` (`StaleExplained`) explains also what is about to be stored, write by write:
every sweep that has passed a key is remembered with the page stored after it.

`SigningInProofs`: `TokensUsedOnce`, `OldLinksDie`, `LogoutIsFinal` about `OneTimeTokens`, and
`NobodyLockedOut`, `RecoveryCodesSpent` about `SecondFactor`. Each property exempts requests
that overlapped; its invariant says what a request alone knows. A row in a request's hands is
unused or entangled (`UnusedYet`); a request for a link knows every link that works, or that link
is entangled (`KnownLinks`); a rotation holding an ended token is entangled (`EndedStays`); a
request on the second factor that has not been overlapped knows the row as it is
(`RowIsCurrent`).

`AttemptsStayBounded` about `Lockout` counts comparisons by what the columns show of them
(`Covers`): the count is at least the number of those that a stretch of time can still share with
one made now, the last failure is as young as any, and a full count has locked the account long
enough. The same holds of what every sign-in has loaded, which had room for one more
(`LoadedCovers`); so each write, of columns however old, leaves columns that cover what was compared, and
an old count starts again only when no comparison is young enough to matter.
`LimitStaysKept` about `RateLimiter` is the same argument on a list: the store has at least as
many young hits as there were allowed requests in order (`RecentStored`), for every later window,
and forgetting from the front (or, in Redis, by time) drops none of them. That the wait suffices
when rounded rests on the oldest hit being forgotten by then (`OldestForgotten`).

`ExchangeProofs`: `SchedulesStaySound` about `ReportSchedules`: a run that met no other is the only
one of its schedule and still knows the row (`RunsAlone`), so what it writes tells the history; the
wait is known as that of the count. `EveryDeliveryAccounted` about `WebhookIngest`: counters are
never ahead of the log, and how far any of them, stored or loaded, is behind is split between
successes and failures with a sum of `overlaps` (`LagAccounted`); a delivery about to store a title
not raced for is the only one, but for those of the same CVE id (`StoresAlone`). `ImportsTakeEffect` about `SbomImport`: rows only ever
come (`RowsRemain`), an import that met no other has seen its release as it is (`AloneSeesAll`),
and a path recorded is one of the document's edges (`PathIsAnEdge`).
`ComparisonsAccount` rests on lemmas about the operators of
`ComponentDiff`, for any two listings: sorting loses and repeats nothing
(`SortedEnumerates`), pairs match one to one (`PairsMatch`), the report transforms the one listing into the
other (`ReportTransforms`) and is mirrored (`ReportMirrored`). `Sorted` numbers the components of a
group by how many precede them and documents are read by place rather than by folding
over them, because an induction over a list is out of the provers' reach; for the same reason
`RateLimiter` inserts a hit at its place.

Assumptions are the named `ASSUME`s of the modules (domains of the inputs, disjoint id
sets, sentinels not ids), and TLC evaluates them in every run of the module.

Every invariant and every safety action property of the passing runs is stated by a theorem. Only
model-checked are the liveness properties `AlertsGetOut`, `JobsSettle`, `Reaches` and `StaleEnds`:
they rest on fairness, hence on ENABLED, which the prover cannot handle.

## 6. Where the code and its description disagree

* `closed_is_stamped`: a merge closes the source without `stamp_resolution`
  (`services/dedup.py:241`), so the record has no remediation time.
* `feed_can_apply`: the dict markers a merge appends to `references_json` make
  `set(existing)` in `services/vuln_ingest.py:146` raise, so feed items with references
  fail on both records of a merge, until a forced enrichment rewrites the references.
* `merge_race`: two overlapping merges in opposite directions both pass the guards and
  leave two records merged into each other (`services/dedup.py:214`).
* `retry_delivers`: the retry of a failed delivery is a dry run
  (`api/notification_delivery.py:192`) and logs a success nobody received.

Seen while modelling and not refuted by a run, because the repository claims nothing
else or the run budget is spent on the four above:

* Records. Feeds change a severity and leave the deadline; changing the SLA policy leaves
  existing deadlines; attachments stay under a merged record (`services/dedup.py:173` relinks the
  other tables).
* Notifications. A dry run moves the checkpoints and so silences the real scan for one
  frequency (`AlertsGetOut` therefore counts a simulated alert). Escalation numbers its first
  step 2. Watchers subscribe to `version_link_change`, which no route emits. An update that changes status
  and assignee is announced as the status change only. The browser has no listener for
  `watched_vulnerability_updated`. Mark all read in the header marks the copy when the response is in
  (`ui/layout/header.js:153-155`) and loads nothing: a mention pushed meanwhile is shown as read
  while its row is unread, until the next load (`ShownAsHeld` counts it among what passed an answer
  by). Every load replaces the copy by its page, so page 2 takes page 1 off the bell, whose
  count of unread then comes from the server and turns into a count of the copy with the next push.
* Live hub. `TooManyStreamsError` is raised by the generator, after the response has begun, so that
  the 429 of `api/live_notifications.py:67-70` is never sent; events stay in the process that
  published them.
* Jobs. A second delivery of a report's message can turn a ready report into a failed one
  (`JobLifecycle` allows it after `Repeat` only). An interval posted as null is kept; 0 or less takes it
  away. The form of a run by hand is not unmasked. Nothing runs report schedules on their own.
* Signing in. The last-administrator check counts committed rows (`api/users_crud.py:564-578`), so two
  demotions at once can pass it; two first registrations both become Admin; a token issued in
  the second of a revocation is refused; following a reset link leaves refresh tokens valid;
  the OIDC callback requires a nonce that the authorization request does not carry. A sign-in by
  OpenID sets the role from the claims (`services/oidc.py:103-109`): it demotes the last active
  administrator, as `tests/api/test_oidc_auth.py:20-39` expects, where the users API refuses
  (`api/users_crud.py:563`), and reactivates a deactivated account; neither revokes the tokens
  issued under the old role. `AdminRemains` names the first. `create-admin` of the command line
  (`cli.py:35-55`) writes the same columns.
* Second factor. Overlapping requests of one account - a second enrolment or a disable beside a
  confirmation - are what `tangled` exempts: the comment that a user "cannot lock themselves
  out" holds for requests one after the other.
* Settings. A registration stores a mask posted for an optional secret in its place: only required
  ones are refused (`plugins/config.py:193-201`, `api/plugins.py:796,808`), and nothing merges them
  as the form of the settings does. A shared
  default preset shadows one's own. A mark as default beside another leaves two. Webhook types `nessus` and `qualys` are
  accepted without a parser. An entry whose CVE id is not stored is found by its title
  (`services/vuln_ingest.py:123-131`): it takes another's record over and overwrites its CVE id, and the
  other's next delivery does the same in return. The model takes it that an entry keeps its title.
* Teams. The docstring of `ensure_default_team` speaks of users "that isn't already in at least one
  team"; the code enrols everyone not in the Default team. Every worker process runs it. Deleting a team clears the team of
  its records.
* SBOM. Depth is always 1 and every dependency direct; an import deletes no component and no
  link; a child named twice makes the import fail; pairs that are equal as versions and differ
  as text are downgrades both ways; pairing by text order reports unchanged components as changed.

## 7. Not modelled

Parsers, clients of external services, rendering, search, permission tables, configuration, the
API description and the read-only reports: data transformations or I/O without state over time
(each component has its reason in `PROJECT.json`). Scanner imports and controls create rows in one
transaction from a parsed file; audit rows are appended in the transactions of the handlers;
branding and preferences are single rows.

Within modelled components: the savepoints of the batch, attachment counts, escalation, rule
editing, alerts sent inside the requests that raise events, the thread-pool fallback of the plugin
runner, synchronous exports, an `os.remove` that fails during the purge and leaves an
orphan file, API tokens and scopes, the filter of rows by team, CSRF cookies, the OpenID protocol and its mapping
of claims,
the graph view and the comparison of dependencies, the browser beside its notifications, and a
delete of a record that waits for the row locks of a merge.
Each is a transformation of data, or needs a database failure in the middle of a batch.

`PROJECT.json` lists forty hazards, one for each line of argument; lesser observations are in section 6.

## 8. Plan

1. The batch error path (savepoint, rollback of the whole transaction, reported result), the upload
   limit, the feed batch with one transaction around several items: hazards with no property yet.
2. Escalation and event-raised alerts in `NotificationScan`; the thread pool in `BackgroundJobs`.
3. An abstract specification of the alert log, implemented by `NotificationScan`.
4. Proofs: the refinement of item 3. No safety property of the runs is left without a theorem.
