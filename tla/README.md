# TLA+ models of the enterprise automation framework

The framework (`src/framework`) is what pytest suites of a network-operations
product stand on: it drives browsers, calls HTTP APIs, reads and writes
databases, seeds and removes test data. These modules model the parts whose
state changes over time, check them with TLC on small instances and prove the
most important properties with TLAPS for all values of the constants.

## The system

Every test runs in a pytest process; `pytest-xdist -n auto` runs several of
them (workers), which share databases, the API under test and files on disk but
no memory. Inside a worker everything is sequential: one test, its fixtures,
their teardowns in reverse order.

| component (`src/framework/...`) | state it keeps | operations | interacts with | hard behaviour | what makes it correct |
|---|---|---|---|---|---|
| database transactions (`database/services`, `utilities`, `connection`, `repositories`) | engines and pools, the open transaction, its savepoints | open/close a `UnitOfWork` or connection, statements, savepoints, commit, rollback | every validator, seeder and cleanup | links of a pool reused, three transaction modes, errors caught by the caller, dialects | a block's work becomes durable as a whole, by its own commit only, never in a ROLLBACK block |
| test data seeding and cleanup (`testdata/seed`, `cleanup`, `scenarios`) | rows, API records, id sequences, callbacks of the test | seed, register, execute_all, truncate | transactions, API client, fixtures | partial seeds, failing cleanups, dying workers, two workers with equal ids | what a test seeded stays until the test ends and no longer |
| API client and authentication (`api/client`, `api/auth`) | the tokens of a strategy, attempts of the call | request, retry, fetch and refresh a token | services, seeders, API cleanup | lost answers, retries, tokens that expire on the way | an unsafe call happens at most once, the caller learns the truth |
| browser sessions and saved logins (`drivers`, `fixtures`, `auth`) | the worker's browser, contexts, the state file, artifacts | start, finalize, relaunch, load_or_create | page objects, pytest reports | browsers and workers die, teardown fails halfway, one file for all workers | no test sees another one's context, a crash costs one test, or the later tests of a session whose login it broke |
| waits, retry and polling (`waits`, `retry`) | elapsed time, attempts | until, retry | pages, network | last poll before the deadline | a condition that holds is seen |
| extension (`extension`) | reports on disk, a plan of files, scaffold directories | analyze, run, scaffold | discovery, sync, doctor, git | several commands in one project, reports of different ages, five gates, failures between two files | a file that was there survives, a manifest is complete, code is written only from a discovery that reached the application |
| framework sync (`sync`) | report files, temporary directories | analyze, scaffold, diff, recommend | extension, AI provider | files edited while they are read, archives and clones that fail, commands that die | each test is counted once and gets guidance, a report is of its own files, a failure keeps the old one |
| discovery (`discovery`) | the report, generated files, the crawl's queue | ui, crawl, api, db, generate, recommend, a human's review | browser, extension | two terminals on one report, circles and redirects, names that collide | the report has what was announced, each URL is visited once, locators find their elements |
| doctor, settings (`doctor`, `config`) | `.env` files, settings caches | probe, recommend, plan, confirm, write; `get_settings` | the machine, every test process | a user who edits in between, probes that fail, browsers that look like others, two environments in one process | what is recommended launches, the user's lines survive, a fix reaches the tests |
| widget checks (`network`, `hybrid`, `database/clickhouse`, `utilities/comparison.py`) | captured exchanges, the page's requests, the database | attach, act, wait, match, extract, compare, query with retries | browser, ClickHouse | callbacks between two steps, late and overtaking answers, one rule for all filters, data that moves | a wrong dashboard is found, a right one is not blamed |
| test data builders, generators, validators, datasets | id sequences (in Seeding) | build, validate | seeding | references between entities | built sets pass the validators |
| database validators and queries (`database/validators`, `queries`) | none | compare, assert | transactions | duplicates, ordering | differences are exactly those of the two tables |
| test data cache (`testdata/cache`) | entries with a time to live | get, set, get_or_set | datasets | expiry, check-then-act | no expired entry is returned |
| AI assistance (`ai`) | none | complete, redact | discovery, extension, sync | provider falls away | nothing secret leaves |
| logger, telemetry, assertions, visual, accessibility, pages, components, workflows | none that changes during a test, besides `SoftAssert`'s list | | | | |

`PROJECT.json` lists the components with their sources, and under `hazards`
each place where the code is hard to test, with the properties that cover it.

## Modules

**Rows**, **AtomicStore**, **UnitOfWork** (`MCUnitOfWork`, `Database_proofs`).
`AtomicStore` is the abstract promise: a session collects work nobody else
sees, then publishes all of it or drops it. `UnitOfWork` is the code: `Connect`,
`OpenBlock`, the statements, `OpenSavepoint`/`ReleaseSavepoint`/
`ReleaseFails`/`RollbackSavepoint`, `CommitExit`/`RollbackExit`/`CommitFails` and `Close` are
one action per operation of `DatabaseManager`, `TransactionManager`,
`QueryExecutor` and `UnitOfWork`. A *session* is a `UnitOfWork` slot or a bare
connection, a *link* a physical connection of the pool. `changes`, `opened` and
`failed` are the state of the (external) database server; `LazyBegin`,
`AbortsOnError` and `InMemory` are the three ways its dialects differ that the
code's correctness depends on. `ReleaseFails` is `savepoint.commit()` in a
transaction that a caught error has aborted. Rows carry the session that wrote them rather
than data, which is what the properties need to tell whose work a commit made
durable. `Rows` has the overlay of uncommitted changes both modules use.

**Seeding** (`MCSeeding`, `Database_proofs`). Workers seed scenarios into the database and records
into the API, register a callback, and run the callbacks last in first out when
the test ends. Ids come from per-process sequences that start at 1, so
two processes take the same ids: an insert of an id that is there fails. A whole
`DatabaseSeeder.seed` or `DatabaseCleanupService.delete` is one step because it
runs inside one `UnitOfWork`, whose atomicity on a server is what
`UnitOfWork` shows; `SeedOrchestrator.seed` is a row step and one step per POST.
`excuse` is a history variable that names why a test may leave data behind.

**ApiClient** (`MCApiClient`, `Sessions_proofs`). One client: `Call`,
`Attempt`, `Retry` are `ApiClient.request` and tenacity's loop, `Handle` and
`IssueToken` are the external service and token endpoint, `Refresh`,
`ReceiveToken` and `NeedsToken` the three token strategies. An answer may be lost
before or after the service acted (`TransportFails`). A token that cannot be had ends
the call in the error of its strategy: `ApiAuthenticationError` where the code wraps
it, what the callable of `JwtAuth` raises (`RefreshFails`; a transport error or a
timeout among these is retried or translated as the request's own would be), or the
`KeyError`/`ValueError` of a malformed token response (`TokenMalformed`). Time is
`clock`; `late` is a history variable: how long the request was under way when the
token in it turned out to have expired.

**BrowserSession** (`MCBrowserSession`, `Sessions_proofs`). A worker's test goes through the stages
of the fixtures `page` and `authenticated_page`: browser, saved login, context,
page, body, screenshot, trace, close. Each call into Playwright is a step that
may fail (`StartFails`, `LoginError`, `SaveFails`, `FinalizeFails`), and the browser or the
worker may die between two of them. pytest keeps the exception of a session's fixture
and raises it again in each later test that asks for it (`Raise`); `broken` are the tests whose
login the browser died under, `spoilt` the later ones that got that exception. `file` is the one state file of all
workers: writing it truncates it first, so another worker may read it empty, and
two writers may leave a mixture. `contexts` are those open in the worker's
browser; they vanish with it.

**NetworkClassification**, **Correlation**, **GapAnalysis**, **Scaffold**,
**ExtensionRun** (`MCExtensionRun`, `ExtensionRun_proofs`). The first four are the pure pipeline of
`framework/extension`, one operator per function: calls are classified and
merged, correlated with the catalog of the existing framework, turned into the
items of the report and a quality score, and the items into a plan of files.
Paths are sequences of segments with the *hints* they contain, pages have the
login *signals* that fire, names are looked up in `Names` and `Words`: string
matching is data, the order of the rules is not. `ExtensionRun` is the three
commands: a job goes through `preflight`, `analyze`, `discover`, `report`,
`quality`, `git`, `confirm`, `check` and `write` (scaffold through three loads
and `preview` instead), one action per function that reads or writes a file or
may return. `disk` maps paths to contents and never loses one, since no command
deletes. What the existing framework, the site, doctor, git and the person
answer is chosen freely. A command that is killed is one that takes no further
step. A file of a scaffold appears whole or, when writing it fails, torn
(`WriteFails`); reports are written in one step. `CustomerSaves` is a person who saves a file into a
directory at any time. `seen` is a history variable: the files there when the
job looked at its targets.

**RepositoryScan**, **TestInventory**, **Migration**, **SyncRun** (`MCSyncRun`,
`SyncRun_proofs`). The first three are the pure part of `framework/sync`: which
files are collected and read, what the detectors and adapters find in them, how
tests are extracted line by line per framework, and what each becomes in the
mapping and the worksheet. A file is a record with a sequence of *lines*, a line
being what the patterns find on it; an extractor says of each line number what is
found there (`...Found`), put in the order of the lines by `Scanned`.
`SyncRun` is the commands: `OpenDirectory`, or `MakeTempDir`
with `Fill`, `ExtractFails`, `CloneRefused` and `CloneTimesOut`, give the source;
`Collect` lists the files and `ReadAndAnalyze` reads them while the customer may
`Edit` the repository on `disk`; `Cleanup` is the `finally` clause, and only then is
the report truncated and saved (`OpenReport`, then `WriteReport` or `WriteFails`).
The lines of a Java file also say what they are to Java: `on` is the line of the
annotated method, `owner` its class. The extractor does not see these; the
property compares what it finds with them. `reportsBefore` and `ended` are history variables.

**Machine**, **EnvFile**, **DoctorRun** (`MCDoctorRun`, `DoctorRun_proofs`). `Machine` has every
probe of `doctor/detectors.py` over a record of what is installed (a program is
absent, works, fails or hangs), the recommendation and which browsers really
launch, the channel a browser needs included; `LookAlike` are the browsers the doctor
takes for a channel's and the factory cannot launch. `EnvFile` is reading, planning and
rewriting of a file as a sequence of lines. `DoctorRun` is the command from its
probes through the plan and the confirmation to the write, which truncates and
may fail (`WriteFails`), next to a user who edits the file and processes that call `get_settings`, with its dotenv layers,
`os.environ` and cache.

**Comparison**, **WidgetCheck** (`MCWidgetCheck`, `WidgetCheck_proofs`).
`Comparison` is `DataComparator`: values are `Null`, numbers, flags or texts with
spelling variants that normalization removes. `WidgetCheck` is one test with several
checks, each under a filter of its own. Each request of the page is `unsent`,
`sent`, `answered`, `queued` as a response event, `reading` its body, and `over`
when it is captured or `missed` when nobody listened for it. `Enter` attaches a new
interceptor or the former one once more, which then gets a new list to which the
bodies still being read are added. `Act`, `WaitEnds`, `Leave`, `Match`, `VerifyApi` (a callable of the
test, which returns or raises), `QueryAnswers`/`QueryFails` and the `Verdict`
are the test; `Drift` changes the database behind it. `Identify` is the rule of the
shipped configuration, the same for every filter: it tells the widget from the
forecast, not one filter from another. `defect` is what a broken
dashboard adds to the truth; `settled` is a history variable: the requests that
were done with when the check began. The page's own rendering is left out: what the widget shows is what the
server answered.

**ElementLocators**, **Discovery** (`MCDiscovery`, `Discovery_proofs`).
`ElementLocators` has `_describe` and `_best_locator` and, as an external
counterpart, how the browser computes role, label and name (`aria-labelledby` and
labels included) and which ids and names it reads as such in a selector (`odd` are
those that it does not), so that `Finds` says whether
the recorded locator would find its element; `Misses` says by the page alone which
elements get one that does not. `Discovery` is the commands on the
one report: `Load`, `Gather`, the crawl one turn at a time (`Visit`), `Save`
(which truncates), `Fill` (which may fail there), `Render` one file at a time, `Recommend`, and the
human's `Review`. `claimed` and `clashed` are history variables.

**Filters** has the list comprehension with a condition (`Among`), used wherever
the code filters a list. **SequenceLemmas** has the lemmas on lists that the
proof modules share.

### Correspondence

`map` in `PROJECT.json` names for each definition the lines it stands for. What
an exception skips in the code is skipped in the model: the error actions end
in the state the code is in when the exception has left the fixture or the
`with` block. Definitions marked external are the database server, SQLAlchemy's
autobegin, the token endpoint, pytest and process deaths.

## Runs

| run | instance | shows |
|---|---|---|
| `uow_server` | PostgreSQL, one `UnitOfWork` and one bare connection, 2 links, 2 rows, 1 savepoint | `OwnWork`, `OnlyCommitsChangeTables`, `ZeroTrace` and the refinement of `AtomicStore` |
| `uow_postgres` | PostgreSQL | **violated** `CommitIsDurable`: COMMIT of an aborted transaction rolls back without an error |
| `seeding` | 2 workers, 2 kinds of rows and SIM cards, one API record, 2 ids, 2 tests, 1 restart or crash | handles stay valid, nothing outlives its test unexcused, cleanups remove only their own, seeded rows go once the teardown has begun |
| `api_client` | all strategies, one safe and one unsafe method, 3 attempts, 2 calls, 7 ticks | at most once, honest outcome, bounded refreshes, an expired token only after delays beyond the margin or the token's life, every call returns |
| `browser` | 2 workers, 2 tests each, 1 death each | contexts, artifacts, crashes (also under a login) and logins |
| `extension` | 2 commands of 7 command lines, 4 sites, with and without old reports and an old scaffold, a file saved by the customer, 2 seconds | files that were there at the check survive, manifests are complete, exit codes are true, code only from a discovery that earned it, noise reaches no row |
| `extension_titles` | 1 `run --scaffold --yes` | **violated** `EveryPageGetsItsFile`: two pages with one title both become the first one's files |
| `sync` | 2 commands after an earlier session's reports, 10 versions of 5 repositories, checkout, archive and clone | every test has guidance, the inventory is exact but for the annotations it says, a report is of its own files, failures keep the old ones, temporary directories go, commands end |
| `doctor` | 2 commands, 1 edit by the user, 1 process, 4 machines (Chrome on Linux, a Mac, Linux with Chromium and Edge's beta only, Linux without Playwright) | the recommended browser launches or is a look-alike, the user's lines survive, the shell wins, a fix reaches the tests |
| `settings_layers` | no command, 1 process that loads dev and qa | **violated** `LayersHold`: values of `.env.dev` remain for qa |
| `widget` | 2 rounds, 1 request of the page's own, 1 drift, totals and defect of 0 or 10, a tolerance of 50 %, all modes, new and re-entered interceptor | wrong dashboards are found and right ones are not blamed but for late answers and moved data, what was read is found, checks end |
| `discovery` | 2 terminals, 4 commands, 1 deletion, `max_pages` 4, 3 applications, 3 tables of which two share a class name | the report keeps track, the crawl is breadth first, locators find but for exactly `Misses`, every entry has its file |

A run marked violated finds what a comment or a document of the repository
says and the code does not do; `findings` quotes the lines. The type invariants
are proved (see below) where a module has a proof module, and have no run.

Bounds. Two sessions, workers or processes suffice for every interference the
properties speak of, since each is between one actor and another; two rows let a
transaction be half done; one savepoint gives an inner and an outer block
(the theorems hold for any depth). Two ids and one restart let an id be taken
again. Three attempts give a first, a middle and a last one. Time runs to 7, with
a margin of 3 and delays of up to 2, so that, as with 30 s timeouts against a margin of 30 s, one
delay fits into the margin and two together do not; a token that lives 2 expires within
the margin, one that lives 5 outlives it. Two tests per worker give a test that comes after a failed one. In
`uow_server` the bound is on concurrent blocks only, not on how often they run.
In `extension` two commands may start in the same second or not; the sites are
one empty, one that begins at a login page, one with an own call, a merged call
and a foreign one, and one that is all login pages but the first; the command
lines have each option both ways, though not all combinations.
In `sync` two commands let one read what the other wrote or left; each
repository has one framework's difficult cases (nested suites, parametrized
tests, comments, several names on a line) and one or two later versions to be
edited to. In `doctor` a second command sees what the first one wrote, and the
edit falls between any two steps. In `widget` two rounds let an answer of the
first check arrive in the second one, and the totals of neighbouring filters
differ at first, so that the one is wrong for the other; the defect equals the total, so that a
percentage of one total is far from that of another. In `discovery` a second terminal
saves between load and save of the first; one application has circles,
redirects and a link to another origin, one a broken page, and one has every
kind of element (22272 combinations).
`CHECK_DEADLOCK FALSE` is set where the bounds, or the end of the suite, stop the system.

Fairness. `ApiClient`: `WF_vars(Proceed)`, since httpx bounds each wait by its
timeouts and tenacity each backoff; nothing is assumed of `Call` or of the
service's answers being good ones. `Seeding`: the steps of a teardown that has
begun, since pytest runs every finalizer and the server answers or fails each of
their requests; no pytest timeout is configured, so nothing is assumed of the body of
a test, whose rows stay while it hangs, nor of restarts, and a crash excuses. `SyncRun`: the steps of a command,
since they are loops over files, and the failure of an archive or a clone that
gets stuck, since git runs with a timeout. `WidgetCheck`: the steps of the test,
since every wait and query has a timeout and a number of tries; `page.evaluate` has
none and is taken to return; nothing is assumed of the
page, the server or the database. The other modules claim safety only.

## Proofs

Every invariant and action property of a passing run is stated by a theorem, in
the `_proofs` module of its component.

Transactions, in `Database_proofs` (for any sets of sessions, rows and links, any dialect and depth):

1. `TypeCorrect`: `[]TypeOK`. `TInv` adds `Idle`, that a session without a link
   has nothing open, without which the link of an action is not known to be one.
2. Under `Pooled` (not the shared in-memory link; no savepoints where BEGIN is
   lazy): `OwnWorkHolds`, `OnlyCommitsHolds`, `ZeroTraceHolds`. The inductive
   invariant is `PInv`: links are held exclusively, what is pending on a link is
   its holder's work, and each savepoint of a session matches what the server
   remembers for it. `OwnWork` alone is not inductive: a rollback to a savepoint
   needs `Matching`, and every action needs `Exclusive` to leave other links alone.
3. `CommitIsDurableHolds`, with `~AbortsOnError` as well: a block that ends as
   committed made its writes durable. The run `uow_postgres` shows that `~AbortsOnError`
   cannot be dropped; the divergences (a) and (d) below are why `Pooled` cannot.
4. `Refines`: the same state mapped to `AtomicStore` by `Pending`, which equals
   `wrote` under `PInv`; each step is one of the store's or a stutter.

The API client, in `Sessions_proofs` (for any methods, attempts, lifetimes and delays): `CInv` is
type correctness with `Counting` (attempts behind each phase), `Once` (an unsafe
request under way has not been carried out) and `Refreshing`. It gives `ClientTypeCorrect`,
`UnsafeAtMostOnceHolds`, `OutcomeIsHonestHolds`, `RefreshesAreBoundedHolds`.
`ExpiredIsLateHolds` assumes nothing of margin, lifetimes and delays. It stands on
`Checked`: a request of a client-credentials call was sent with a token that had its
margin left when it was looked at, or with one that had just been received.

Browser sessions, in `Sessions_proofs` (for any workers, tests, capture configuration and number
of deaths): `BInv` is type correctness (`BrowserTypeCorrect`) with `Numbered` (only started tests have
errors, the running one none yet) and `Captured` (the artifacts at each stage of
the teardown). On it stand four theorems with a strengthening each:
`LeaksAreErrorsHolds` needs `LoginClosed`, that a login's context is not open once
its test goes on; `CrashCostsOneTestHolds` needs `Accounted`, that a running test
whose browser is gone has a death of its own, and `Costly`, that a login kept as broken
was broken in an earlier test of the session; `LoginOncePerSessionHolds` needs
`LoginTried`, that a login tried is under way or has left its result;
`ArtifactsTellFailureHolds` follows from `Captured`.

`ExtensionRun_proofs` (for any number of commands, any command lines, catalogs,
sites and leftovers). `RInv` gives `TypeCorrect`, `ManifestIsCompleteHolds`,
`CustomerFilesSurviveHolds`, `ExitCodeIsHonestHolds`,
`EntryIsTheApplicationHolds` and `ScaffoldIsEarnedHolds`. None of them is inductive alone. The manifest is
never looked at before it is saved; that it does not overwrite an older one
rests on `GoodManifests` (where there is a manifest, complete or torn, there is a
`README.md`) and on
`PlanHasReadme` (every plan writes `README.md`), so that `CheckTargets` refuses
each directory that has a manifest: `FreeRoot`. `Gated` carries what the quality
gate saw through git, confirmation and check to the writing; `NotWorthless` adds up
the penalties of a discovery that deserves no code. `CustomerFilesSurvive` covers a
write that fails too, which tears only files the job may write. Assumed are the
three command names, that manifests found at the start are complete, and that the
customer saves no reports and manifests.
`NoiseStaysOutHolds` says what the whole pipeline from captured calls to rows
keeps out. Its invariant `NInv` is that what is read back as a discovery is one
(`GoodDiscoveries`) and that the report in memory is the one built from the
discovery in memory (`Pipeline`); then each row is followed back through
correlation, merging, filtering and classification to a call of the application's host.

Seeding, in `Database_proofs` (for any processes, kinds, records, scenarios, tests and restarts):
`SeedingTypeCorrect`, and over `HInv` the theorems `HandlesStayValidHolds`,
`NothingOutlivesItsTestHolds` and `CleanupIsOwnHolds`. None is inductive alone:
that a handle stays valid rests on two callbacks never naming the same row
(`Apart`) and on a row's number having been taken by its process's sequence or being
free (`NumbersTaken`); that nothing outlives its test rests on everything a
running test seeded being in a handle or a callback still to come (`Followed`).
`HInv` itself was checked by TLC on the instance of `seeding`.

`SyncRun_proofs` (for any repositories, versions and number of commands):

1. `FailureKeepsReportsHolds` and `OnlyMaterializeLeavesTempHolds`, over the facts that
   a temporary directory is open only while the analysis runs, that what is saved
   is complete, and that a command that is not saving has written nothing.
2. `TypeCorrect`, with `FromOneSource` (all that a command has collected and read is of
   one history), because a possible report is an analysis of one source; so
   the histories must be disjoint, as directories are.
3. `ReportIsOfItsFilesHolds`: each test, capability and mechanism of any possible
   report is followed back through `Flattened`, the adapters and the scan to a line
   of a file that was collected and read; this is a lemma on all possible reports,
   lifted by `TypeCorrect`.
4. `InventoryIsExactHolds`, for any sources. What is counted are places, pairs of a file
   and a line: the list of tests is in bijection with them (`PlacesFlattened`,
   `TestsCounted`); what is found at a line tells whether its annotation is `Plain` or a
   stray (`AnnotationsTold`, `JavaExact`), and the Robot cases counted are those listed
   and those of resource files (`RobotExact`). `LinesAreFinite` lets the places be counted.
5. `EveryTestHasGuidanceHolds`: a test comes from an adapter whose framework was
   detected (`AdapterDetected`), each such framework has its tables
   (`TablesOf`), and a table gives a first mapping (`FirstMapping`), which the worksheet
   shows; `SheetOfReport` adds that a worksheet was made of a possible report.

`DoctorRun_proofs` (for any machines, environments, `.env` files, commands and
processes): `DoctorTypes`, `LinesSurvive`, `TheShellWins`, `TestsSeeTheFix`,
`RecommendationsLaunch`. On the file stands `DInv`: while there is no excuse, at most one
command is between its second reading and its writing (`OneWriter`) and it has all
of the user's lines in memory (`Remembered`); without these `UserLinesSurvive` is not
inductive. `Promised` is what a command that nobody disturbed can still keep at
each stage, down to the value in the file, from which `TestsSeeTheFix` follows with
`PInv`, what a process got from its shell. `RecommendationsLaunch` assumes nothing of the
machines: by the cases of system and browser, what the probes see launches (`SeenLaunches`)
or is a `LookAlike`, and what launches is seen (`LaunchesIsSeen`).

`WidgetCheck_proofs` (for any number of rounds, requests and drifts, any
totals, defect, modes and a tolerance with at least one margin, which
`Tolerance.__post_init__` demands): `TypeCorrect`, `DefectIsFoundHolds`,
`NoFalseAlarmHolds` and `ReadIsFoundHolds`. `WInv` says of each request
that its answer is the truth until the database changes (`TrueAnswer`), of the event
queue that it has each request once (`QueueInv`), of what was captured that it is over and was not
when the check began (`CapturedInv`, `SettledInv`), of the picked exchange that it is the
widget's (`PickedInv`), and of the check's own request that it is in the list once it
was read (`OwnInv`). The lemmas on `Comparison` state what equality and
tolerance mean for two payloads.

`Discovery_proofs` (for any terminals, commands, applications with finitely many
URLs, and schemas):

1. `ReportTracked`. Its invariant adds to `ReportKeepsTrack` that, while nobody has
   interfered, the command that writes is the only one and has in memory what was
   claimed (`Writing`).
2. `RecordedLocatorsFind`, over `Typed`: a locator recorded for an element finds it
   unless the element is one of `Misses`, and then does not if its names differ, by the cases of the extractor
   (`FirstCandidate`) and of the browser (`RoleAgrees`, `NameAgrees`).
3. `CrawlVisitsNearestFirst`. Only URLs reachable from the start are visited, each once
   and nearer ones first. `WellVisited` is not inductive without `WellQueued`: a visited
   page's links are visited or queued, what is queued is one link further than some
   visited page, and the queue is in the order of distances, except for URLs that have
   come up before, which the crawl skips.
4. `EntriesGetFiles`, over `Generating` (what is rendered so far, in the order of the
   entries), under `PageNamesApart`: no page shares a class name with another page or
   table. A page's class is numbered by its place in the report, so this asks that numerals
   differ and that no table is called `discoveredpage` and a number;
   `NamesAssumption` checks it for reports of up to three entries.

Recursive functions and folds are reasoned about without the library's induction
theorems, which take an operator as a parameter. `SequenceLemmas` states induction for a
set of numbers (`LeastNumber`, `InductionTo`) and for a step function (`Iteration`); the
lemmas about `Among` and flattening, and what the scans of lines compute, follow
from these.

Only model-checked is liveness: `EveryCallReturns`, `SeededRowsGo`, `CommandEnds`,
`CheckEnds`. It rests on fairness and ENABLED, which are beyond the prover.

## Divergences no run is spent on

Found while modelling. Where a divergence is of a definition in `map`, the definition
does what the code does, and a property that the divergence touches says which cases it
excepts. Of detail that the models abstract (a text that matches another, such as "edge";
SQLite's busy RELEASE, wording and exit codes nobody can reach), and of the last paragraph, the code was only read.

Database and seeding. (a) In-memory SQLite uses a StaticPool: another connection's
rollback or close takes a `UnitOfWork`'s writes along (`connection_factory.py:69`
against `unit_of_work.py:31`). (d) On SQLite a `nested_transaction` as the first
statement opens the transaction with its SAVEPOINT, and the RELEASE commits: the row
stays after a ROLLBACK block (`transaction_manager.py:65` against "must leave zero
trace", line 31). A POST of `SeedOrchestrator.seed` that raises leaves the
committed rows without a handle (`seed_orchestrator.py:43` against
`docs/CleanupStrategy.md:3`); `NothingOutlivesItsTest` excuses it as `half_seeded`.
A second run against the same database numbers its alarms from 1 again, and no
cleanup deletes alarms. No timeout is configured for pytest: a test that hangs keeps its rows.

API and browser. (b) A slow token answer and a slow request, of up to 30 s each, together
exceed the 30 s margin, and the caller sees a 401 from an expired token
(`oauth2_client_credentials.py:70` against line 19); so it does when a token lives
no longer than its way. `ExpiredIsLate` says that nothing else leads to it. Not every failure of an
authentication is an `ApiAuthenticationError`: what the callable of `JwtAuth` raises
goes through (`jwt_auth.py:31`), and so do the `KeyError` and `ValueError` of a token
response without the fields (`oauth2_client_credentials.py:68-70`, after the `try`).
A login saved for
the session is used after it has expired (`auth_state_path` checks it once). A browser
that dies under that login fails all later tests of the session that ask for it,
since pytest keeps the exception of a session's fixture; the self-healing of
`_BrowserSession` does not reach it.

Extension. The targets are all looked at before the first is written
(`scaffold.py:734-745`): a file created in between, by the customer or by another run
that was started in the same second, is overwritten without `--overwrite`
(`extension/__main__.py:64-65`: "NEVER by overwriting an existing file unless
`--overwrite` is also given"; `docs/FrameworkSync.md:72`: "never a silent partial
overwrite"). `CustomerFilesSurvive` is about the files that were there at the look. A write that
fails leaves a torn file and a directory without a complete manifest. `run --scaffold --dry-run` exits with 0 where the table in `run.py` says
6. A saved discovery of a login page that is analyzed without `--url` scores 35,
LOW_CONFIDENCE, instead of BLOCKED (`discovery_quality.py:64` against line 3).

Doctor and settings. The docstring of `_run` says None on a non-zero exit, but what a
failed probe prints counts: the error of `docker compose version` makes Docker
Compose available. A `git status` that times out passes for a clean tree. Exit
code 3 cannot occur, and `--browser X` exits 0 when X is not available. On Linux
chromium, chromium-browser and microsoft-edge-beta count as Chrome and Edge,
though the channel needs the stable build, and a browser of a channel is recommended
where Playwright is not installed (`detectors.py:190,199` against `report.py:29-30`);
`RecommendedLaunches` excepts exactly these, `LookAlike`. Of duplicate lines of a key the first
is judged and the last is loaded; quoted values and values with a comment are
conflicts; when the user deletes the line between plan and write, "Wrote" is
printed and nothing is set. A write that fails after truncating, on a full disk, loses
the user's lines with a traceback. `get_settings(None)` and `get_settings(DEV)` are cached apart.

Sync. The inventory is not "exactly which tests exist" (`test_inventory.py:23-28`): a JUnit 5
`@Test` on a method without a modifier, or one more than three lines above its method,
is missed, or yields the next visible method; an annotation on a class or in a
comment yields a method that may be no test; a class line in between takes the method. `InventoryIsExact`
says that nothing else is missed or added. `current_describe` is never reset; a pytest `test_`
function in a class that is no test class is attributed to an earlier one.
A clone that times out and an archive that is broken leave their temporary
directory. A report whose writing fails has been truncated: the old one is lost (`FailureKeepsReports`
excepts it). `_IGNORED_DIRS` is looked for in the absolute path. "edge" matches
"knowledge"; JUnit 4's `@Test(` counts as TestNG too; test cases of `.resource` files are
counted and not listed.

Widget checks. The rule that identifies a widget is the same for every filter
(`dashboard_config.py:60-66`; the shipped one, `sample_dashboard.json:42-45`, asks for
the widget's name only) and `find_matching` takes the first exchange that matches: a late
answer to the filter before is compared with this filter's number, and so is the
former one when the widget has refreshed since; the status is not looked at. A body that arrives
after the interceptor was left lands in the list of its next attachment when the same
interceptor is entered again (`interceptor.py:77,88`). `DefectIsFound` and
`NoFalseAlarm` except the exchanges that were still on their way when the check
began (`Undecided`).
`compare` without fields over disjoint keys passes, a field missing on both sides
matches as "both null", and pairwise agreement is not an equivalence with
tolerances, as `compare_all` says.

Discovery. Two terminals that save one report lose entries, and deleted ones come
back ("Each of ui/api/db appends"); a save that fails has truncated the report. The crawl follows redirects to other origins
and records their pages, counts URLs, so that one page reached by a redirect or by a fragment is
recorded under each of its URLs,
and one page that does not load loses the whole crawl. Locators that are not "genuinely
stable" (`models.py:14`, `ui_discovery.py:131`), `Misses`: `data-test-id` is recorded as
`test_id`; ids and name attributes go into a selector as they are, so that one with
a dot, a colon, a quote or a digit in front is another selector or none
(`ui_discovery.py:292,294`); `aria-labelledby` is not read although the browser takes
it first, and a label comes before the text; inputs that are no text fields and lists
of several choices get the role of others; a text does not name a `<button
role="combobox">`.
Tables whose names differ in case or underscores only share one generated file,
although both are printed; files of deleted entries stay.

Waits and pages (not modelled, read only). `for_dom_stable` never succeeds after a
navigation; `click_and_wait_for_toast` accepts an older toast; `for_loader_gone`
returns when the loader appears late; `until` counts only its sleeps as elapsed.

## Not modelled, and the plan

Not modelled at all: page objects, components, workflows, services, query texts,
exporters, logging and telemetry, which are sequences of library calls or
formatting with no state of their own; visual and accessibility checks, which
compare what external tools return; the CI files. Left out of modelled parts:
`DatabaseManager.dispose` while connections are out, videos and HAR files
(`record_har_path` is set for every test, so with `har_recording` a HAR of a
passing test stays as well, unlike what the docstring of `DriverManager` says),
`UiCleanupHooks`, the AI mode of `analyze` (a file of its own after the report),
what generated files say, half-written reports of the extension, the refusals of `paths.py`
(no planned path leaves its root), evictions from the cache of settings, a `DriverManager` that owns its browser, asynchronous use.

`ExtensionRun` leaves the crawl's result free where `Discovery` models it:
together they would multiply states without a property that spans both. In
`Discovery` a site stands still while a page is read, and the generated code
has no text; in `SyncRun` regular expressions are what they match on a line; in
`DoctorRun` versions and remediation texts are left out; in `WidgetCheck` exports and
JSON-RPC filters.

What is left, in this order:

1. `PageWaits`: `WaitManager.until`, `retry` and the toast and loader waits of
   `BasePage` over a page that changes; that a condition which holds when the deadline comes is seen.
2. `DataCache` with its clock, and the builders against the validators, as pure operators.
3. Proofs for these, and for less under the hypotheses of the theorems above:
   `PageNamesApart` from a fact on numerals.
