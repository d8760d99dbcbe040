---------------------------- MODULE ExtensionRun ----------------------------
(***************************************************************************)
(* framework/extension/run.py and __main__.py: the commands analyze, run   *)
(* and scaffold, from the options to the exit code, with the files they    *)
(* leave.  Several commands may be under way in one project; doctor, git   *)
(* and the person answer as they like, the browser finds what it finds.    *)
(* No file is ever deleted.  There is no fairness: a command that is       *)
(* killed is one that takes no further step.                               *)
(***************************************************************************)
EXTENDS Scaffold

CONSTANTS
    Jobs,           \* command processes
    Invocations,    \* command lines: records of options
    Frameworks,     \* what analyzing the existing framework may yield
    Sites,          \* what discovery may yield: sequences of pages
    Leftovers,      \* what earlier commands and the customer may have left on the disk
    CustomerPaths,  \* files of scaffold directories that the customer may save
    MaxTime         \* bound: seconds

ASSUME BoundAssumption == MaxTime \in Nat
ASSUME InvocationAssumption ==
    \A i \in Invocations : i.command \in {"analyze", "run", "scaffold"}

\* What a discovery yields: pages, each with the calls that were captured on it.
IsDiscovery(pages) ==
    /\ IsSequence(pages)
    /\ \A page \in ToSet(pages) : "calls" \in DOMAIN page /\ IsSequence(page.calls)
ASSUME SitesAssumption == \A pages \in Sites : IsDiscovery(pages)

\* The files that the commands know by name.
DiscoveryReport == <<"new_ui_discovery_report.json">>
SyncReport == <<"existing_framework_analysis.json">>
ExtensionReport == <<"extension_report.json">>
ReadmeFile == <<".", "README.md">>
ManifestFile == <<"extension-manifest.json">>

\* README.md and all other files of a manifest that is there are there too,
\* and a discovery report that is there is one.
ASSUME LeftoverAssumption ==
    \A files \in Leftovers : \A path \in DOMAIN files : path.file = ManifestFile =>
        /\ ReadmeFile \in files[path].files
        /\ \A file \in files[path].files : [dir |-> path.dir, file |-> file] \in DOMAIN files
ASSUME ReportsAssumption ==
    \A files \in Leftovers : \A path \in DOMAIN files :
        path.file = DiscoveryReport => IsDiscovery(files[path])

\* The customer saves no report and no manifest.
ASSUME CustomerAssumption ==
    \A path \in CustomerPaths :
        path.file \notin {ManifestFile, SyncReport, DiscoveryReport, ExtensionReport}

VARIABLES
    now,        \* the second that a run's directory is named after
    disk,       \* path -> content, of the files that exist
    pc,         \* how far the job is
    args,       \* the options of the job
    home,       \* where the job's reports are
    analysis, discovery, report,    \* what the job holds in memory
    plan,       \* the scaffold plan
    written,    \* the positions of its files that are written
    exit,       \* exit code, or -1
    seen        \* history: the files there when the job's targets were checked

inputs == <<args, home, analysis, discovery, report>>
output == <<plan, written>>
vars == <<now, disk, pc, inputs, output, exit, seen>>

NoArgs == [command |-> "none"]
NoHome == [area |-> "none", stamp |-> 0]
Cwd == [area |-> "cwd", stamp |-> 0]
RunDir(stamp) == [area |-> "run", stamp |-> stamp]
NoReport == <<>>
NoPlan == [files |-> <<>>]

Path(directory, file) == [dir |-> directory, file |-> file]
Exists(path) == path \in DOMAIN disk

\* Where the job writes code: --output-dir of scaffold, scaffold/ of a run.
Root(j) == IF args[j].command = "scaffold"
           THEN [area |-> "generated", stamp |-> 0]
           ELSE [area |-> "scaffold", stamp |-> home[j].stamp]
ManifestPath(j) == Path(Root(j), ManifestFile)
Target(j, n) == LET relative == plan[j].files[n].path
                IN  Path(Root(j), <<relative[1], relative[2]>>)
TargetPaths(j) == {Target(j, n) : n \in DOMAIN plan[j].files}
Manifest(j) == [files |-> {path.file : path \in TargetPaths(j)},
                generated |-> plan[j].generated, manual |-> plan[j].manual,
                reused |-> plan[j].reused]

Put(path, content) ==
    disk' = [p \in DOMAIN disk \cup {path} |-> IF p = path THEN content ELSE disk[p]]

Torn == [kind |-> "torn", files |-> {}]

Go(j, step) == pc' = [pc EXCEPT ![j] = step]
Stop(j, code) == Go(j, "done") /\ exit' = [exit EXCEPT ![j] = code]
Keep(j, var, value) == [var EXCEPT ![j] = value]

Init ==
    /\ now = 0 /\ disk \in Leftovers
    /\ pc = [j \in Jobs |-> "idle"]
    /\ args = [j \in Jobs |-> NoArgs]
    /\ home = [j \in Jobs |-> NoHome]
    /\ analysis = [j \in Jobs |-> NoReport]
    /\ discovery = [j \in Jobs |-> NoReport]
    /\ report = [j \in Jobs |-> NoReport]
    /\ plan = [j \in Jobs |-> NoPlan]
    /\ written = [j \in Jobs |-> {}]
    /\ exit = [j \in Jobs |-> -1]
    /\ seen = [j \in Jobs |-> {}]

Start(j) ==
    /\ pc[j] = "idle"
    /\ \E invocation \in Invocations :
          /\ args' = Keep(j, args, invocation)
          /\ Go(j, CASE invocation.command = "run" -> "preflight"
                     [] invocation.command = "analyze" -> "analyze"
                     [] invocation.command = "scaffold" -> "load")
    /\ home' = Keep(j, home, Cwd)
    /\ UNCHANGED <<now, disk, analysis, discovery, report, output, exit, seen>>

\* _run_preflight, then _timestamped_output_dir: mkdir(exist_ok=True).
PreflightPasses(j) ==
    /\ pc[j] = "preflight"
    /\ home' = Keep(j, home, RunDir(now))
    /\ Go(j, "analyze")
    /\ UNCHANGED <<now, disk, args, analysis, discovery, report, output, exit, seen>>

PreflightFails(j) ==
    /\ pc[j] = "preflight" /\ ~args[j].skipDoctor
    /\ Stop(j, 3)
    /\ UNCHANGED <<now, disk, inputs, output, seen>>

\* _load_or_analyze_framework
AnalyzeFramework(j) ==
    /\ pc[j] = "analyze" /\ args[j].framework
    /\ \E result \in Frameworks :
          /\ Put(Path(home[j], SyncReport), result)
          /\ analysis' = Keep(j, analysis, result)
    /\ Go(j, "discover")
    /\ UNCHANGED <<now, args, home, discovery, report, output, exit, seen>>

LoadFramework(j) ==
    /\ pc[j] = "analyze" /\ ~args[j].framework
    /\ Exists(Path(home[j], SyncReport))
    /\ analysis' = Keep(j, analysis, disk[Path(home[j], SyncReport)])
    /\ Go(j, "discover")
    /\ UNCHANGED <<now, disk, args, home, discovery, report, output, exit, seen>>

\* _discover_or_load_new_ui
DiscoverUI(j) ==
    /\ pc[j] = "discover" /\ args[j].url
    /\ \E pages \in Sites :
          /\ Put(Path(home[j], DiscoveryReport), pages)
          /\ discovery' = Keep(j, discovery, pages)
    /\ Go(j, "report")
    /\ UNCHANGED <<now, args, home, analysis, report, output, exit, seen>>

LoadUI(j) ==
    /\ pc[j] = "discover" /\ ~args[j].url
    /\ Exists(Path(home[j], DiscoveryReport))
    /\ discovery' = Keep(j, discovery, disk[Path(home[j], DiscoveryReport)])
    /\ Go(j, "report")
    /\ UNCHANGED <<now, disk, args, home, analysis, report, output, exit, seen>>

\* A source that cannot be read, a page that does not load, a missing report.
InputFails(j) ==
    /\ \/ pc[j] = "analyze" /\ (args[j].framework \/ ~Exists(Path(home[j], SyncReport)))
       \/ pc[j] = "discover" /\ (args[j].url \/ ~Exists(Path(home[j], DiscoveryReport)))
       \/ pc[j] = "load" /\ ~Exists(Path(Cwd, SyncReport))
       \/ pc[j] = "load_ui" /\ ~Exists(Path(Cwd, DiscoveryReport))
       \/ pc[j] = "load_report" /\ ~Exists(Path(Cwd, ExtensionReport))
    /\ Stop(j, 1)
    /\ UNCHANGED <<now, disk, inputs, output, seen>>

\* classify -> quality -> correlate -> plan; planned: --mode is not reuse-analysis.
BuildReport(framework, pages, urlGiven, planned) ==
    LET catalog == framework.catalog
        classified == Classification(pages)
        summary == Summary(CallsOf(pages), classified)
        kept == KeptCalls(classified)
        filtered == FilteredPages(pages, kept)
    IN  [correlations |-> CorrelateCalls(kept, catalog) \o CorrelateDatabase(kept, catalog),
         items |-> IF planned THEN ExtensionItems(filtered, catalog) ELSE <<>>,
         opportunities |-> IF planned THEN TestOpportunities(filtered, catalog) ELSE <<>>,
         summary |-> summary,
         quality |-> DiscoveryQuality(pages, urlGiven, summary)]

Analyze(j) ==
    /\ pc[j] = "report"
    /\ LET result == BuildReport(analysis[j], discovery[j], args[j].url, args[j].planned)
       IN  /\ Put(Path(home[j], ExtensionReport), result)
           /\ report' = Keep(j, report, result)
    /\ IF args[j].command = "analyze"
       THEN Stop(j, 0)
       ELSE Go(j, "quality") /\ UNCHANGED exit
    /\ UNCHANGED <<now, args, home, analysis, discovery, output, seen>>

\* Mutant of QualityGate: the score is looked at instead of the level.
QualityGateByScore(j) ==
    /\ pc[j] = "quality"
    /\ CASE report[j].quality.score = 0 -> Stop(j, 4)
         [] report[j].quality.score > 0 /\ ~args[j].scaffold -> Stop(j, 0)
         [] report[j].quality.score > 0 /\ args[j].scaffold ->
              Go(j, "git") /\ UNCHANGED exit
    /\ UNCHANGED <<now, disk, inputs, output, seen>>

\* run: the gates of the safety stage
QualityGate(j) ==
    /\ pc[j] = "quality"
    /\ CASE report[j].quality.level = "BLOCKED" -> Stop(j, 4)
         [] report[j].quality.level # "BLOCKED" /\ ~args[j].scaffold -> Stop(j, 0)
         [] report[j].quality.level # "BLOCKED" /\ args[j].scaffold ->
              Go(j, "git") /\ UNCHANGED exit
    /\ UNCHANGED <<now, disk, inputs, output, seen>>

BuildPlan(j) == plan' = Keep(j, plan,
                    ScaffoldPlan(analysis[j], discovery[j], report[j], args[j].target))

\* Anyone may edit or commit at any time, and the command's own reports are
\* untracked files where .gitignore does not name them; a git that is missing
\* or does not answer in time counts as clean.
GitGate(j) ==
    /\ pc[j] = "git"
    /\ \E dirty \in BOOLEAN :
          IF dirty /\ ~args[j].allowDirty
          THEN Stop(j, 5) /\ UNCHANGED plan
          ELSE /\ BuildPlan(j)
               /\ Go(j, IF args[j].dryRun THEN "check" ELSE "confirm")
               /\ UNCHANGED exit
    /\ UNCHANGED <<now, disk, inputs, written, seen>>

\* --yes, or an answer from a terminal.
Confirmed(j) ==
    /\ pc[j] = "confirm" /\ (args[j].yes \/ args[j].tty)
    /\ Go(j, "check")
    /\ UNCHANGED <<now, disk, inputs, output, exit, seen>>

Declined(j) ==
    /\ pc[j] = "confirm" /\ ~args[j].yes
    /\ Stop(j, 6)
    /\ UNCHANGED <<now, disk, inputs, output, seen>>

\* scaffold: three reports read one after the other, each from the disk of its time.
LoadSync(j) ==
    /\ pc[j] = "load" /\ Exists(Path(Cwd, SyncReport))
    /\ analysis' = Keep(j, analysis, disk[Path(Cwd, SyncReport)])
    /\ Go(j, "load_ui")
    /\ UNCHANGED <<now, disk, args, home, discovery, report, output, exit, seen>>

LoadDiscovery(j) ==
    /\ pc[j] = "load_ui" /\ Exists(Path(Cwd, DiscoveryReport))
    /\ discovery' = Keep(j, discovery, disk[Path(Cwd, DiscoveryReport)])
    /\ Go(j, "load_report")
    /\ UNCHANGED <<now, disk, args, home, analysis, report, output, exit, seen>>

LoadExtension(j) ==
    /\ pc[j] = "load_report" /\ Exists(Path(Cwd, ExtensionReport))
    /\ report' = Keep(j, report, disk[Path(Cwd, ExtensionReport)])
    /\ Go(j, "preview")
    /\ UNCHANGED <<now, disk, args, home, analysis, discovery, output, exit, seen>>

\* A preview unless --approve; neither the quality nor the tree is looked at.
Preview(j) ==
    /\ pc[j] = "preview"
    /\ BuildPlan(j)
    /\ IF args[j].dryRun \/ ~args[j].approve
       THEN Stop(j, 0)
       ELSE Go(j, "check") /\ UNCHANGED exit
    /\ UNCHANGED <<now, disk, inputs, written, seen>>

\* Mutant of Refused: only a scaffold that is there completely is refused.
RefusedWhenComplete(j) == ~args[j].overwrite /\ \A path \in TargetPaths(j) : Exists(path)

\* write_scaffold_plan: every target is looked at before any is written.
Refused(j) == ~args[j].overwrite /\ \E path \in TargetPaths(j) : Exists(path)

CheckTargets(j) ==
    /\ pc[j] = "check"
    /\ seen' = Keep(j, seen, DOMAIN disk)
    /\ CASE Refused(j) -> Stop(j, 1)
         [] ~Refused(j) /\ args[j].dryRun -> Stop(j, 0)
         [] ~Refused(j) /\ ~args[j].dryRun -> Go(j, "write") /\ UNCHANGED exit
    /\ UNCHANGED <<now, disk, inputs, output>>

\* The files not written yet; the first one in the plan comes first.
Pending(j) == DOMAIN plan[j].files \ written[j]
First(j, n) == n \in Pending(j) /\ \A m \in Pending(j) : n <= m

WriteFile(j) ==
    /\ pc[j] = "write"
    /\ \E n \in Pending(j) :
          /\ First(j, n)
          /\ Put(Target(j, n), plan[j].files[n])
          /\ written' = [written EXCEPT ![j] = @ \cup {n}]
    /\ UNCHANGED <<now, pc, inputs, plan, exit, seen>>

\* Mutant of WriteFails: the error is swallowed.
WriteFailsSilently(j) ==
    /\ pc[j] = "write"
    /\ Stop(j, 0)
    /\ UNCHANGED <<now, disk, inputs, output, seen>>

\* The next file cannot be made, or its writing ends early: write_text has
\* truncated what was there.
WriteFails(j) ==
    /\ pc[j] = "write"
    /\ \/ UNCHANGED disk
       \/ \E n \in Pending(j) : First(j, n) /\ Put(Target(j, n), Torn)
       \/ Pending(j) = {} /\ Put(ManifestPath(j), Torn)
    /\ Stop(j, 1)
    /\ UNCHANGED <<now, inputs, output, seen>>

\* Mutant of SaveManifest: the manifest is saved before the files.
SaveManifestFirst(j) ==
    /\ pc[j] = "write"
    /\ Put(ManifestPath(j), Manifest(j))
    /\ Stop(j, 0)
    /\ UNCHANGED <<now, inputs, output, seen>>

SaveManifest(j) ==
    /\ pc[j] = "write" /\ Pending(j) = {}
    /\ Put(ManifestPath(j), Manifest(j))
    /\ Stop(j, 0)
    /\ UNCHANGED <<now, inputs, output, seen>>

\* The customer works in the scaffold directory at any time.
CustomerSaves ==
    /\ \E path \in CustomerPaths : Put(path, [kind |-> "customer", files |-> {}])
    /\ UNCHANGED <<now, pc, inputs, output, exit, seen>>

Tick ==
    /\ now < MaxTime
    /\ now' = now + 1
    /\ UNCHANGED <<disk, pc, inputs, output, exit, seen>>

JobStep(j) ==
    \/ Start(j) \/ PreflightPasses(j) \/ PreflightFails(j)
    \/ AnalyzeFramework(j) \/ LoadFramework(j) \/ DiscoverUI(j) \/ LoadUI(j)
    \/ InputFails(j) \/ Analyze(j) \/ QualityGate(j) \/ GitGate(j)
    \/ Confirmed(j) \/ Declined(j)
    \/ LoadSync(j) \/ LoadDiscovery(j) \/ LoadExtension(j) \/ Preview(j)
    \/ CheckTargets(j) \/ WriteFile(j) \/ WriteFails(j) \/ SaveManifest(j)

Next == Tick \/ CustomerSaves \/ \E j \in Jobs : JobStep(j)

Spec == Init /\ [][Next]_vars

----------------------------------------------------------------------------

Steps == {"idle", "preflight", "analyze", "discover", "report", "quality", "git",
          "confirm", "load", "load_ui", "load_report", "preview", "check", "write",
          "done"}

\* Where a job may be and what its options and counters may hold.
TypeOK ==
    /\ now \in 0 .. MaxTime
    /\ pc \in [Jobs -> Steps]
    /\ args \in [Jobs -> Invocations \cup {NoArgs}]
    /\ exit \in [Jobs -> {-1, 0, 1, 3, 4, 5, 6}]
    /\ \A j \in Jobs :
          /\ home[j] \in {NoHome, Cwd} \cup {RunDir(t) : t \in 0 .. MaxTime}
          /\ written[j] \subseteq DOMAIN plan[j].files
          /\ seen[j] \subseteq DOMAIN disk

\* Without --overwrite a command, whether it writes or fails to, leaves every
\* file that was there when it looked at its targets as it was, the manifest
\* with them, although nobody looks for that one (write_scaffold_plan).  What
\* appears between its look and its writing is not safe.
CustomerFilesSurvive ==
    [][\A j \in Jobs : \A path \in seen[j] :
          (path.dir = Root(j) /\ pc[j] = "write" /\ ~args[j].overwrite
             /\ (written'[j] # written[j] \/ exit'[j] # exit[j]))
          => disk'[path] = disk[path]]_vars

\* A manifest on the disk never lists a file that is not there, wherever its
\* command, or another one in the same directory, was killed.
ManifestIsComplete ==
    \A path \in DOMAIN disk :
        path.file = ManifestFile =>
            \A file \in disk[path].files : Path(path.dir, file) \in DOMAIN disk

AsksForFiles(j) == /\ ~args[j].dryRun
                   /\ \/ args[j].command = "run" /\ args[j].scaffold
                      \/ args[j].command = "scaffold" /\ args[j].approve

\* Who asks for a scaffold and gets exit code 0 has the manifest and every
\* planned file; who gets the code of a gate has not a single file.
ExitCodeIsHonest ==
    \A j \in Jobs :
        /\ (exit[j] = 0 /\ AsksForFiles(j)) => TargetPaths(j) \cup {ManifestPath(j)} \subseteq DOMAIN disk
        /\ exit[j] \in {3, 4, 5, 6} => written[j] = {}

HasCode(j) == args[j].command = "run" /\ args[j].url /\ written[j] # {}

\* A run that discovers a UI writes code only from a discovery that is not
\* empty and does not begin at a login page.
EntryIsTheApplication ==
    \A j \in Jobs : HasCode(j) => discovery[j] # <<>> /\ ~IsLogin(discovery[j][1])

\* Nor is it all login pages without an element and without application
\* traffic: three gates away, the code bears out what the score promised.
ScaffoldIsEarned ==
    /\ EntryIsTheApplication
    /\ \A j \in Jobs : HasCode(j) =>
          \/ ~MostlyLogins(discovery[j])
          \/ ~NoElements(discovery[j])
          \/ report[j].summary.application # 0

\* Static, framework, analytics and third-party calls of any page never
\* become a row of the report, however calls were merged and filtered.
NoiseStaysOut ==
    \A j \in Jobs : report[j] # NoReport /\ args[j].command # "scaffold" =>
        \A item \in ToSet(report[j].items) : item.type = "API_ENDPOINT" =>
            \E call \in ToSet(CallsOf(discovery[j])) :
                /\ item.subject = <<call.method>> \o call.path.segs
                /\ ClassOf(call, discovery[j][1].host)
                      \in {"APPLICATION_API", "AUTHENTICATION"}

\* _find_discovered_page: a page's item is matched back to that page, so a
\* finished scaffold has a page object of each page that needs one.
EveryPageGetsItsFile ==
    \A j \in Jobs :
        (exit[j] = 0 /\ args[j].command = "run" /\ written[j] # {} /\ plan[j].target # "UNKNOWN") =>
            \A n \in DOMAIN discovery[j] : Scaffoldable(report[j].items[n]) =>
                \E path \in TargetPaths(j) :
                    /\ disk[path].kind = "page_object"
                    /\ disk[path].page = discovery[j][n].url

=============================================================================
