------------------------------ MODULE SyncRun ------------------------------
(***************************************************************************)
(* python -m framework.sync: the commands analyze, scaffold, diff and      *)
(* recommend over one customer repository, its report files and the        *)
(* temporary directories of its sources (sync/__main__.py, sources.py,     *)
(* cli_common.py, ai/providers.py).  One command runs at a time; the       *)
(* customer goes on working and may change a checkout while it is read.    *)
(***************************************************************************)
EXTENDS Migration

CONSTANTS
    Versions,       \* name of a version -> the repository, a sequence of files
    Histories,      \* sets of versions of one repository
    Checkout,       \* the absolute path of the customer's directory
    TempDir,        \* the absolute path of a temporary directory
    ReportFiles,    \* the names given to --report
    CommandLines,   \* [command, source, report, other, scope, selector, suggestions]
    AnalysisOf,     \* what each possible report says, see AnalysisAssumption
    MaxCommands     \* bound: commands in a behaviour

VARIABLES
    disk,           \* the version in the customer's directory
    at,             \* the stage of the running command, or "idle"
    options,        \* its command line
    temp,           \* its temporary directory: "zip", "git" or None
    copy,           \* the version that is in the temporary directory
    listed, read,   \* the versions that were collected and that were read
    exit,           \* how the last command ended, None while one runs
    reports,        \* the report files: an analysis, Absent or Torn
    recommended,    \* the technologies in the file that recommend wrote
    worksheet,      \* the worksheet on disk
    left,           \* how far the commands came that left their directory
    ended,          \* how far the last command came
    reportsBefore,  \* the reports when the running command began
    commands        \* commands begun

vars == <<disk, at, options, temp, copy, listed, read, exit, reports, recommended,
          worksheet, left, ended, reportsBefore, commands>>

Absent == [kind |-> "absent"]
Torn == [kind |-> "torn"]
ReportOf(root, collected, scanned) ==
    [kind |-> "analysis", root |-> root, files |-> collected, contents |-> scanned]
PossibleReports ==
    (UNION {{ReportOf(Checkout, f, c) : f, c \in history} : history \in Histories})
    \cup {ReportOf(TempDir, v, v) : v \in DOMAIN Versions}
IsReport(report) == report.kind = "analysis"

\* What each report says; a parameter, so that it is worked out once.
Analyses ==
    [r \in PossibleReports |->
        LET collected == CollectFiles(r.root, Versions[r.files])
        IN  Analysis(collected, ReadTextFiles(collected, Versions[r.contents]))]

\* A repository has each path once.
IsRepository(files) ==
    /\ IsSequence(files)
    /\ \A m, n \in DOMAIN files : PathOf(files[m]) = PathOf(files[n]) => m = n
    /\ \A file \in ToSet(files) :
          IsSequence(file.lines) /\ \A line \in ToSet(file.lines) : IsSequence(line.tables)
ASSUME VersionsAssumption == \A v \in DOMAIN Versions : IsRepository(Versions[v])

\* A version is one of a single repository.
ASSUME HistoriesAssumption ==
    /\ UNION Histories = DOMAIN Versions
    /\ \A g, h \in Histories : g \cap h # {} => g = h
ASSUME OptionsAssumption ==
    \A l \in CommandLines : {l.report, l.other} \subseteq ReportFiles /\ l.source \in {"dir", "zip", "git"}
ASSUME BoundAssumption == MaxCommands \in Nat
ASSUME AnalysisAssumption == AnalysisOf = Analyses

NoWorksheet == [kind |-> "none"]
NoSuggestions == [kind |-> "none"]

\* A workflow whose steps are null is not expected by the scan.
Raising ==
    {v \in DOMAIN Versions :
        \E f \in ToSet(Versions[v]) : InWorkflows(f) /\ Sets(f, "steps: null")}
Raises(version) == version \in Raising

TypeOK ==
    /\ disk \in DOMAIN Versions /\ copy \in DOMAIN Versions
    /\ listed \in DOMAIN Versions /\ read \in DOMAIN Versions
    /\ at \in {"idle", "start", "fill", "collect", "read", "cleanup", "save", "write"}
    /\ options \in CommandLines
    /\ temp \in {None, "zip", "git"}
    /\ exit \in {None, "0", "1", "traceback", "killed"}
    /\ reports \in [ReportFiles -> PossibleReports \cup {Absent, Torn}]
    /\ left \subseteq {"fill", "collect", "read", "cleanup", "killed"}
    /\ ended \in {None, "start", "fill", "read", "cleanup", "save", "write", "killed"}
    /\ commands \in 0 .. MaxCommands

Init ==
    /\ disk \in DOMAIN Versions /\ copy = disk /\ listed = disk /\ read = disk
    /\ at = "idle" /\ options \in {l \in CommandLines : l.command = "analyze" /\ l.source = "dir"}
    /\ temp = None /\ exit = None
    /\ \E earlier \in {Absent, ReportOf(Checkout, disk, disk)} :
          reports = [r \in ReportFiles |-> earlier]
    /\ reportsBefore = reports
    /\ recommended = NoSuggestions /\ worksheet = NoWorksheet
    /\ left = {} /\ ended = None /\ commands = 0

-----------------------------------------------------------------------------
(* The customer and the shell. *)

Edit ==
    /\ at # "idle"
    /\ \E history \in Histories : disk \in history /\ disk' \in history
    /\ UNCHANGED <<at, options, temp, copy, listed, read, exit, reports, recommended,
                   worksheet, left, ended, reportsBefore, commands>>

Start(l) ==
    /\ at = "idle" /\ commands < MaxCommands
    /\ at' = "start" /\ options' = l /\ exit' = None /\ ended' = None
    /\ reportsBefore' = reports /\ commands' = commands + 1
    /\ UNCHANGED <<disk, temp, copy, listed, read, reports, recommended, worksheet, left>>

\* The command is over: a temporary directory it still has stays on disk.
End(code, stage) ==
    /\ at' = "idle" /\ exit' = code /\ temp' = None /\ ended' = stage
    /\ left' = IF temp = None THEN left ELSE left \cup {stage}

Killed ==
    /\ at # "idle"
    /\ End("killed", "killed")
    /\ UNCHANGED <<disk, options, copy, listed, read, reports, recommended, worksheet, reportsBefore, commands>>

-----------------------------------------------------------------------------
(* analyze *)

Stay == UNCHANGED <<disk, options, recommended, worksheet, reportsBefore, commands>>
Running(command, stage) == at = stage /\ options.command = command

OpenDirectory ==
    /\ Running("analyze", "start") /\ options.source = "dir"
    /\ \/ at' = "collect" /\ UNCHANGED <<temp, exit, left, ended>>
       \/ End("1", at)                       \* not a directory
    /\ Stay /\ UNCHANGED <<copy, listed, read, reports>>

MakeTempDir ==
    /\ Running("analyze", "start") /\ options.source # "dir"
    /\ at' = "fill" /\ temp' = options.source
    /\ Stay /\ UNCHANGED <<copy, listed, read, exit, reports, left, ended>>

\* Mutant of CloneTimesOut: git is given no timeout.
CloneHangs ==
    /\ at = "fill" /\ temp = "git"
    /\ UNCHANGED vars

\* The archive is extracted or the clone ends; both hold what is on disk now.
Fill ==
    /\ at = "fill"
    /\ copy' = disk /\ at' = "collect"
    /\ Stay /\ UNCHANGED <<temp, listed, read, exit, reports, left, ended>>

\* No archive, a bad one, an unsafe member: expected; a full disk is not.
ExtractFails ==
    /\ at = "fill" /\ temp = "zip"
    /\ \E code \in {"1", "traceback"} : End(code, at)
    /\ Stay /\ UNCHANGED <<copy, listed, read, reports>>

\* Only this failure cleans up after itself.
CloneRefused ==
    /\ at = "fill" /\ temp = "git"
    /\ at' = "idle" /\ exit' = "1" /\ temp' = None /\ ended' = at
    /\ Stay /\ UNCHANGED <<copy, listed, read, reports, left>>

\* subprocess.TimeoutExpired is not among the expected errors.
CloneTimesOut ==
    /\ at = "fill" /\ temp = "git"
    /\ End("traceback", at)
    /\ Stay /\ UNCHANGED <<copy, listed, read, reports>>

Root == IF temp = None THEN disk ELSE copy

Collect ==
    /\ at = "collect"
    /\ listed' = Root /\ at' = "read"
    /\ Stay /\ UNCHANGED <<temp, copy, read, exit, reports, left, ended>>

\* Mutant of ReadAndAnalyze: the report is opened before the analysis.
AnalyzeInto ==
    /\ at = "read"
    /\ read' = Root /\ at' = "cleanup"
    /\ exit' = IF Raises(Root) THEN "traceback" ELSE None
    /\ reports' = [reports EXCEPT ![options.report] = Torn]
    /\ Stay /\ UNCHANGED <<temp, copy, listed, left, ended>>

\* Everything after the listing works on what was read here.
ReadAndAnalyze ==
    /\ at = "read"
    /\ read' = Root /\ at' = "cleanup"
    /\ exit' = IF Raises(Root) THEN "traceback" ELSE None
    /\ Stay /\ UNCHANGED <<temp, copy, listed, reports, left, ended>>

\* Mutant of Cleanup: cleaned up after success only.
CleanupAfterSuccess ==
    /\ at = "cleanup"
    /\ IF exit = None THEN /\ temp' = None /\ at' = "save" /\ UNCHANGED <<exit, left, ended>>
                       ELSE End(exit, at)
    /\ Stay /\ UNCHANGED <<copy, listed, read, reports>>

\* The finally clause, after success and after an exception.
Cleanup ==
    /\ at = "cleanup"
    /\ temp' = None
    /\ at' = IF exit = None THEN "save" ELSE "idle"
    /\ ended' = IF exit = None THEN ended ELSE at
    /\ Stay /\ UNCHANGED <<copy, listed, read, exit, reports, left>>

\* write_text truncates the report first.
OpenReport ==
    /\ at = "save"
    /\ \/ at' = "write" /\ reports' = [reports EXCEPT ![options.report] = Torn]
          /\ UNCHANGED <<temp, exit, left, ended>>
       \/ /\ \E code \in {"1", "traceback"} : End(code, at)  \* it cannot be opened
          /\ UNCHANGED reports
    /\ Stay /\ UNCHANGED <<copy, listed, read>>

WriteReport ==
    /\ at = "write"
    /\ LET root == IF options.source = "dir" THEN Checkout ELSE TempDir
       IN  reports' = [reports EXCEPT ![options.report] = ReportOf(root, listed, read)]
    /\ End("0", at)
    /\ Stay /\ UNCHANGED <<copy, listed, read>>

\* A full disk, for one: the report has been truncated and stays as far as it
\* was written.
WriteFails ==
    /\ at = "write"
    /\ End("traceback", at)
    /\ Stay /\ UNCHANGED <<copy, listed, read, reports>>

-----------------------------------------------------------------------------
(* scaffold, diff and recommend *)

\* A report that is missing or torn is an expected error.
Loads(names) == \A name \in names : IsReport(reports[name])

WithTests == {r \in PossibleReports : AnalysisOf[r].tests # <<>>}
SelectorMissing(report) ==
    report \in WithTests /\ NeedsSelector(options.scope) /\ options.selector = <<>>

ScaffoldCommand ==
    /\ Running("scaffold", "start")
    /\ LET given == options.suggestions => recommended # NoSuggestions
           ok == Loads({options.report}) /\ given /\ ~SelectorMissing(reports[options.report])
           folded == IF options.suggestions THEN recommended ELSE NoSuggestions
       IN  /\ End(IF ok THEN "0" ELSE "1", at)
           /\ worksheet' = IF ok THEN [kind |-> "worksheet", of |-> reports[options.report],
                                       line |-> options, suggestions |-> folded]
                           ELSE worksheet
    /\ UNCHANGED <<disk, options, copy, listed, read, reports, recommended, reportsBefore, commands>>

DiffCommand ==
    /\ Running("diff", "start")
    /\ End(IF Loads({options.report, options.other}) THEN "0" ELSE "1", at)
    /\ Stay /\ UNCHANGED <<copy, listed, read, reports>>

\* get_provider, and what suggest makes of a provider that is off or fails.
Confidence(provider) ==
    IF provider = "answers" THEN "ai_suggested" ELSE "discovered"

RecommendCommand ==
    /\ Running("recommend", "start")
    /\ \E configured \in BOOLEAN :
       LET ok == Loads({options.report}) /\ configured
       IN  /\ End(IF ok THEN "0" ELSE "1", at)
           /\ \E provider \in {"disabled", "unavailable", "answers"} :
                recommended' = IF ok THEN [kind |-> "suggestions", about |-> reports[options.report],
                                           confidence |-> Confidence(provider)]
                               ELSE recommended
    /\ UNCHANGED <<disk, options, copy, listed, read, reports, worksheet, reportsBefore, commands>>

-----------------------------------------------------------------------------
AnalyzeStep == OpenDirectory \/ MakeTempDir \/ Collect \/ ReadAndAnalyze \/ Cleanup
               \/ OpenReport \/ WriteReport \/ WriteFails
Step == AnalyzeStep \/ ScaffoldCommand \/ DiffCommand \/ RecommendCommand
FillStep == Fill \/ ExtractFails \/ CloneRefused \/ CloneTimesOut

Next == (\E l \in CommandLines : Start(l)) \/ Edit \/ Step \/ FillStep \/ Killed

\* A started command goes on; extracting ends, a clone is given its timeout.
Fairness == WF_vars(Step) /\ WF_vars(ExtractFails \/ (temp = "zip" /\ Fill)) /\ WF_vars(CloneTimesOut)
Spec == Init /\ [][Next]_vars /\ Fairness

-----------------------------------------------------------------------------
(* Properties. *)

Saved == {report \in {reports[r] : r \in ReportFiles} : IsReport(report)}

\* Every test that a worksheet shows comes with guidance that the worksheet's
\* own table of mappings explains, and a Robot test becomes a test, not one of
\* the other concepts that Robot Framework is mapped to (_guidance_for takes the
\* first mapping of the test's technology; extractors, adapters and mapping
\* table know technologies by different means).
Guided(sheet) ==
    \A candidate \in ToSet(sheet.shown) :
        /\ candidate.status # "unknown"
        /\ candidate.status = "conceptually_mappable" =>
                \E m \in ToSet(sheet.mappings) : m.target = candidate.target
        /\ candidate.test.technology = "Robot Framework" =>
                sheet.robot /\ candidate.target = "pytest test function"
GuidedWorksheets ==
    {w \in [of : PossibleReports, line : {l \in CommandLines : l.command = "scaffold"}] :
        Guided(Worksheet(AnalysisOf[w.of], w.line.scope, w.line.selector, NoSuggestions))}
EveryTestHasGuidance ==
    worksheet.kind = "worksheet" =>
        \E w \in GuidedWorksheets : w.of = worksheet.of /\ w.line = worksheet.line

\* The Robot test cases that are counted are the ones that are listed and those
\* of the resource files (analyze_robot_framework and RobotTestExtractor read
\* the tables apart).
CasesOfResources(contents) ==
    LET resources == {k \in DOMAIN contents : contents[k].suffix = ".resource"}
    IN  Cardinality(UNION {{k} \X ItemsOf(contents[k], "test_cases") : k \in resources})
ContentsOf(r) == ReadTextFiles(CollectFiles(r.root, Versions[r.files]), Versions[r.contents])
RobotAgrees(analysis, contents) ==
    analysis.robot.test_cases
        = Cardinality({k \in DOMAIN analysis.tests : analysis.tests[k].technology = "Robot Framework"})
          + CasesOfResources(contents)
RobotCounted == {r \in PossibleReports : RobotAgrees(AnalysisOf[r], ContentsOf(r))}

\* The annotations of a Java file whose test methods the patterns can see: a
\* visible method, at most three lines on, no other in between.
Plain(file) ==
    {n \in DOMAIN file.lines :
        LET on == file.lines[n].on
        IN  /\ file.lines[n].test /\ on \in DOMAIN file.lines
            /\ n <= on /\ on <= n + 3 /\ file.lines[on].def # None
            /\ \A i \in n .. on - 1 : file.lines[i].def = None}

\* Those with another method near: on a class, on a method without a modifier,
\* commented out.
Strays(file) ==
    {n \in DOMAIN file.lines \ Plain(file) :
        /\ file.lines[n].test
        /\ \E m \in DOMAIN file.lines : n <= m /\ m <= n + 3 /\ file.lines[m].def # None}

\* The tests listed for a Java file: each plain one by the name of its method,
\* under its class unless another class has begun since, and one for each stray.
Lists(tests, file) ==
    LET found == {k \in DOMAIN tests : tests[k].file = PathOf(file)}
        method(n) == file.lines[file.lines[n].on]
    IN  /\ Cardinality(found) = Cardinality(Plain(file) \cup Strays(file))
        /\ \A n \in Plain(file) : \E k \in found :
              /\ tests[k].name = method(n).def
              /\ Latest(file, n, Class) = method(n).owner => tests[k].class = method(n).owner
ListsJava(tests, contents) ==
    \A file \in ToSet(contents) :
        file.suffix = ".java" /\ RunnerForFile(file) # None => Lists(tests, file)
JavaListed == {r \in PossibleReports : ListsJava(AnalysisOf[r].tests, ContentsOf(r))}

\* A Java test is missing from a report only when its method has no modifier,
\* is more than three lines below its annotation or has another annotation, and
\* what is listed without being a test are the strays (JavaTestExtractor's look
\* ahead); no Robot test case is counted and not listed, but for those of
\* resource files, which Robot Framework refuses.
InventoryIsExact == Saved \subseteq JavaListed \cap RobotCounted

\* What a report says is about files that it counts, although the customer may
\* add and remove files between the listing and the reading of it.
NamesOnly(analysis, counted) ==
    /\ Cardinality(counted) = analysis.structure.files
    /\ {t.file : t \in ToSet(analysis.tests)} \cup {f.file : f \in analysis.findings}
        \subseteq counted
    /\ {c.file : c \in {d \in ToSet(analysis.catalog) : d.category # "AUTHENTICATION"}}
        \subseteq counted
OfTheirFiles ==
    {r \in PossibleReports :
        NamesOnly(AnalysisOf[r], {PathOf(f) : f \in ToSet(CollectFiles(r.root, Versions[r.files]))})}
ReportIsOfItsFiles == Saved \subseteq OfTheirFiles

\* A command that fails, unless it is killed, leaves every report as it was,
\* whatever it failed at, but for its own report when the writing itself fails
\* (analyze saves only when the analysis is complete, _cmd_analyze).
FailureKeepsReports ==
    exit \in {"1", "traceback"} =>
        \A r \in ReportFiles :
            reports[r] = IF ended = "write" /\ r = options.report THEN Torn ELSE reportsBefore[r]

\* Once a source is materialized its temporary directory is removed, whatever
\* the analysis does (the finally clause of _cmd_analyze).
OnlyMaterializeLeavesTemp == left \subseteq {"fill", "killed"}

\* A command comes to an end: git is given a timeout, everything else ends by
\* itself (GitRepositorySource, run_command).
CommandEnds == (at # "idle") ~> (at = "idle")
=============================================================================
