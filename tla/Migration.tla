----------------------------- MODULE Migration -----------------------------
(***************************************************************************)
(* framework/sync/cross_language_mapping.py, migration_candidates.py,      *)
(* compatibility.py, diff.py and scaffold.py: what is made of an analysis. *)
(* An analysis is a record [language, breakdown, detected, structure,      *)
(* robot, tests, inventory, execution, catalog, findings].                 *)
(***************************************************************************)
EXTENDS TestInventory

\* RepositoryAnalyzer.analyze over the files collected and those read.
Analysis(files, contents) ==
    LET structure == Structure(files)
        robot == RobotStructure(contents)
        tests == ExtractTests(contents)
        inventory == BuildInventory(contents, tests, robot, structure)
    IN  [language |-> PrimaryLanguage(files), breakdown |-> LanguageBreakdown(files),
         detected |-> Detected(contents), structure |-> structure, robot |-> robot,
         tests |-> tests, inventory |-> inventory, execution |-> ExecutionModel(contents),
         catalog |-> BuildCatalog(contents, inventory.authentication),
         findings |-> ScanFindings(contents)]

-----------------------------------------------------------------------------
(* Which concept of a detected technology becomes which one here. *)

Mapping(source, concept, target) == [source |-> source, concept |-> concept, target |-> target]
PlaywrightLocator == "Playwright Page/Locator"

BrowserDrivers ==
    {"Selenium", "Cypress", "WebdriverIO", "Robot Framework SeleniumLibrary", "Robot Framework Browser Library"}
ForeignRunners == {"TestNG", "JUnit", "NUnit", "xUnit"}
HttpLibraries == {"Robot Framework RequestsLibrary"}
TechnologyMappings ==
    [t \in BrowserDrivers \cup ForeignRunners \cup HttpLibraries |->
        CASE t \in BrowserDrivers -> Mapping(t, "browser interaction", PlaywrightLocator)
          [] t \in ForeignRunners -> Mapping(t, "test class", "pytest")
          [] t \in HttpLibraries -> Mapping(t, "HTTP API testing", "framework.api.ApiClient")]

RobotMapping(concept, target) == Mapping("Robot Framework", concept, target)
\* Mutant of RobotCountMappings: keywords, which tests are made of, come first.
RobotKeywordsFirst ==
    << <<"keywords", RobotMapping("User-defined Keyword", "helper, Page Object or component method")>>,
       <<"test_cases", RobotMapping("Test Case", "pytest test function")>> >>
RobotCountMappings ==
    << <<"test_cases", RobotMapping("Test Case", "pytest test function")>>,
       <<"keywords", RobotMapping("User-defined Keyword", "helper, Page Object or component method")>>,
       <<"resources", RobotMapping("Resource file", "Page Object, component or helper module")>>,
       <<"variables", RobotMapping("Variables", "configuration or test data")>> >>
RobotFlagMappings ==
    << <<"suite setup", RobotMapping("Suite Setup", "session or module fixture")>>,
       <<"suite teardown", RobotMapping("Suite Teardown", "fixture teardown")>>,
       <<"test setup", RobotMapping("Test Setup", "function fixture")>>,
       <<"test teardown", RobotMapping("Test Teardown", "fixture teardown")>> >>

LookupMappings(analysis) ==
    LET detected == analysis.detected
        known == Among(detected, {d \in ToSet(detected) : d.name \in DOMAIN TechnologyMappings})
        counted == Among(RobotCountMappings, {m \in ToSet(RobotCountMappings) : analysis.robot[m[1]] > 0})
        flagged == Among(RobotFlagMappings, {m \in ToSet(RobotFlagMappings) : m[1] \in analysis.robot.lifecycle})
        robot == IF analysis.robot.present THEN counted \o flagged ELSE <<>>
    IN  [n \in DOMAIN known |-> TechnologyMappings[known[n].name]]
        \o [n \in DOMAIN robot |-> robot[n][2]]

-----------------------------------------------------------------------------
(* The tests a scope selects and what is said about each. *)

Scopes == {"repository", "directory", "suite", "tag", "class", "test"}
NeedsSelector(scope) == scope # "repository"

Identifier(test) ==
    IF test.class = None THEN test.file \o <<test.name>> ELSE test.file \o <<test.class, test.name>>

\* A selector is a path, an identifier or <<name>>.
InScope(test, scope, selector) ==
    CASE scope = "repository" -> TRUE
      [] scope = "directory" -> IsStrictPrefix(selector, test.file)
      [] scope = "suite" -> test.file = selector
      [] scope = "tag" -> \E tag \in ToSet(test.tags) : selector = <<tag>>
      [] scope = "class" -> selector = <<test.class>>
      [] scope = "test" -> selector \in {Identifier(test), <<test.name>>}

AlreadyThisStack == {"pytest", "Playwright"}
StatusToRisk ==
    [directly_reusable |-> "low", conceptually_mappable |-> "medium", unknown |-> "unknown"]

GuidanceFor(test, mappings) ==
    LET own == test.technology \in AlreadyThisStack
        first == SelectInSeq(mappings, LAMBDA m : m.source = test.technology)
    IN  CASE own -> [target |-> test.technology, status |-> "directly_reusable"]
          [] ~own /\ first # 0 ->
               [target |-> mappings[first].target, status |-> "conceptually_mappable"]
          [] ~own /\ first = 0 -> [target |-> None, status |-> "unknown"]

FirstUI(analysis) ==
    LET first == SelectInSeq(analysis.detected, LAMBDA d : d.category = "ui_automation")
    IN  IF first = 0 THEN None ELSE analysis.detected[first].name

TechnologyLabel(analysis, test) ==
    {analysis.language, FirstUI(analysis), test.technology} \ {None, "unknown"}

Candidates(analysis, scope, selector) ==
    LET tests == analysis.tests
        selected == Among(tests, {t \in ToSet(tests) : InScope(t, scope, selector)})
        mappings == LookupMappings(analysis)
        Candidate(test) ==
            LET guidance == GuidanceFor(test, mappings)
            IN  [test |-> test, technology |-> TechnologyLabel(analysis, test),
                 target |-> guidance.target, status |-> guidance.status,
                 risk |-> StatusToRisk[guidance.status]]
    IN  [n \in DOMAIN selected |-> Candidate(selected[n])]

-----------------------------------------------------------------------------
(* The reports. *)

\* compatibility_ratio is supported / total.
CompatibilityReport(analysis) ==
    LET Level(level) == Count(analysis.detected, LAMBDA d : d.support = level)
    IN  [supported |-> Level(Full), partial |-> Level(Partial), manual |-> Level(Manual),
         total |-> Len(analysis.detected)]

DiffAnalyses(before, after) ==
    LET Names(analysis) == {d.name : d \in ToSet(analysis.detected)}
    IN  [newFrameworks |-> Names(after) \ Names(before),
         removedFrameworks |-> Names(before) \ Names(after),
         fileCountDelta |-> after.structure.files - before.structure.files,
         newFindings |-> after.findings \ before.findings,
         resolvedFindings |-> Cardinality(before.findings \ after.findings)]

\* The rows of the inventory block that have a value.
InventoryRows(analysis) ==
    LET inventory == analysis.inventory
        Counted == {"classes", "suites", "pages", "components", "keywords", "fixtures",
                    "apiClients", "databaseUtilities", "testData", "configs"}
        execution == analysis.execution
    IN  {"tests"} \cup {row \in Counted : inventory[row] > 0}
        \cup {row \in {"runner", "command"} : execution.found /\ execution[row] # None}
        \cup {row \in {"parallelism"} : execution.found /\ execution[row] # Unknown}
        \cup {row \in {"authentication", "reporting"} : inventory[row] # <<>>}
        \cup {row \in {"tags"} : inventory[row] # {}}
        \cup {row \in {"pipeline"} : inventory[row] # None}
        \cup {row \in {"framework"} : FirstUI(analysis) # None}

MaxShown == 50      \* candidates and findings that a worksheet shows

\* The sections of a worksheet that depend on more than their presence.
Worksheet(analysis, scope, selector, suggestions) ==
    LET candidates == Candidates(analysis, scope, selector)
        shown == Min({Len(candidates), MaxShown})
    IN  [languages |-> analysis.breakdown, rows |-> InventoryRows(analysis),
         detected |-> analysis.detected, mappings |-> LookupMappings(analysis),
         robot |-> analysis.robot.present, execution |-> analysis.execution.found,
         shown |-> SubSeq(candidates, 1, shown), more |-> Len(candidates) - shown,
         findings |-> Cardinality(analysis.findings), suggestions |-> suggestions]
=============================================================================
