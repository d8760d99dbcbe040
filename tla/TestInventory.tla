---------------------------- MODULE TestInventory ----------------------------
(***************************************************************************)
(* framework/sync/test_inventory.py, execution_model.py and                *)
(* capability_catalog.py: the tests of a repository, how they are run and  *)
(* the assets a new test could use.  A test is a record                    *)
(* [file, class, name, technology, tags, category].                        *)
(***************************************************************************)
EXTENDS RepositoryScan

Unknown == -1       \* a number that no file gives

-----------------------------------------------------------------------------
(* Category: the tags say it, or else the layers the file touches. *)

SuiteTags ==
    "smoke" :> "smoke" @@ "regression" :> "regression" @@ "integration" :> "integration"
    @@ "unit" :> "unit" @@ "e2e" :> "end_to_end" @@ "end_to_end" :> "end_to_end"
    @@ "end-to-end" :> "end_to_end"
UITokens == {"selenium", "webdriver", "playwright", "cypress", "cy.visit(", "cy.get(", "page."}
ApiTokens ==
    {"requests.", "httpx.", "apiclient", "restassured", "fetch(", "axios", "requestslibrary", "on session"}
DbTokens == {"sqlalchemy", "cursor.execute", "jdbc", "queryexecutor", "databasemanager"}
Layers(file) ==
    (IF MentionsAny(file, UITokens) THEN <<"ui">> ELSE <<>>)
    \o (IF MentionsAny(file, ApiTokens) THEN <<"api">> ELSE <<>>)
    \o (IF MentionsAny(file, DbTokens) THEN <<"database">> ELSE <<>>)

ClassifyTest(tags, file) ==
    LET named == SelectSeq(tags, LAMBDA tag : tag \in DOMAIN SuiteTags)
        layers == Layers(file)
    IN  CASE named # <<>> -> SuiteTags[named[1]]
          [] named = <<>> /\ Len(layers) = 3 -> "end_to_end"
          [] named = <<>> /\ Len(layers) = 2 -> layers[1] \o "_" \o layers[2]
          [] named = <<>> /\ Len(layers) = 1 -> layers[1]
          [] OTHER -> "unknown"

Test(file, class, name, technology, tags) ==
    [file |-> PathOf(file), class |-> class, name |-> name, technology |-> technology,
     tags |-> tags, category |-> ClassifyTest(tags, file)]

\* The class or describe that a scan has seen last when it is at line n.
Latest(file, n, Name(_)) ==
    LET seen == {i \in 1 .. n : Name(file.lines[i]) # None}
    IN  IF seen = {} THEN None ELSE Name(file.lines[Max(seen)])
Class(line) == line.class

\* What a scan of the file finds at some of its lines, line by line.
Scanned(file, found) ==
    FlattenSeq([n \in DOMAIN file.lines |-> IF n \in DOMAIN found THEN <<found[n]>> ELSE <<>>])

-----------------------------------------------------------------------------
(* The extractors. *)

RunnerForFile(file) ==
    CASE Mentions(file, "org.testng") -> "TestNG"
      [] ~Mentions(file, "org.testng") /\ Mentions(file, "org.junit") -> "JUnit"
      [] OTHER -> None

\* Mutant of JavaMethods: the look ahead ends a line early.
JavaMethodsNear(file, n) ==
    {m \in DOMAIN file.lines : n <= m /\ m <= n + 2 /\ file.lines[m].def # None}

\* The methods in the annotation's line and the three after it.
JavaMethods(file, n) ==
    {m \in DOMAIN file.lines : n <= m /\ m <= n + 3 /\ file.lines[m].def # None}

\* An annotation is taken for the first of them.
JavaFound(file) ==
    [n \in {i \in DOMAIN file.lines : file.lines[i].test /\ JavaMethods(file, i) # {}} |->
        Test(file, Latest(file, n, Class), file.lines[Min(JavaMethods(file, n))].def,
             RunnerForFile(file), file.lines[n].tags)]
JavaTests(file) ==
    IF file.suffix = ".java" /\ RunnerForFile(file) # None THEN Scanned(file, JavaFound(file)) ELSE <<>>

\* The marks of the decorators above, up to five lines.
MarksAbove(file, n) ==
    LET above == {i \in 1 .. (n - 1) : i >= n - 5}
        Stops(line) == ~line.blank /\ ~line.decorator
        start == Max({0} \cup {i \in above : Stops(file.lines[i])})
        marked == {i \in above : i > start /\ file.lines[i].mark # None}
        lines == SetToSortSeq(marked, <)
    IN  [k \in DOMAIN lines |-> file.lines[lines[k]].mark]

PytestFound(file) ==
    LET TestClass(line) == IF /\ line.indent = 0 /\ Len(line.class) > 4
                              /\ SubSeq(line.class, 1, 4) = "Test"
                           THEN line.class ELSE None
        ClassAt(n) == IF file.lines[n].indent > 0 THEN Latest(file, n, TestClass) ELSE None
    IN  [n \in {i \in DOMAIN file.lines : file.lines[i].test} |->
            Test(file, ClassAt(n), file.lines[n].def, "pytest", MarksAbove(file, n))]
PytestTests(file) ==
    IF /\ file.suffix = ".py"
       /\ NameHas(file, {"test_", "_test.py"})
       /\ MentionsAny(file, {"import pytest", "pytest.mark", "pytest.fixture"})
    THEN Scanned(file, PytestFound(file)) ELSE <<>>

ScriptSuffixes == {".ts", ".tsx", ".js", ".jsx"}
CallsOf(file, call) == {n \in DOMAIN file.lines : file.lines[n].test /\ file.lines[n].mark = call}

\* A describe block counts until the next one, its end is not seen; the tags
\* are in the line of the call or the next one.
PlaywrightFound(file) ==
    LET Tagged(n) == {i \in DOMAIN file.lines : i \in {n, n + 1} /\ file.lines[i].tags # <<>>}
        Tags(n) == IF Tagged(n) = {} THEN <<>> ELSE file.lines[Min(Tagged(n))].tags
        Describe(line) == IF line.mark = "test.describe(" THEN line.group ELSE None
    IN  [n \in CallsOf(file, "test(") |->
            Test(file, Latest(file, n, Describe), file.lines[n].def, "Playwright", Tags(n))]
PlaywrightTests(file) ==
    IF file.suffix \in ScriptSuffixes /\ MentionsAny(file, {"@playwright/test", "from playwright"})
    THEN Scanned(file, PlaywrightFound(file)) ELSE <<>>

CypressFound(file) ==
    LET Describe(line) == line.group
    IN  [n \in CallsOf(file, "it(") |->
            Test(file, Latest(file, n, Describe), file.lines[n].def, "Cypress", <<>>)]
CypressTests(file) ==
    IF file.suffix \in ScriptSuffixes /\ MentionsAny(file, {"cypress", "cy.visit(", "cy.get("})
    THEN Scanned(file, CypressFound(file)) ELSE <<>>

\* The last [Tags] line before the next test case or section.
RobotFound(file) ==
    LET cases == ItemsOf(file, "test_cases")
        Ends(n) == {i \in DOMAIN file.lines : /\ i > n
                                              /\ i \in cases \/ file.lines[i].group # None}
        Body(n) == {i \in DOMAIN file.lines : i > n /\ \A end \in Ends(n) : i < end}
        Tagged(n) == {i \in Body(n) : file.lines[i].setting = "[tags]"}
        Tags(n) == IF Tagged(n) = {} THEN <<>> ELSE file.lines[Max(Tagged(n))].tags
    IN  [n \in cases |-> Test(file, None, file.lines[n].def, "Robot Framework", Tags(n))]
RobotTests(file) == IF file.suffix = ".robot" THEN Scanned(file, RobotFound(file)) ELSE <<>>

\* One extractor after the other, each over all files.
ExtractTests(contents) ==
    LET By(Extract(_)) == FlattenSeq([n \in DOMAIN contents |-> Extract(contents[n])])
    IN  By(JavaTests) \o By(PytestTests) \o By(PlaywrightTests) \o By(CypressTests) \o By(RobotTests)

-----------------------------------------------------------------------------
(* How the tests are run: config is what a file sets, by the setting's name. *)

Sets(file, key) == key \in DOMAIN file.config
ConfigOf(files, key, default) ==
    IF files # <<>> /\ Sets(files[1], key) THEN files[1].config[key] ELSE default
FirstWith(contents, Is(_)) ==
    LET first == SelectInSeq(contents, Is)
    IN  IF first = 0 THEN <<>> ELSE <<contents[first]>>

\* A workflow's run steps; README, then the test script, then pytest's own
\* configuration.  Jenkinsfile and Makefile are looked for, but never read.
CommandOf(contents) ==
    LET InWorkflow(f) == InWorkflows(f) /\ f.suffix \in {".yml", ".yaml"} /\ Sets(f, "run")
        InText(f) == f.name \in {"Jenkinsfile", "README.md", "Makefile"} /\ Sets(f, "run")
        InScript(f) == f.name = "package.json" /\ Sets(f, "test")
        IsPytest(f) == \/ f.name = "pytest.ini"
                       \/ f.name = "pyproject.toml" /\ Mentions(f, "[tool.pytest.ini_options]")
        ran == FirstWith(contents, InWorkflow) \o FirstWith(contents, InText)
        script == FirstWith(contents, InScript)
    IN  CASE ran # <<>> -> ran[1].config["run"]
          [] ran = <<>> /\ script # <<>> -> script[1].config["test"]
          [] ran = <<>> /\ script = <<>> /\ FirstWith(contents, IsPytest) # <<>> -> "pytest"
          [] OTHER -> None

ReportingTokens ==
    << <<"Allure", {"allure"}>>, <<"ExtentReports", {"extentreports"}>>,
       <<"Mochawesome", {"mochawesome"}>>, <<"JUnit XML", {"junit-xml", "junitxml"}>>,
       <<"HTML reporter", {"['html']", "reporter: 'html'"}>> >>
ReportingTools(contents) ==
    SelectSeq(ReportingTokens, LAMBDA r : \E f \in ToSet(contents) : MentionsAny(f, r[2]))

\* The first token, in this order, of the first file that has one.
BrowserTokens == <<"chromium", "chrome", "firefox", "webkit", "edge", "safari">>
BrowserOf(contents) ==
    LET file == FirstWith(contents, LAMBDA f : MentionsAny(f, ToSet(BrowserTokens)))
    IN  IF file = <<>> THEN None
        ELSE BrowserTokens[SelectInSeq(BrowserTokens, LAMBDA t : Mentions(file[1], t))]

ExecutionModel(contents) ==
    LET testng == FirstWith(contents, LAMBDA f : f.name = "testng.xml" /\ Sets(f, "suite"))
        PytestSets(f) == /\ f.name \in {"pytest.ini", "pyproject.toml", "setup.cfg"}
                         /\ Sets(f, "-n") \/ Sets(f, "--reruns") \/ Mentions(f, "allure")
        pytest == FirstWith(contents, PytestSets)
        playwright == FirstWith(contents, LAMBDA f : f.name = "playwright.config.ts")
        Number(numbers) == LET known == SelectSeq(numbers, LAMBDA n : n # Unknown)
                           IN  IF known = <<>> THEN Unknown ELSE known[1]
        Stem(f) == SubSeq(f.name, 1, Len(f.name) - Len(f.suffix))
        InEnvironments(f) == "environments" \in ToSet(f.dir) /\ f.suffix \in {".yaml", ".yml"}
        model ==
            [command |-> CommandOf(contents),
             runner |-> IF testng = <<>> THEN None ELSE "TestNG (via Maven Surefire)",
             parallelism |-> Number(<<ConfigOf(testng, "thread-count", Unknown),
                                      ConfigOf(pytest, "-n", Unknown),
                                      ConfigOf(playwright, "workers", Unknown)>>),
             retries |-> Number(<<ConfigOf(pytest, "--reruns", Unknown),
                                  ConfigOf(playwright, "retries", Unknown)>>),
             browser |-> IF ConfigOf(playwright, "browserName", None) # None
                         THEN ConfigOf(playwright, "browserName", None) ELSE BrowserOf(contents),
             reporting |-> ReportingTools(contents),
             environments |-> {Stem(f) : f \in {g \in ToSet(contents) : InEnvironments(g)}}]
        evidence == \/ \E key \in {"command", "runner", "browser"} : model[key] # None
                    \/ model.parallelism > 0 \/ model.retries > 0
                    \/ model.reporting # <<>> \/ model.environments # {}
    IN  [found |-> evidence] @@ model

-----------------------------------------------------------------------------
(* The inventory. *)

ApiClientTokens == {"apiclient", "requests.session", "httpx.client", "restassured", "requestslibrary"}
DatabaseTokens == {"queryexecutor", "databasemanager", "sqlalchemy", "connection.cursor", "jdbc"}
AuthMechanisms ==
    << <<"OAuth", {"oauth"}>>, <<"Bearer Token", {"bearer"}>>, <<"Basic Auth", {"basic auth"}>>,
       <<"API Key", {"api key", "apikey"}>>, <<"JWT", {"jwt"}>>, <<"Session Cookie", {"session cookie"}>> >>
AuthenticationMechanisms(contents) ==
    LET Mentioned(m) == \E f \in ToSet(contents) : MentionsAny(f, m[2])
        found == Among(AuthMechanisms, {m \in ToSet(AuthMechanisms) : Mentioned(m)})
    IN  [n \in DOMAIN found |-> found[n][1]]

CIPipelineHints ==
    "Jenkinsfile" :> "Jenkins" @@ ".gitlab-ci.yml" :> "GitLab CI" @@ "azure-pipelines.yml" :> "Azure Pipelines"
CIPipeline(contents) ==
    LET named == FirstWith(contents, LAMBDA f : f.name \in DOMAIN CIPipelineHints)
    IN  CASE \E f \in ToSet(contents) : InWorkflows(f) -> "GitHub Actions"
          [] OTHER -> IF named = <<>> THEN None ELSE CIPipelineHints[named[1].name]

BuildInventory(contents, tests, robot, structure) ==
    LET IsTestData(f) == /\ f.suffix \in {".json", ".csv", ".xlsx", ".yaml", ".yml"}
                         /\ ToSet(f.dir) \cap {"testdata", "test_data", "fixtures", "data"} # {}
        Mentioning(tokens) == Count(contents, LAMBDA f : MentionsAny(f, tokens))
        suites == {t.file : t \in {u \in ToSet(tests) : u.technology = "Robot Framework"}}
                  \cup {PathOf(f) : f \in {g \in ToSet(contents) : g.name = "testng.xml"}}
    IN  [tests |-> Len(tests),
         classes |-> Cardinality({<<t.file, t.class>> : t \in {u \in ToSet(tests) : u.class # None}}),
         suites |-> Cardinality(suites),
         tags |-> UNION {ToSet(t.tags) : t \in ToSet(tests)},
         pages |-> structure.pages, configs |-> structure.configs,
         components |-> Count(contents, LAMBDA f : NameHas(f, {"Component.", "component_", "Widget.", "widget_"})),
         keywords |-> robot.keywords,
         fixtures |-> Cardinality({l \in LinesOf(contents) : contents[l[1]].lines[l[2]].setting = "@pytest.fixture"}),
         apiClients |-> Mentioning(ApiClientTokens), databaseUtilities |-> Mentioning(DatabaseTokens),
         testData |-> Count(contents, IsTestData),
         authentication |-> AuthenticationMechanisms(contents), pipeline |-> CIPipeline(contents),
         reporting |-> ReportingTools(contents)]

-----------------------------------------------------------------------------
(* The catalog: one capability for each asset, in the order of the code. *)

Capability(category, name, file) ==
    [category |-> category, name |-> name, file |-> PathOf(file), method |-> None,
     pattern |-> <<>>, table |-> None]

\* A placeholder, or what follows a trailing slash, is {param}.
Calling(file, name, n) ==
    [Capability("API_CLIENT", name, file) EXCEPT !.method = file.lines[n].verb, !.pattern = file.lines[n].path]
IsKeyword(file, n) == file.lines[n].verb # None /\ file.lines[n].setting = "on session"
ClientCalls(file) ==
    LET Owner(n) == Latest(file, n, Class)
        Method(n) == Latest(file, n, LAMBDA line : line.def)
        IsCall(n) == /\ file.lines[n].verb # None /\ ~IsKeyword(file, n)
                     /\ \E hint \in {"Api", "Client"} : Occurs(hint, Owner(n))
    IN  [n \in {i \in DOMAIN file.lines : IsCall(i)} |->
            Calling(file, IF Method(n) = None THEN <<Owner(n)>> ELSE <<Owner(n), Method(n)>>, n)]
ClientKeywords(file) ==
    [n \in {i \in DOMAIN file.lines : IsKeyword(file, i)} |->
        Calling(file, PathOf(file) \o <<file.lines[n].verb>>, n)]
ClientCapabilities(file) == Scanned(file, ClientCalls(file)) \o Scanned(file, ClientKeywords(file))

\* The classes of a file that are named like something.
ClassesLike(file, hints, category) ==
    [n \in {i \in DOMAIN file.lines : \E hint \in hints : Occurs(hint, file.lines[i].class)} |->
        Capability(category, <<file.lines[n].class>>, file)]
TablesAt(file, n) ==
    [k \in DOMAIN file.lines[n].tables |->
        [Capability("DATABASE_UTILITY", <<"table", file.lines[n].tables[k]>>, file)
            EXCEPT !.table = file.lines[n].tables[k]]]
DatabaseCapabilities(file) ==
    Scanned(file, ClassesLike(file, {"Repo", "Dao"}, "DATABASE_UTILITY"))
    \o FlattenSeq([n \in DOMAIN file.lines |-> TablesAt(file, n)])

ValidatorCapabilities(file) ==
    Scanned(file, ClassesLike(file, {"Validator"}, "VALIDATION"))
    \o (IF Mentions(file, "datacomparator")
        THEN <<Capability("VALIDATION", <<"DataComparator">>, file)>> ELSE <<>>)

\* The first class of a file that is named like a page object.
PageCapabilities(file) ==
    LET first == SelectInSeq(file.lines, LAMBDA line : line.class # None)
        category == IF Occurs("component", file.name) \/ Occurs("Component", file.name)
                    THEN "COMPONENT" ELSE "PAGE_OBJECT"
    IN  IF NameHas(file, PageObjectHints) /\ first # 0
        THEN <<Capability(category, <<file.lines[first].class>>, file)>> ELSE <<>>

DataAndReportCapabilities(file) ==
    LET isData == \E token \in {"testdata", "test_data", "fixture", "dataset", "seed", "factory"} :
                     \E n \in DOMAIN PathOf(file) : Occurs(token, PathOf(file)[n])
        tools == SelectSeq(<<"allure", "reportportal", "extent report", "html report">>,
                           LAMBDA token : Mentions(file, token))
    IN  (IF isData THEN <<Capability("TEST_DATA", PathOf(file), file)>> ELSE <<>>)
        \o (IF tools # <<>> /\ file.suffix \notin {".md", ".txt"}
            THEN <<Capability("REPORTING", <<tools[1]>>, file)>> ELSE <<>>)

BuildCatalog(contents, mechanisms) ==
    LET By(Extract(_)) == FlattenSeq([n \in DOMAIN contents |-> Extract(contents[n])])
        nowhere == [dir |-> <<>>, name |-> None]
        auth == [n \in DOMAIN mechanisms |-> Capability("AUTHENTICATION", <<mechanisms[n]>>, nowhere)]
    IN  By(ClientCapabilities) \o By(DatabaseCapabilities) \o By(ValidatorCapabilities)
        \o By(PageCapabilities) \o auth \o By(DataAndReportCapabilities)
=============================================================================
