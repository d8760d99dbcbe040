--------------------------- MODULE RepositoryScan ---------------------------
(***************************************************************************)
(* framework/sync/analyzer.py, detectors.py and robot_analysis.py: what a  *)
(* static scan makes of a repository.  A repository is the sequence of its *)
(* files in the order of rglob.  A file is a record                        *)
(*   [dir, name, suffix, link, text, lines, config]                        *)
(* with text the lower-case fragments it is made of, lines its lines and   *)
(* config the numbers and names of the settings it makes.  A line is what  *)
(* the scanners' patterns read off it, see BlankLine.                      *)
(***************************************************************************)
EXTENDS Filters, Integers, FiniteSetsExt, TLC

None == ""

\* group: the title of a describe or a robot section header; def: a method, a
\* function, a test title, a keyword or a library; test: @Test, def test_,
\* test( or it(; verb, path: an HTTP call; literals: credentials and URLs.  What
\* the patterns do not see: on is the line of the method that an annotation
\* stands on, owner the class that a method is a member of.
BlankLine ==
    [blank |-> TRUE, indent |-> 0, class |-> None, group |-> None, def |-> None,
     test |-> FALSE, on |-> 0, owner |-> None, tags |-> <<>>, mark |-> None, decorator |-> FALSE, setting |-> None,
     verb |-> None, path |-> <<>>, tables |-> <<>>, literals |-> {}]

Occurs(part, string) ==
    \E i \in 0 .. (Len(string) - Len(part)) : SubSeq(string, i + 1, i + Len(part)) = part
Mentions(file, part) == \E fragment \in file.text : Occurs(part, fragment)
MentionsAny(file, parts) == \E part \in parts : Mentions(file, part)
NameHas(file, hints) == \E hint \in hints : Occurs(hint, file.name)
PathOf(file) == Append(file.dir, file.name)
LinesOf(contents) == UNION {{k} \X DOMAIN contents[k].lines : k \in DOMAIN contents}

-----------------------------------------------------------------------------
(* The files that are looked at, and the ones that are read. *)

IgnoredDirs ==
    { ".git", "node_modules", ".venv", "venv", "__pycache__", "dist", "build", "target",
      "bin", "obj", ".tox", ".idea", ".vscode", ".mypy_cache", ".ruff_cache", ".pytest_cache" }
SourceExtensions == {".py", ".java", ".js", ".jsx", ".ts", ".tsx", ".cs", ".robot", ".resource"}
Language ==
    [suffix \in SourceExtensions |->
        CASE suffix = ".py" -> "Python"
          [] suffix = ".java" -> "Java"
          [] suffix \in {".js", ".jsx"} -> "JavaScript"
          [] suffix \in {".ts", ".tsx"} -> "TypeScript"
          [] suffix = ".cs" -> "C#"
          [] suffix \in {".robot", ".resource"} -> "Robot Framework"]
TextExtensions ==
    SourceExtensions \cup
    { ".csproj", ".sln", ".json", ".xml", ".gradle", ".kts", ".yaml", ".yml", ".toml",
      ".cfg", ".ini", ".txt", ".md" }
RobotSuffixes == {".robot", ".resource"}

\* An ignored name counts wherever it stands in the absolute path.
CollectFiles(root, repository) ==
    LET Wanted(file) == /\ ~file.link
                        /\ ToSet(root \o PathOf(file)) \cap IgnoredDirs = {}
    IN  Among(repository, {file \in ToSet(repository) : Wanted(file)})

\* Mutant of ReadTextFiles: the directory is walked again.
ReadTextFilesAgain(files, repository) ==
    SelectSeq(repository, LAMBDA file : file.suffix \in TextExtensions)

\* A file that is gone by the time it is read is left out.
ReadTextFiles(files, repository) ==
    LET Now(path) == SelectInSeq(repository, LAMBDA file : PathOf(file) = path)
        Readable(file) == file.suffix \in TextExtensions /\ Now(PathOf(file)) # 0
        readable == Among(files, {file \in ToSet(files) : Readable(file)})
    IN  [n \in DOMAIN readable |-> repository[Now(PathOf(readable[n]))]]

-----------------------------------------------------------------------------
(* Languages and structure. *)

Count(files, Is(_)) == Len(SelectSeq(files, LAMBDA file : Is(file)))

LanguageBreakdown(files) ==
    LET languages == {Language[f.suffix] : f \in {g \in ToSet(files) : g.suffix \in SourceExtensions}}
        IsIn(language, f) == f.suffix \in SourceExtensions /\ Language[f.suffix] = language
    IN  [l \in languages |-> Count(files, LAMBDA f : IsIn(l, f))]

\* The first of the most frequent ones.
PrimaryLanguage(files) ==
    LET breakdown == LanguageBreakdown(files)
        IsMost(f) == /\ f.suffix \in SourceExtensions
                     /\ \A l \in DOMAIN breakdown : breakdown[l] <= breakdown[Language[f.suffix]]
        first == SelectInSeq(files, IsMost)
    IN  IF first = 0 THEN "unknown" ELSE Language[files[first].suffix]

TestFileHints ==
    {"test_", "_test.", ".spec.", "spec.", "Test.java", "Tests.java", "Test.cs", "Tests.cs"}
PageObjectHints ==
    {"page.py", "Page.java", "Page.ts", "Page.cs", "page_object", "PageObject", "Page.js"}
DependencyFiles ==
    {"requirements.txt", "pyproject.toml", "package.json", "pom.xml", "build.gradle", "build.gradle.kts"}

InWorkflows(file) ==
    \E i \in 1 .. (Len(file.dir) - 1) : file.dir[i] = ".github" /\ file.dir[i + 1] = "workflows"

Structure(files) ==
    LET IsConfig(f) == \/ f.suffix \in {".yaml", ".yml", ".toml", ".ini", ".cfg"}
                       \/ f.name \in {"package.json", "pom.xml"}
        Some(Is(_)) == \E f \in ToSet(files) : Is(f)
    IN  [files |-> Len(files),
         tests |-> Count(files, LAMBDA f : NameHas(f, TestFileHints)),
         pages |-> Count(files, LAMBDA f : NameHas(f, PageObjectHints)),
         configs |-> Count(files, IsConfig),
         docker |-> Some(LAMBDA f : f.name \in {"Dockerfile", "docker-compose.yml", "docker-compose.yaml"}),
         ci |-> Some(LAMBDA f : InWorkflows(f) \/ f.name \in {"Jenkinsfile", ".gitlab-ci.yml"}),
         dependencies |-> SelectSeq(files, LAMBDA f : f.name \in DependencyFiles \/ f.suffix \in {".csproj", ".sln"})]

-----------------------------------------------------------------------------
(* The adapters: which technology leaves which fingerprint. *)

Adapter(name, category, support, suffixes, tokens) ==
    [name |-> name, category |-> category, support |-> support, suffixes |-> suffixes,
     tokens |-> tokens]
AnySuffix == TextExtensions
Full == "supported"
Partial == "partially_supported"
Manual == "requires_manual_review"

UIAdapters ==
    << Adapter("Playwright", "ui_automation", Full, AnySuffix, {"playwright"}),
       Adapter("Selenium", "ui_automation", Partial, AnySuffix, {"selenium", "webdriver"}),
       Adapter("Cypress", "ui_automation", Partial, AnySuffix, {"cypress", "cy.visit(", "cy.get("}),
       Adapter("WebdriverIO", "ui_automation", Partial, AnySuffix, {"@wdio/", "webdriverio", "wdio.conf"}) >>
RunnerAdapters ==
    << Adapter("pytest", "test_runner", Full, AnySuffix, {"import pytest", "pytest.mark", "pytest.fixture"}),
       Adapter("JUnit", "test_runner", Manual, AnySuffix, {"org.junit", "@test", "extends testcase"}),
       Adapter("TestNG", "test_runner", Manual, AnySuffix, {"org.testng", "@test(", "testng.xml"}),
       Adapter("NUnit", "test_runner", Manual, {".cs"}, {"nunit.framework", "[testfixture]"}),
       Adapter("xUnit", "test_runner", Manual, {".cs"}, {"xunit", "[fact]", "[theory]"}) >>
RobotAdapters ==   \* $ is the end of a line
    << Adapter("Robot Framework", "automation_dsl", Manual, AnySuffix, {"robotframework", "robot framework"}),
       Adapter("Robot Framework SeleniumLibrary", "ui_automation", Partial, RobotSuffixes, {"library seleniumlibrary"}),
       Adapter("Robot Framework Browser Library", "ui_automation", Partial, RobotSuffixes, {"library browser$"}),
       Adapter("Robot Framework RequestsLibrary", "api_automation", Partial, RobotSuffixes, {"library requestslibrary"}) >>
DefaultAdapters == UIAdapters \o RunnerAdapters \o RobotAdapters

Matches(adapter, contents) ==
    Among(contents, {f \in ToSet(contents) : f.suffix \in adapter.suffixes /\ MentionsAny(f, adapter.tokens)})

\* pytest is also known by its own files, Robot Framework first of all by them.
Hits(adapter, contents) ==
    LET own == CASE adapter.name = "pytest" ->
                      Among(contents, {f \in ToSet(contents) : f.name \in {"pytest.ini", "conftest.py"}})
                 [] adapter.name = "Robot Framework" ->
                      Among(contents, {f \in ToSet(contents) : f.suffix \in RobotSuffixes})
                 [] OTHER -> <<>>
    IN  IF adapter.name = "Robot Framework" /\ own # <<>> THEN own
        ELSE Matches(adapter, contents) \o own

Detected(contents) ==
    LET found == Among(DefaultAdapters, {a \in ToSet(DefaultAdapters) : Hits(a, contents) # <<>>})
        Evidence(adapter) == LET hits == Hits(adapter, contents)
                             IN  SubSeq(hits, 1, Min({5, Len(hits)}))
    IN  [n \in DOMAIN found |->
            [name |-> found[n].name, category |-> found[n].category, support |-> found[n].support,
             evidence |-> [i \in DOMAIN Evidence(found[n]) |-> PathOf(Evidence(found[n])[i])]]]

-----------------------------------------------------------------------------
(* Robot Framework's tables. *)

KnownSections ==
    "settings" :> "settings" @@ "setting" :> "settings" @@ "test cases" :> "test_cases"
    @@ "test case" :> "test_cases" @@ "tasks" :> "test_cases" @@ "task" :> "test_cases"
    @@ "keywords" :> "keywords" @@ "keyword" :> "keywords" @@ "variables" :> "variables"
    @@ "variable" :> "variables"

\* The section that a line belongs to, None for a header and what has none.
SectionOf(file, n) ==
    LET headers == {i \in 1 .. n : file.lines[i].group # None}
        header == file.lines[Max(headers)].group
    IN  IF headers = {} \/ n \in headers \/ header \notin DOMAIN KnownSections
        THEN None ELSE KnownSections[header]

\* The lines of a section that start a test case, a keyword or a variable.
ItemsOf(file, section) ==
    {n \in DOMAIN file.lines : /\ ~file.lines[n].blank
                               /\ file.lines[n].indent = 0
                               /\ SectionOf(file, n) = section
                               /\ section = "variables" => file.lines[n].setting = "variable"}

Lifecycle == {"suite setup", "suite teardown", "test setup", "test teardown"}

RobotStructure(contents) ==
    LET robot == Among(contents, {f \in ToSet(contents) : f.suffix \in RobotSuffixes})
        places == {k \in DOMAIN contents : contents[k].suffix \in RobotSuffixes}
        Total(section) == Cardinality(UNION {{k} \X ItemsOf(contents[k], section) : k \in places})
        Set(setting) == {s \in LinesOf(robot) : /\ SectionOf(robot[s[1]], s[2]) = "settings"
                                                /\ robot[s[1]].lines[s[2]].setting = setting}
    IN  [present |-> robot # <<>>,
         test_cases |-> Total("test_cases"), keywords |-> Total("keywords"),
         variables |-> Total("variables"),
         resources |-> Count(robot, LAMBDA f : f.suffix = ".resource"),
         libraries |-> {robot[s[1]].lines[s[2]].def : s \in Set("library")},
         lifecycle |-> {setting \in Lifecycle : Set(setting) # {}}]

-----------------------------------------------------------------------------
(* Findings: a line gives at most one, a credential before a URL. *)

FindingOf(file, n) ==
    LET literals == file.lines[n].literals
    IN  CASE "credential" \in literals -> "hardcoded_credential"
          [] /\ "credential" \notin literals /\ file.suffix \in SourceExtensions
             /\ "url" \in literals /\ "ignored url" \notin literals -> "hardcoded_url"
          [] OTHER -> None

ScanFindings(contents) ==
    {[file |-> PathOf(contents[l[1]]), line |-> l[2], category |-> FindingOf(contents[l[1]], l[2])] :
        l \in {m \in LinesOf(contents) : FindingOf(contents[m[1]], m[2]) # None}}
=============================================================================
