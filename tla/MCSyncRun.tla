----------------------------- MODULE MCSyncRun -----------------------------
(***************************************************************************)
(* Small customer repositories and command lines for SyncRun.              *)
(***************************************************************************)
EXTENDS SyncRun

\* The lines and files that the repositories are put together from.
Code == [BlankLine EXCEPT !.blank = FALSE]
ClassLine(name) == [Code EXCEPT !.class = name]
Annotation(tags, on) == [Code EXCEPT !.test = TRUE, !.on = on, !.tags = tags, !.decorator = TRUE]
Method(name, class) == [Code EXCEPT !.def = name, !.owner = class, !.indent = 4]
Header(section) == [Code EXCEPT !.group = section]
Item(name) == [Code EXCEPT !.def = name]
Setting(name, value) == [Code EXCEPT !.setting = name, !.def = value]
RobotTags(tags) == [Code EXCEPT !.setting = "[tags]", !.tags = tags, !.indent = 4]
RobotVariable == [Code EXCEPT !.setting = "variable"]
TestCall(title, tags) == [Code EXCEPT !.test = TRUE, !.mark = "test(", !.def = title, !.tags = tags]
ItCall(title) == [Code EXCEPT !.test = TRUE, !.mark = "it(", !.def = title]
Describe(call, title) == [Code EXCEPT !.mark = call, !.group = title]
Mark(name) == [Code EXCEPT !.mark = name, !.decorator = TRUE]
Function(name, indent) == [Code EXCEPT !.test = TRUE, !.def = name, !.indent = indent]
HttpCall(verb, path) == [Code EXCEPT !.verb = verb, !.path = path, !.indent = 8]
Keyword(verb, path) == [HttpCall(verb, path) EXCEPT !.setting = "on session"]
Literal(kind) == [Code EXCEPT !.literals = {kind}]

File(dir, name, suffix, text, lines) ==
    [dir |-> dir, name |-> name, suffix |-> suffix, link |-> FALSE, text |-> text,
     lines |-> lines, config |-> <<>>]
Config(dir, name, suffix, text, config) ==
    [File(dir, name, suffix, text, <<>>) EXCEPT !.config = config]

\* A TestNG suite with a page object, an API client and a Jenkinsfile.
LoginTest ==
    File(<<"src", "test">>, "LoginTest.java", ".java",
         {"import org.testng.annotations.test;", "import org.openqa.selenium.webdriver;"},
         << ClassLine("LoginTest"), Annotation(<<"smoke">>, 3), Method("signIn", "LoginTest"),
            Literal("credential"), Annotation(<<>>, 6), Method("signOut", "LoginTest") >>)
LoginPage ==
    File(<<"src", "pages">>, "LoginPage.java", ".java", {"import org.openqa.selenium.by;"},
         <<ClassLine("LoginPage"), Method("open", "LoginPage"), Literal("url")>>)
OrderApi ==
    File(<<"src", "api">>, "OrderApi.java", ".java", {"import io.restassured.restassured;", "bearer"},
         <<ClassLine("OrderApi"), Method("order", "OrderApi"), HttpCall("GET", <<"orders", "{param}">>)>>)
OrderTest ==
    File(<<"src", "test">>, "OrderTest.java", ".java",
         {"import org.junit.test;", "restassured", "jdbc:"},
         <<ClassLine("OrderTest"), Annotation(<<>>, 4), Code, Method("ordersAreStored", "OrderTest")>>)
TestNGSuite == Config(<<>>, "testng.xml", ".xml", {"testng.xml"}, [suite |-> 1] @@ "thread-count" :> 4)
Jenkins == Config(<<>>, "Jenkinsfile", "", {"mvn test"}, [run |-> "mvn test"])
Link == [LoginPage EXCEPT !.link = TRUE, !.name = "OldPage.java"]
Vendored == [LoginTest EXCEPT !.dir = <<"target", "copied">>]
JavaSuite == <<Jenkins, LoginPage, Link, OrderApi, LoginTest, TestNGSuite, Vendored>>

\* Robot Framework: a suite, resources and a README.
Suite(name, section) ==
    File(<<"robot">>, name, ".robot", {"library seleniumlibrary", "on session"},
         << Header("settings"), Setting("library", "SeleniumLibrary"), Setting("suite setup", "Open"),
            Header(section), Item("Sign In"), RobotTags(<<"regression">>), Item("Order"),
            Keyword("POST", <<"orders">>), Header("keywords"), Item("Fill Form") >>)
Resource ==
    File(<<"robot">>, "common.resource", ".resource", {"library requestslibrary"},
         <<Header("keywords"), Item("Open"), Code, Header("variables"), RobotVariable, Literal("url")>>)
Readme == Config(<<>>, "README.md", ".md", {"robot --outputdir"}, [run |-> "robot robot"])
RobotSuite == <<Readme, Resource, Suite("orders.robot", "test cases")>>

\* Playwright and Cypress, run by a workflow.
Spec1 ==
    File(<<"e2e">>, "orders.spec.ts", ".ts", {"import { test } from '@playwright/test'", "page.", "fetch("},
         << Describe("test.describe(", "orders"), TestCall("lists", <<>>), Code,
            TestCall("adds", <<"smoke">>) >>)
Spec2 ==
    File(<<"cypress">>, "orders.cy.js", ".js", {"cy.visit("}, <<Describe("describe(", "orders"), ItCall("lists")>>)
Playwright ==
    Config(<<>>, "playwright.config.ts", ".ts", {"chromium", "reporter: 'html'"}, [workers |-> 2, retries |-> 1])
Package == Config(<<>>, "package.json", ".json", {"playwright"}, [test |-> "npx playwright test"])
Workflow(steps) == Config(<<".github", "workflows">>, "ci.yml", ".yml", {"npm ci"}, steps)
ScriptSuite == <<Workflow([run |-> "npx playwright test"]), Playwright, Package, Spec1, Spec2>>

\* pytest with a repository class and data.
TestOrders ==
    File(<<"tests">>, "test_orders.py", ".py", {"import pytest", "sqlalchemy", "dataset"},
         << ClassLine("TestOrders"), Mark("smoke"), Mark("slow"), Function("test_stored", 4),
            Code, Function("test_alone", 0) >>)
OrderRepo ==
    File(<<"db">>, "order_repo.py", ".py", {"cursor.execute", "datacomparator"},
         << ClassLine("OrderRepo"), [Code EXCEPT !.tables = <<"orders">>], ClassLine("OrderValidator"),
            [Code EXCEPT !.setting = "@pytest.fixture"] >>)
OrderComponent == File(<<"pages">>, "order_component_page.py", ".py", {}, <<ClassLine("OrderTable")>>)
Staging == Config(<<"environments">>, "staging.yaml", ".yaml", {"url"}, <<>>)
Pytest == Config(<<>>, "pytest.ini", ".ini", {"--alluredir"}, "-n" :> 4 @@ "--reruns" :> 2)
PythonSuite == <<Staging, OrderRepo, OrderComponent, Pytest, TestOrders>>

\* Java tests with their annotations up to four lines apart from the method.
Spaced(first, second) ==
    LET Space(n) == [i \in 1 .. n |-> Code]
        Begins(n) == IF n = 0 THEN <<[Annotation(<<>>, 3) EXCEPT !.def = "first", !.owner = "SpacedTest"]>>
                     ELSE <<Annotation(<<>>, n + 3)>> \o Space(n - 1) \o <<Method("first", "SpacedTest")>>
    IN  File(<<"test">>, "Spaced" \o ToString(first) \o ToString(second) \o "Test.java", ".java",
             {"import org.testng.*"},
             <<ClassLine("SpacedTest"), Method("setUp", "SpacedTest")>> \o Begins(first)
             \o <<Annotation(<<>>, first + second + 5)>> \o Space(second)
             \o <<Method("second", "SpacedTest"), Method("helper", "SpacedTest")>>)
SpacedSuite == [n \in 1 .. 16 |-> Spaced((n - 1) \div 4, (n - 1) % 4)]

\* What the patterns take for something else: an annotation on a class, test
\* methods without a modifier, a parameterized test, a class that has ended.
Hidden(class) == [Code EXCEPT !.owner = class, !.indent = 4]
NestedTest ==
    File(<<"test">>, "NestedTest.java", ".java", {"import org.junit.jupiter.api.*"},
         << Annotation(<<>>, 0), ClassLine("NestedTest"),
            Annotation(<<>>, 4), Hidden("NestedTest"), Method("helper", "NestedTest"),
            [Annotation(<<>>, 7) EXCEPT !.test = FALSE], Method("parameterized", "NestedTest"),
            ClassLine("Inner"), Annotation(<<>>, 10), Method("inside", "Inner"),
            Annotation(<<>>, 12), Method("outside", "NestedTest"), Annotation(<<>>, 14),
            Hidden("NestedTest") >>)
CasesResource ==
    [Suite("cases.resource", "test cases") EXCEPT !.suffix = ".resource"]

MCVersions ==
    [java |-> JavaSuite, javaMore |-> Append(JavaSuite, OrderTest),
     javaLess |-> <<Jenkins, OrderApi, TestNGSuite>>,
     robot |-> RobotSuite, robotMore |-> <<Suite("more.robot", "tasks")>> \o RobotSuite,
     script |-> ScriptSuite, scriptNull |-> <<Workflow("steps: null" :> 1)>> \o Tail(ScriptSuite),
     python |-> PythonSuite, spaced |-> SpacedSuite,
     nested |-> <<NestedTest, CasesResource>> \o RobotSuite]
MCHistories ==
    {{"java", "javaMore", "javaLess"}, {"robot", "robotMore"}, {"script", "scriptNull"},
     {"python"}, {"spaced", "nested"}}
MCAnalysisOf == Analyses
MCCheckout == <<"home", "qa", "shop">>
MCTempDir == <<"tmp", "framework_sync_zip_x">>

Line(command) ==
    [command |-> command, source |-> "dir", report |-> "r1", other |-> "r2",
     scope |-> "repository", selector |-> <<>>, suggestions |-> FALSE]
MCCommandLines ==
    { Line("analyze"), [Line("analyze") EXCEPT !.source = "zip", !.report = "r2"],
      [Line("analyze") EXCEPT !.source = "git"],
      Line("scaffold"), [Line("scaffold") EXCEPT !.scope = "suite"],
      [Line("scaffold") EXCEPT !.scope = "test", !.selector = <<"lists">>],
      [Line("scaffold") EXCEPT !.scope = "directory", !.selector = <<"src", "test">>, !.report = "r2"],
      [Line("scaffold") EXCEPT !.scope = "tag", !.selector = <<"regression">>, !.suggestions = TRUE],
      Line("diff"), Line("recommend") }
=============================================================================
