--------------------------- MODULE MCExtensionRun ---------------------------
(***************************************************************************)
(* Small projects, sites and command lines for ExtensionRun.               *)
(***************************************************************************)
EXTENDS ExtensionRun

P(segs, hints) == [segs |-> segs, hints |-> hints]
Call(method, path, host) ==
    [method |-> method, path |-> path, status |-> 200, host |-> host,
     query |-> {}, body |-> {}]

GetOrder == Call("GET", P(<<"orders", "42">>, {}), "app")
Styles == Call("GET", P(<<"main.css">>, {"static", "dotted"}), "app")
Widget == Call("GET", P(<<"chat">>, {}), "widgets")
SignIn == [Call("POST", P(<<"login">>, {"auth"}), "app") EXCEPT !.body = {"user"}]

Page(url, title, signals, elements, calls) ==
    [url |-> url, host |-> "app", title |-> title, signals |-> signals,
     elements |-> elements, calls |-> calls]
Save == [tag |-> "input", name |-> "save"]
Login == Page("u1", "Sign in", {"title", "password"}, <<Save>>, <<SignIn>>)
Orders == Page("u2", "Orders", {}, <<Save, Save>>, <<GetOrder, Styles>>)
Order == Page("u3", "Orders", {}, <<Save>>, <<[GetOrder EXCEPT !.status = 304], Widget>>)
Blank == Page("u4", "", {}, <<>>, <<Styles>>)
Logout == Page("u5", "", {"path"}, <<>>, <<>>)
SignedOut == Page("u6", "Sign in", {"title"}, <<>>, <<>>)

MCAnalytics == {"metrics"}
MCNumbers == {"42"}
MCSingular == [orders |-> "order"]
MCWords == [save |-> <<"save">>]
MCNames == "Orders" :> [class |-> "OrdersPage", feature |-> "Orders", slug |-> "orders"]
        @@ "Sign in" :> [class |-> "SignInPage", feature |-> "SignIn", slug |-> "sign_in"]
        @@ "u4" :> [class |-> "U4Page", feature |-> "U4", slug |-> "u4"]
        @@ "u5" :> [class |-> "U5Page", feature |-> "U5", slug |-> "u5"]

Capability(category, name, method, pattern, table) ==
    [category |-> category, name |-> name, method |-> method, pattern |-> pattern,
     table |-> table, titles |-> {}]
MCCatalog ==
    << Capability("API_CLIENT", "OrderApi.get", "GET", <<"orders", "{param}">>, ""),
       Capability("DATABASE_UTILITY", "table:order", "", NoPattern, "order"),
       Capability("AUTHENTICATION", "TokenAuth", "", NoPattern, "") >>
JavaProject == [language |-> "Java", technologies |-> {"TestNG"}, robot |-> FALSE,
                catalog |-> MCCatalog]
MCFrameworks == {JavaProject}
MCSites == {<<>>, <<Login, Orders>>, <<Orders, Order>>, <<Blank, Logout, SignedOut>>}
Symmetry == Permutations(Jobs)

OldReports ==
    LET pages == <<Login>>
    IN  Path(Cwd, SyncReport) :> JavaProject
          @@ Path(Cwd, DiscoveryReport) :> pages
          @@ Path(Cwd, ExtensionReport) :> BuildReport(JavaProject, pages, TRUE, TRUE)
Generated(file) == Path([area |-> "generated", stamp |-> 0], file)
OldScaffold ==
    LET files == {<<"tests", "Orders">>, ReadmeFile}
    IN  Generated(ManifestFile) :> [files |-> files]
          @@ [path \in {Generated(file) : file \in files} |-> [kind |-> "customer"]]
MCCustomerPaths == {Path([area |-> "scaffold", stamp |-> 0], ReadmeFile)}
MCLeftovers == {<<>>, OldReports @@ OldScaffold}

Line(command) ==
    [command |-> command, framework |-> TRUE, url |-> TRUE, planned |-> TRUE,
     scaffold |-> FALSE, yes |-> FALSE, tty |-> FALSE, dryRun |-> FALSE,
     overwrite |-> FALSE, allowDirty |-> FALSE, skipDoctor |-> FALSE,
     approve |-> FALSE, target |-> ""]
Run == [Line("run") EXCEPT !.scaffold = TRUE]
Scaffolding == [Line("scaffold") EXCEPT !.approve = TRUE]

MCInvocations ==
    { Line("analyze"),
      [Line("analyze") EXCEPT !.framework = FALSE, !.url = FALSE, !.planned = FALSE],
      [Run EXCEPT !.yes = TRUE], [Run EXCEPT !.dryRun = TRUE, !.target = "ROBOT_FRAMEWORK"],
      [Run EXCEPT !.tty = TRUE, !.allowDirty = TRUE, !.overwrite = TRUE, !.skipDoctor = TRUE],
      Scaffolding, [Line("scaffold") EXCEPT !.target = "UNKNOWN"] }
SinglePageInvocations == { [Run EXCEPT !.yes = TRUE] }
=============================================================================
