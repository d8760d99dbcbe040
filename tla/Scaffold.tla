------------------------------ MODULE Scaffold ------------------------------
(***************************************************************************)
(* framework/extension/target.py and scaffold.py: the plan of the files to *)
(* generate.  An analysis is a record [language, technologies, robot,      *)
(* catalog]; a file is [path, kind, page, fields, scenarios, reuse] with   *)
(* path <<folder, name>>, page the URL of the page it was generated from.  *)
(***************************************************************************)
EXTENDS GapAnalysis

CONSTANTS
    Names,      \* seed of a page -> [class, feature, slug] made of its words
    Words       \* name of an element -> the words of its slug, a sequence

Targets == {"JAVA_SELENIUM_TESTNG", "JAVA_SELENIUM_JUNIT", "PYTHON_PYTEST_PLAYWRIGHT",
            "TYPESCRIPT_PLAYWRIGHT", "ROBOT_FRAMEWORK", "UNKNOWN"}

DetectTarget(analysis) ==
    LET Has(name) == name \in analysis.technologies
        language == analysis.language
    IN  IF analysis.robot \/ Has("Robot Framework") THEN "ROBOT_FRAMEWORK"
        ELSE CASE language = "Java" /\ Has("TestNG") -> "JAVA_SELENIUM_TESTNG"
               [] language = "Java" /\ ~Has("TestNG") /\ Has("JUnit") -> "JAVA_SELENIUM_JUNIT"
               [] language = "Python" /\ {"pytest", "Playwright"} \subseteq analysis.technologies ->
                    "PYTHON_PYTEST_PLAYWRIGHT"
               [] language = "TypeScript" /\ Has("Playwright") -> "TYPESCRIPT_PLAYWRIGHT"
               [] OTHER -> "UNKNOWN"

\* A title, or else the last segment of the URL, which seeds every name.
Seed(page) == IF page.title # "" THEN page.title ELSE page.url

\* The slug of an element; a slug seen before on the page gets its index.
FieldNames(page) ==
    LET step(slugs, i) ==
            LET slug == Words[page.elements[i].name]
            IN  Append(slugs, IF Contains(slugs, slug) THEN Append(slug, ToString(i - 1)) ELSE slug)
    IN  FoldLeftDomain(step, <<>>, page.elements)

\* The first page whose title or URL is the item's subject, or 0.
FindPage(item, pages) ==
    LET IsMeant(page) == item.subject \in {<<page.title>>, <<page.url>>}
    IN  SelectInSeq(pages, IsMeant)

\* Capabilities that the page's own calls correlate to: the path, in whole
\* segments, is part of the item's subject.
RelatedReuse(page, items) ==
    LET InSubject(path, subject) ==
            \E from \in 1 .. (Len(subject) - Len(path.segs) + 1) :
                SubSeq(subject, from, from + Len(path.segs) - 1) = path.segs
        Concerns(item) ==
            /\ item.type \in {"API_ENDPOINT", "DATABASE"}
            /\ item.subject # <<"DATABASE_UTILITY">>   \* a name without a path
            /\ item.class \in {"REUSE_EXISTING", "EXTEND_EXISTING"}
            /\ \E call \in ToSet(page.calls) : InSubject(call.path, item.subject)
    IN  {item.capability : item \in {i \in ToSet(items) : Concerns(i)}}

ScenariosFor(page, opportunities) ==
    LET IsOf(opportunity) == opportunity.url = page.url
        found == SelectInSeq(opportunities, IsOf)
    IN  IF found = 0 THEN {"happy_path"} ELSE opportunities[found].scenarios

\* The page object (or Robot resource) and the test of a page.
TargetFiles(target, page, report) ==
    LET names == Names[Seed(page)]
        test == [kind |-> "test", page |-> page.url, fields |-> <<>>,
                 scenarios |-> ScenariosFor(page, report.opportunities),
                 reuse |-> RelatedReuse(page, report.items)]
        object == [kind |-> "page_object", page |-> page.url,
                   fields |-> FieldNames(page), scenarios |-> {}, reuse |-> {}]
        At(folder, name, file) == [path |-> <<folder, name>>] @@ file
    IN  CASE target \in {"JAVA_SELENIUM_TESTNG", "JAVA_SELENIUM_JUNIT"} ->
               <<At("pages", names.class, object), At("tests", names.feature, test)>>
          [] target \in {"PYTHON_PYTEST_PLAYWRIGHT", "TYPESCRIPT_PLAYWRIGHT"} ->
               <<At("pages", names.slug, object), At("tests", names.slug, test)>>
          [] target = "ROBOT_FRAMEWORK" ->
               <<At("resources", names.slug, object), At("tests", names.slug, test)>>
          [] target = "UNKNOWN" -> <<>>

Readme == [path |-> <<".", "README.md">>, kind |-> "readme", page |-> "",
           fields |-> <<>>, scenarios |-> {}, reuse |-> {}]

\* The classes of item that the plan generates code for.
Scaffoldable(item) ==
    item.type = "UI_PAGE" /\ item.class \in {"CREATE_NEW", "EXTEND_EXISTING"}

\* build_scaffold_plan: the files, README.md last, and the manifest.
ScaffoldPlan(analysis, pages, report, override) ==
    LET target == IF override # "" THEN override ELSE DetectTarget(analysis)
        items == report.items
        NeedsReview(item) == item.class \in {"MANUAL_REVIEW", "UNKNOWN"}
        WithCode(item) == FindPage(item, pages) # 0 /\ target # "UNKNOWN"
        Without(item) == ~WithCode(item)
        wanted == SelectSeq(items, Scaffoldable)
        coded == SelectSeq(wanted, WithCode)
        Subjects(s) == [n \in 1 .. Len(s) |-> s[n].subject]
        code == FlattenSeq([n \in 1 .. Len(coded) |->
                    TargetFiles(target, pages[FindPage(coded[n], pages)], report)])
        last == Len(code) + 1
    IN  [files |-> [n \in DOMAIN code \cup {last} |-> IF n = last THEN Readme ELSE code[n]],
         target |-> target,
         reused |-> {i.capability : i \in {x \in ToSet(items) :
                         /\ x.class \in {"REUSE_EXISTING", "EXTEND_EXISTING"}
                         /\ x.capability # NoCapability}},
         generated |-> Subjects(coded),
         manual |-> Subjects(SelectSeq(items, NeedsReview) \o SelectSeq(wanted, Without))]
=============================================================================
