----------------------------- MODULE GapAnalysis -----------------------------
(***************************************************************************)
(* framework/extension/gap_analysis.py, discovery_quality.py and           *)
(* auth_detection.py: from discovered pages to the extension report.       *)
(* A page is a record [url, host, title, signals, elements, calls]:        *)
(* signals says which of "path", "title" and "password" make it look like  *)
(* a login page; elements is a sequence of [tag, name].  A subject is a    *)
(* sequence of words.                                                      *)
(***************************************************************************)
EXTENDS NetworkClassification, Correlation

IsLogin(page) == page.signals # {}

Subject(page) == <<IF page.title # "" THEN page.title ELSE page.url>>

CallsOf(pages) == FlattenSeq([n \in 1 .. Len(pages) |-> pages[n].calls])

\* The host of the first page tells own from foreign traffic.
Classification(pages) ==
    Classified(CallsOf(pages), IF pages = <<>> THEN "" ELSE pages[1].host)

\* Mutant of FilteredPages: every call of a page is kept.
UnfilteredPages(pages, kept) == pages

\* _filter_pages_to_kept_calls compares whole calls, status and host included.
FilteredPages(pages, kept) ==
    [n \in 1 .. Len(pages) |-> [pages[n] EXCEPT !.calls = Among(@, ToSet(kept))]]

Item(subject, type, class, capability) ==
    [subject |-> subject, type |-> type, class |-> class, capability |-> capability]

ItemClass == [LIKELY_REUSABLE |-> "REUSE_EXISTING", POSSIBLY_REUSABLE |-> "EXTEND_EXISTING",
              NOT_FOUND |-> "CREATE_NEW", MANUAL_REVIEW |-> "MANUAL_REVIEW"]

\* The first page object or component with the page's title in its name.
PageItem(page, catalog) ==
    LET Covers(c) == c.category \in {"PAGE_OBJECT", "COMPONENT"} /\ page.title \in c.titles
        found == SelectInSeq(catalog, Covers)
    IN  IF found # 0
        THEN Item(Subject(page), "UI_PAGE", "REUSE_EXISTING", catalog[found].name)
        ELSE Item(Subject(page), "UI_PAGE", "CREATE_NEW", NoCapability)

\* Authentication, database, validation, test data and reporting: category and type.
SharedCategories ==
    << <<"AUTHENTICATION", "AUTHENTICATION">>, <<"DATABASE_UTILITY", "DATABASE">>,
       <<"VALIDATION", "VALIDATION">>, <<"TEST_DATA", "TEST_DATA">>,
       <<"REPORTING", "REPORTING">> >>

SharedItem(catalog, shared) ==
    LET Is(c) == c.category = shared[1]
        found == SelectInSeq(catalog, Is)
    IN  IF found # 0
        THEN Item(<<shared[1]>>, shared[2], "REUSE_EXISTING", catalog[found].name)
        ELSE Item(<<shared[1]>>, shared[2], "UNKNOWN", NoCapability)

ExtensionItems(pages, catalog) ==
    LET calls == CallsOf(pages)
        api == CorrelateCalls(calls, catalog)
        rows == CorrelateDatabase(calls, catalog)
        data == Among(rows, {c \in ToSet(rows) : c.status # "NOT_FOUND"})
        CallItem(c, words, type) ==
            Item(words \o <<c.call.method>> \o c.call.path.segs, type,
                 ItemClass[c.status], c.capability)
    IN  [n \in 1 .. Len(pages) |-> PageItem(pages[n], catalog)]
          \o [n \in 1 .. Len(api) |-> CallItem(api[n], <<>>, "API_ENDPOINT")]
          \o [n \in 1 .. Len(data) |-> CallItem(data[n], <<"data behind">>, "DATABASE")]
          \o [n \in 1 .. Len(SharedCategories) |-> SharedItem(catalog, SharedCategories[n])]

TestOpportunities(pages, catalog) ==
    LET HasInput(page) == \E e \in ToSet(page.elements) : e.tag \in {"input", "select", "textarea"}
        HasTable(page) == \E c \in ToSet(CorrelateDatabase(page.calls, catalog)) :
                             c.status # "NOT_FOUND"
    IN  [n \in 1 .. Len(pages) |->
           [url |-> pages[n].url,
            scenarios |->
              {"happy_path"}
                \cup {s \in {"validation"} : HasInput(pages[n])}
                \cup {s \in {"ui_api_consistency"} : pages[n].calls # <<>>}
                \cup {s \in {"ui_api_db_consistency"} : HasTable(pages[n])}]]

Level(score) ==
    CASE score >= 70 -> "HIGH_CONFIDENCE"
      [] score \in 40 .. 69 -> "PARTIAL"
      [] score \in 1 .. 39 -> "LOW_CONFIDENCE"
      [] score < 1 -> "BLOCKED"

\* Most of the pages look like login pages.
MostlyLogins(pages) ==
    2 * Cardinality({n \in DOMAIN pages : IsLogin(pages[n])}) > Len(pages)

NoElements(pages) == \A n \in DOMAIN pages : pages[n].elements = <<>>

\* compute_discovery_quality; urlGiven is requested_url is not None.
DiscoveryQuality(pages, urlGiven, summary) ==
    LET entryIsLogin == urlGiven /\ IsLogin(pages[1])
        Lost(points, condition) == IF condition THEN points ELSE 0
        lost == Lost(70, entryIsLogin)
                  + Lost(35, ~entryIsLogin /\ MostlyLogins(pages))
                  + Lost(40, NoElements(pages))
                  + Lost(30, summary.application = 0)
                  + Lost(10, /\ summary.application > 0
                             /\ 10 * summary.ignored > 9 * summary.raw)
        score == IF lost > 100 THEN 0 ELSE 100 - lost
    IN  CASE pages = <<>> -> [score |-> 0, level |-> "BLOCKED"]
          [] pages # <<>> /\ entryIsLogin ->
               [score |-> IF score < 15 THEN score ELSE 15, level |-> "BLOCKED"]
          [] OTHER -> [score |-> score, level |-> Level(score)]
=============================================================================
