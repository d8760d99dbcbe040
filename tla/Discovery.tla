------------------------------ MODULE Discovery ------------------------------
(***************************************************************************)
(* python -m framework.discovery: the commands ui, api, db, generate and   *)
(* recommend on one report file, run from several terminals, and the human *)
(* who reviews the report in between (discovery/__main__.py,               *)
(* ui_discovery.py, models.py, code_generator.py).                         *)
(***************************************************************************)
EXTENDS ElementLocators, Filters, FiniteSets

CONSTANTS
    Terminals,
    Offers,         \* terminal -> the commands given in it
    Origin,         \* URL -> its origin
    Sites,          \* name -> [start, links, lands, broken, elements] of an application
    Schema,         \* the tables of the database, each the parts of its name
    Endpoints,      \* what the OpenAPI document declares
    MaxPages,       \* --max-pages
    MaxCommands,    \* bound: commands of a behaviour
    MaxEdits        \* bound: entries that the human deletes

VARIABLES
    site,           \* the name of the application
    report,         \* the report file: absent, torn or a report with its entries
    files,          \* generated file -> the entry that it renders
    recommended,    \* what the file that recommend wrote is about
    commands,       \* terminal -> its last command
    queue,          \* terminal -> the URLs that its crawl has still to look at
    claimed,        \* entries reported as saved and not deleted since
    clashed,        \* a save met a report other than the one loaded, or was cut off
    begun, edits    \* commands begun, entries deleted

vars == <<site, report, files, recommended, commands, queue, claimed, clashed, begun, edits>>

Urls == DOMAIN Origin
Absent == [state |-> "absent", entries |-> <<>>]
Torn == [state |-> "torn", entries |-> <<>>]
Report(entries) == [state |-> "report", entries |-> entries]
Kinds == {"ui", "crawl", "api", "db", "generate", "recommend"}
Stages == {"idle", "load", "gather", "crawl", "save", "fill", "render", "done", "failed", "killed"}
Appending == {"ui", "crawl", "api", "db"}

ASSUME UrlsAssumption == IsFiniteSet(Urls)
ASSUME SitesAssumption ==
    \A s \in DOMAIN Sites :
        /\ Sites[s].start \in Urls /\ Sites[s].broken \subseteq Urls
        /\ Sites[s].links \in [Urls -> Seq(Urls)] /\ Sites[s].lands \in [Urls -> Urls]
        /\ DOMAIN Sites[s].elements = Urls
        /\ \A u \in Urls : \A raw \in Sites[s].elements[u] : IsElement(raw)
ASSUME SchemaAssumption ==
    Schema \in Seq(ToSet(Schema)) /\ Endpoints \in Seq(ToSet(Endpoints))
ASSUME BoundsAssumption == MaxPages \in Nat /\ MaxCommands \in Nat /\ MaxEdits \in Nat

App == Sites[site]

Page(url) == [kind |-> "page", is |-> url]
Table(name) == [kind |-> "table", is |-> name]
Endpoint(name) == [kind |-> "endpoint", is |-> name]
Entries == {Page(u) : u \in Urls} \cup {Table(n) : n \in ToSet(Schema)}
           \cup {Endpoint(n) : n \in ToSet(Endpoints)}

IsReport(content) == content.state = "report"

\* read: the report file as it was loaded; found: what was discovered.
NoCommand ==
    [kind |-> "ui", at |-> "idle", read |-> Absent, visited |-> <<>>, found |-> <<>>,
     rendered |-> 0]
\* Mutant of Loaded: ui and crawl replace the pages.
LoadedButPages(c) ==
    SelectSeq(c.read.entries, LAMBDA e : c.kind \notin {"ui", "crawl"} \/ e.kind # "page")

\* What the command has of the report in memory.
Loaded(c) == c.read.entries

Content == [state : {"absent", "torn", "report"}, entries : Seq(Entries)]
Command ==
    [kind : Kinds, at : Stages, read : Content, visited : Seq(Urls), found : Seq(Entries),
     rendered : Nat]

TypeOK ==
    /\ site \in DOMAIN Sites
    /\ report \in Content
    /\ \A f \in DOMAIN files : files[f] \in Entries
    /\ recommended \in Seq(Urls)
    /\ commands \in [Terminals -> Command]
    /\ queue \in [Terminals -> Seq(Urls)]
    /\ claimed \subseteq Entries /\ clashed \in BOOLEAN
    /\ begun \in 0 .. MaxCommands /\ edits \in 0 .. MaxEdits

Init ==
    /\ site \in DOMAIN Sites
    /\ report = Absent /\ files = <<>> /\ recommended = <<>>
    /\ commands = [t \in Terminals |-> NoCommand] /\ queue = [t \in Terminals |-> <<>>]
    /\ claimed = {} /\ clashed = FALSE /\ begun = 0 /\ edits = 0

-----------------------------------------------------------------------------
(* Commands begin and end. *)

At(t, stage) == commands[t].at = stage
Set(t, stage) == commands' = [commands EXCEPT ![t].at = stage]
Abort(t, how) ==
    /\ commands' = [commands EXCEPT ![t] = [NoCommand EXCEPT !.at = how]]
    /\ queue' = [queue EXCEPT ![t] = <<>>]
Over == {"idle", "done", "failed", "killed"}

\* api and db look first at their document or database, the others at the report.
Begin(t, kind) ==
    /\ commands[t].at \in Over /\ begun < MaxCommands
    /\ kind \in Offers[t]
    /\ commands' = [commands EXCEPT ![t] = [NoCommand EXCEPT
          !.kind = kind, !.at = IF kind \in {"api", "db"} THEN "gather" ELSE "load"]]
    /\ begun' = begun + 1
    /\ UNCHANGED <<site, report, files, recommended, queue, claimed, clashed, edits>>

\* No browser, no document, no database, a file that cannot be opened: nothing
\* is saved.  A write that fails when the file is truncated, as on a full disk,
\* leaves a torn report.
Fails(t) ==
    /\ commands[t].at \in {"gather", "crawl", "save", "fill", "render"}
    /\ Abort(t, "failed")
    /\ clashed' = (clashed \/ At(t, "fill"))
    /\ UNCHANGED <<site, report, files, recommended, claimed, begun, edits>>

\* So does a command that dies while it writes.
Killed(t) ==
    /\ commands[t].at \notin Over
    /\ Abort(t, "killed")
    /\ clashed' = (clashed \/ At(t, "fill"))
    /\ UNCHANGED <<site, report, files, recommended, claimed, begun, edits>>

\* A torn report is no JSON; generate and recommend need one.
Load(t) ==
    LET kind == commands[t].kind
        ok == IsReport(report) \/ (report = Absent /\ kind \in Appending)
        next == CASE kind \in {"ui", "crawl"} -> "crawl"
                  [] kind \in {"api", "db"} -> "save"
                  [] kind \in {"generate", "recommend"} -> "render"
    IN  /\ At(t, "load")
        /\ commands' = [commands EXCEPT
              ![t].read = IF ok THEN report ELSE @,
              ![t].at = IF ok THEN next ELSE "failed"]
        /\ queue' = [queue EXCEPT ![t] = IF ok /\ next = "crawl" THEN <<App.start>> ELSE <<>>]
        /\ UNCHANGED <<site, report, files, recommended, claimed, clashed, begun, edits>>

Gather(t) ==
    /\ At(t, "gather")
    /\ commands' = [commands EXCEPT
          ![t].at = "load",
          ![t].found = IF commands[t].kind = "db" THEN [i \in DOMAIN Schema |-> Table(Schema[i])]
                                                 ELSE [i \in DOMAIN Endpoints |-> Endpoint(Endpoints[i])]]
    /\ UNCHANGED <<site, report, files, recommended, queue, claimed, clashed, begun, edits>>

-----------------------------------------------------------------------------
(* The crawl. *)

Limit(c) == IF c.kind = "ui" THEN 1 ELSE MaxPages
More(t) == queue[t] # <<>> /\ Len(commands[t].found) < Limit(commands[t])

\* The links of the page that a URL leads to, within the origin of the start
\* and not visited yet.
Unseen(url, visited) ==
    Among(App.links[App.lands[url]], {href \in Urls \ visited : Origin[href] = Origin[App.start]})

\* Mutant of Visit: the queue is a stack.
VisitLast(t) ==
    \E url \in Urls :
        LET visited == ToSet(commands[t].visited)
            rest == Front(queue[t])
        IN  /\ At(t, "crawl") /\ More(t) /\ url = Last(queue[t]) /\ url \notin App.broken
            /\ commands' = IF url \in visited THEN commands
                           ELSE [commands EXCEPT ![t].visited = Append(@, url),
                                                 ![t].found = Append(@, Page(App.lands[url]))]
            /\ queue' = [queue EXCEPT ![t] =
                             IF url \in visited THEN rest ELSE rest \o Unseen(url, visited \cup {url})]
            /\ UNCHANGED <<site, report, files, recommended, claimed, clashed, begun, edits>>

\* One turn of the loop; a page that does not load raises (Fails).
Visit(t) ==
    \E url \in Urls :
        LET visited == ToSet(commands[t].visited)
            rest == Tail(queue[t])
        IN  /\ At(t, "crawl") /\ More(t) /\ url = Head(queue[t]) /\ url \notin App.broken
            /\ commands' = IF url \in visited THEN commands
                           ELSE [commands EXCEPT ![t].visited = Append(@, url),
                                                 ![t].found = Append(@, Page(App.lands[url]))]
            /\ queue' = [queue EXCEPT ![t] =
                             IF url \in visited THEN rest ELSE rest \o Unseen(url, visited \cup {url})]
            /\ UNCHANGED <<site, report, files, recommended, claimed, clashed, begun, edits>>

CrawlEnds(t) ==
    /\ At(t, "crawl") /\ ~More(t)
    /\ Set(t, "save") /\ queue' = [queue EXCEPT ![t] = <<>>]
    /\ UNCHANGED <<site, report, files, recommended, claimed, clashed, begun, edits>>

-----------------------------------------------------------------------------
(* The report file. *)

\* write_text truncates the file, and the report may be another by now.
Save(t) ==
    /\ At(t, "save")
    /\ Set(t, "fill") /\ report' = Torn
    /\ clashed' = (clashed \/ report # commands[t].read)
    /\ UNCHANGED <<site, files, recommended, queue, claimed, begun, edits>>

\* Both wrote to the file when somebody else filled it since it was truncated.
Fill(t) ==
    /\ At(t, "fill")
    /\ Set(t, "done")
    /\ report' \in {Report(Loaded(commands[t]) \o commands[t].found)}
                   \cup (IF report = Torn THEN {} ELSE {Torn})
    /\ claimed' = claimed \cup ToSet(commands[t].found)
    /\ UNCHANGED <<site, files, recommended, queue, clashed, begun, edits>>

\* The human review: an entry is deleted; it may be there a second time.
Review ==
    /\ IsReport(report) /\ edits < MaxEdits
    /\ \E i \in DOMAIN report.entries : report' = Report(RemoveAt(report.entries, i))
    /\ claimed' = claimed \ (ToSet(report.entries) \ ToSet(report'.entries))
    /\ edits' = edits + 1
    /\ UNCHANGED <<site, files, recommended, commands, queue, clashed, begun>>

-----------------------------------------------------------------------------
(* generate and recommend. *)

Of(kind, entries) == Among(entries, {e \in ToSet(entries) : e.kind = kind})

\* The class name in lower case: of a table, the parts of its name in one.
FileOf(entries, i) ==
    IF entries[i].kind = "page" THEN "discoveredpage" \o ToString(i - 1)
    ELSE FoldLeft(LAMBDA name, part : name \o part, "", entries[i].is)

\* The pages in order, then the tables.
ToRender(c) == Of("page", Loaded(c)) \o Of("table", Loaded(c))

\* Mutant of Render: a file that is there is kept.
RenderMissing(t) ==
    LET entries == ToRender(commands[t])
        i == commands[t].rendered + 1
    IN  /\ At(t, "render") /\ commands[t].kind = "generate" /\ i <= Len(entries)
        /\ files' = [f \in DOMAIN files \cup {FileOf(entries, i)} |->
                        IF f \in DOMAIN files THEN files[f] ELSE entries[i]]
        /\ commands' = [commands EXCEPT ![t].rendered = i]
        /\ UNCHANGED <<site, report, recommended, queue, claimed, clashed, begun, edits>>

Render(t) ==
    LET entries == ToRender(commands[t])
        i == commands[t].rendered + 1
    IN  /\ At(t, "render") /\ commands[t].kind = "generate" /\ i <= Len(entries)
        /\ files' = [f \in DOMAIN files \cup {FileOf(entries, i)} |->
                        IF f = FileOf(entries, i) THEN entries[i] ELSE files[f]]
        /\ commands' = [commands EXCEPT ![t].rendered = i]
        /\ UNCHANGED <<site, report, recommended, queue, claimed, clashed, begun, edits>>

GenerateEnds(t) ==
    /\ At(t, "render") /\ commands[t].kind = "generate"
    /\ commands[t].rendered = Len(ToRender(commands[t]))
    /\ Set(t, "done")
    /\ UNCHANGED <<site, report, files, recommended, queue, claimed, clashed, begun, edits>>

\* One suggestion for each element of each page, whether or not there is an AI.
Recommend(t) ==
    /\ At(t, "render") /\ commands[t].kind = "recommend"
    /\ Set(t, "done")
    /\ LET pages == Of("page", Loaded(commands[t]))
       IN  recommended' = [i \in DOMAIN pages |-> pages[i].is]
    /\ UNCHANGED <<site, report, files, queue, claimed, clashed, begun, edits>>

Next ==
    \/ Review
    \/ \E t \in Terminals :
          \/ \E kind \in Kinds : Begin(t, kind)
          \/ Fails(t) \/ Killed(t) \/ Load(t) \/ Gather(t)
          \/ Visit(t) \/ CrawlEnds(t) \/ Save(t) \/ Fill(t)
          \/ Render(t) \/ GenerateEnds(t) \/ Recommend(t)

Spec == Init /\ [][Next]_vars

-----------------------------------------------------------------------------
(* Properties. *)

\* Each of ui, api and db appends: the report has what was announced as saved
\* and not deleted by the human, and nothing else, whatever failed or died in
\* between - unless a command saved a report that had changed since it loaded
\* it, or failed or died while it wrote, when entries are lost or come back.
ReportKeepsTrack ==
    ~clashed /\ (\A t \in Terminals : ~At(t, "fill")) => claimed = ToSet(report.entries)

\* How far a URL is from the start, by the links that the crawl may follow; as
\* far as there are URLs when it is not reachable.
Follow(name, url) ==
    LET app == Sites[name]
    IN  IF url \in app.broken THEN {}
        ELSE {href \in ToSet(app.links[app.lands[url]]) : Origin[href] = Origin[app.start]}
Depths ==
    [name \in DOMAIN Sites |->
        LET within[n \in 0 .. Cardinality(Urls)] ==
                IF n = 0 THEN {Sites[name].start}
                ELSE within[n - 1] \cup UNION {Follow(name, u) : u \in within[n - 1]}
        IN  [u \in Urls |-> Cardinality({n \in 0 .. Cardinality(Urls) - 1 : u \notin within[n]})]]
Reachable(name) == {u \in Urls : Depths[name][u] < Cardinality(Urls)}

\* A crawl that ends has seen each URL once, the nearer ones first, and left
\* none out unless it was stopped by max_pages, although the queue holds URLs
\* several times and pages link in circles and across redirects.
CrawlIsBreadthFirst ==
    \A t \in Terminals :
        LET c == commands[t]
            Far(i) == Depths[site][c.visited[i]]
        IN  c.kind = "crawl" /\ c.at \in {"save", "fill", "done"} =>
              /\ IsInjective(c.visited)
              /\ ToSet(c.visited) \subseteq Reachable(site)
              /\ \A i, k \in DOMAIN c.visited : i < k => Far(i) <= Far(k)
              /\ Len(c.visited) < MaxPages => ToSet(c.visited) = Reachable(site)
              /\ \A u \in Reachable(site) \ ToSet(c.visited) :
                    \A i \in DOMAIN c.visited : Far(i) <= Depths[site][u]

\* Elements that are recorded otherwise than Misses says - with a locator that
\* does not find them, or one that does after all - or with none although they
\* have something stable; and their pages.
Misrecorded(raw) ==
    LET locator == BestLocator(raw)
    IN  IF locator = NoLocator
          THEN {raw.testid, raw.label, raw.id, raw.name} # {Empty}
          ELSE \/ ~Misses(raw) /\ ~Finds(locator, raw)
               \/ Misses(raw) /\ NamesDiffer(raw) /\ Finds(locator, raw)
PagesMisrecorded ==
    [s \in DOMAIN Sites |-> {u \in Urls : \E raw \in Sites[s].elements[u] : Misrecorded(raw)}]

\* A locator in the report finds its element when a test uses it, but exactly
\* not the elements of Misses: another test id attribute, a role or a name that
\* the browser works out differently, a label that does not count, an id or a
\* name that is no text of a selector.  An element without a locator has nothing
\* stable (the priority that the docstring of UIDiscoveryEngine promises).
LocatorsFind ==
    \A u \in PagesMisrecorded[site] : Page(u) \notin ToSet(report.entries)

\* After generate, each entry of the report that it loaded is in the file of
\* its class, unless another entry has a class of the same name but for case -
\* or another terminal generated too.
EveryEntryHasItsFile ==
    \A t \in Terminals :
        LET c == commands[t]
            entries == ToRender(c)
        IN  c.kind = "generate" /\ At(t, "done")
            /\ (\A u \in Terminals \ {t} : "generate" \notin Offers[u]) =>
              \A i \in DOMAIN entries :
                  \/ FileOf(entries, i) \in DOMAIN files /\ files[FileOf(entries, i)] = entries[i]
                  \/ entries[i].kind = "table"
                     /\ \E k \in DOMAIN entries :
                           entries[k] # entries[i] /\ FileOf(entries, k) = FileOf(entries, i)
=============================================================================
