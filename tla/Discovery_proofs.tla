--------------------------- MODULE Discovery_proofs ---------------------------
(***************************************************************************)
(* The report keeps track of what was announced and deleted, recorded      *)
(* locators find their elements, the crawl is breadth first and complete,  *)
(* and entries get their files: for any number of terminals, commands,     *)
(* pages and applications.                                                 *)
(***************************************************************************)
EXTENDS Discovery, SequenceLemmas, FiniteSetTheorems

-----------------------------------------------------------------------------
(* The report. *)

USE SitesAssumption, BoundsAssumption

\* The part of TypeOK that the report depends on.
Typed ==
    /\ site \in DOMAIN Sites
    /\ report \in Content
    /\ commands \in [Terminals -> Command]
    /\ claimed \subseteq Entries /\ clashed \in BOOLEAN

\* No command has a torn report in memory; while nobody has interfered, the
\* one that writes has what was claimed, and it is the only one.
Writing ==
    /\ \A t \in Terminals : commands[t].read.state # "torn"
    /\ ~clashed => \A t \in Terminals : At(t, "fill") =>
          /\ report = Torn
          /\ ToSet(Loaded(commands[t])) = claimed
          /\ \A u \in Terminals : At(u, "fill") => u = t

IInv == Typed /\ Writing /\ ReportKeepsTrack

\* The command that is none, and those that were begun or cut off.
LEMMA NoCommandType ==
    /\ NoCommand \in Command
    /\ \A kind \in Kinds, at \in Stages : [NoCommand EXCEPT !.kind = kind, !.at = at] \in Command
    /\ \A at \in Stages : [NoCommand EXCEPT !.at = at] \in Command
  <1>1. NoCommand \in Command
    BY DEF NoCommand, Command, Absent, Content, Kinds, Stages
  <1> QED
    BY <1>1 DEF Command

LEMMA InitInv == Init => IInv
  <1> SUFFICES ASSUME Init PROVE IInv
    OBVIOUS
  <1>0. NoCommand \in Command
    BY NoCommandType
  <1>1. Absent \in Content
    BY DEF Absent, Content
  <1>2. Typed
    BY <1>0, <1>1 DEF Init, Typed
  <1>3. Writing
    BY DEF Init, Writing, NoCommand, Absent, At
  <1>4. ReportKeepsTrack
    <2>1. ToSet(<<>>) = {}
      BY DEF ToSet
    <2>2. claimed = {} /\ report.entries = <<>>
      BY DEF Init, Absent
    <2>3. claimed = ToSet(report.entries)
      BY <2>1, <2>2
    <2> QED
      BY <2>3 DEF ReportKeepsTrack
  <1> QED
    BY <1>2, <1>3, <1>4 DEF IInv

\* Steps that change neither the report nor what was claimed, of a command that
\* does not write.
Quiet(t) == UNCHANGED <<site, report, claimed, clashed>> /\ ~At(t, "fill") /\ commands'[t].at # "fill"
Only(t) == \A u \in Terminals \ {t} : commands'[u] = commands[u]

LEMMA QuietStep ==
  ASSUME IInv, NEW t \in Terminals, Quiet(t), Only(t), commands' \in [Terminals -> Command],
         commands'[t].read.state # "torn"
  PROVE  IInv'
  <1>1. \A u \in Terminals : At(u, "fill")' <=> At(u, "fill")
    BY DEF Quiet, Only, At
  <1>2. Typed'
    BY DEF IInv, Typed, Quiet
  <1>3. Writing'
    BY <1>1 DEF IInv, Typed, Writing, Quiet, Only, At, Loaded
  <1>4. ReportKeepsTrack'
    BY <1>1 DEF IInv, ReportKeepsTrack, Quiet
  <1> QED
    BY <1>2, <1>3, <1>4 DEF IInv

LEMMA NextInv == IInv /\ [Next]_vars => IInv'
  <1> SUFFICES ASSUME IInv, [Next]_vars PROVE IInv'
    OBVIOUS
  <1> USE DEF At
  <1>1. ASSUME NEW t \in Terminals, NEW kind \in Kinds, Begin(t, kind) PROVE IInv'
    <2>1. [NoCommand EXCEPT !.kind = kind,
                            !.at = IF kind \in {"api", "db"} THEN "gather" ELSE "load"] \in Command
      BY NoCommandType DEF Stages
    <2>2. commands' \in [Terminals -> Command] /\ commands'[t].at # "fill"
          /\ commands'[t].read = Absent /\ Only(t)
      BY <1>1, <2>1 DEF Begin, IInv, Typed, NoCommand, Only
    <2> QED
      BY <1>1, <2>2, QuietStep DEF Begin, Quiet, Over, Absent
  <1>2. ASSUME NEW t \in Terminals, Fails(t) PROVE IInv'
    <2>1. [NoCommand EXCEPT !.at = "failed"] \in Command
      BY NoCommandType DEF Stages
    <2>2. commands' \in [Terminals -> Command] /\ commands'[t].at # "fill"
          /\ commands'[t].read = Absent /\ Only(t)
      BY <1>2, <2>1 DEF Fails, Abort, IInv, Typed, NoCommand, Only
    <2>3. CASE ~At(t, "fill")
      BY <1>2, <2>2, <2>3, QuietStep DEF Fails, Quiet, Absent, IInv, Typed
    <2>4. CASE At(t, "fill")
      <3>1. clashed' = TRUE /\ UNCHANGED <<site, report, claimed>>
        BY <1>2, <2>4 DEF Fails
      <3>2. Typed'
        BY <2>2, <3>1 DEF IInv, Typed
      <3>3. Writing' /\ ReportKeepsTrack'
        BY <2>2, <3>1 DEF IInv, Writing, ReportKeepsTrack, Only, Absent
      <3> QED
        BY <3>2, <3>3 DEF IInv
    <2> QED
      BY <2>3, <2>4
  <1>3. ASSUME NEW t \in Terminals, Killed(t) PROVE IInv'
    <2>1. [NoCommand EXCEPT !.at = "killed"] \in Command
      BY NoCommandType DEF Stages
    <2>2. commands' \in [Terminals -> Command] /\ commands'[t].at # "fill"
          /\ commands'[t].read = Absent /\ Only(t)
      BY <1>3, <2>1 DEF Killed, Abort, IInv, Typed, NoCommand, Only
    <2>3. CASE ~At(t, "fill")
      BY <1>3, <2>2, <2>3, QuietStep DEF Killed, Quiet, Absent, IInv, Typed
    <2>4. CASE At(t, "fill")
      <3>1. clashed' = TRUE /\ UNCHANGED <<site, report, claimed>>
        BY <1>3, <2>4 DEF Killed
      <3>2. Typed'
        BY <2>2, <3>1 DEF IInv, Typed
      <3>3. Writing' /\ ReportKeepsTrack'
        BY <2>2, <3>1 DEF IInv, Writing, ReportKeepsTrack, Only, Absent
      <3> QED
        BY <3>2, <3>3 DEF IInv
    <2> QED
      BY <2>3, <2>4
  <1>4. ASSUME NEW t \in Terminals, Load(t) PROVE IInv'
    <2> DEFINE kind == commands[t].kind
               ok == IsReport(report) \/ (report = Absent /\ kind \in Appending)
               next == CASE kind \in {"ui", "crawl"} -> "crawl"
                         [] kind \in {"api", "db"} -> "save"
                         [] kind \in {"generate", "recommend"} -> "render"
               at == IF ok THEN next ELSE "failed"
               read == IF ok THEN report ELSE commands[t].read
    <2>1. commands[t] \in Command /\ report \in Content /\ commands[t].read.state # "torn"
      BY DEF IInv, Typed, Writing
    <2>2. at \in {"crawl", "save", "render", "failed"}
      BY <2>1 DEF Command, Kinds
    <2>3. read \in Content /\ read.state # "torn"
      BY <2>1 DEF Command, IsReport, Absent
    <2>4. commands' = [commands EXCEPT ![t].read = read, ![t].at = at]
      BY <1>4 DEF Load
    <2> HIDE DEF at, read
    <2>5. [commands[t] EXCEPT !.read = read, !.at = at] \in Command
      BY <2>1, <2>2, <2>3 DEF Command, Stages
    <2>6. commands' \in [Terminals -> Command] /\ commands'[t].at = at
          /\ commands'[t].read = read /\ Only(t)
      BY <2>1, <2>4, <2>5 DEF IInv, Typed, Only, Command
    <2> QED
      BY <1>4, <2>2, <2>3, <2>6, QuietStep DEF Load, Quiet
  <1>5. ASSUME NEW t \in Terminals, Gather(t) PROVE IInv'
    <2> DEFINE found == IF commands[t].kind = "db" THEN [i \in DOMAIN Schema |-> Table(Schema[i])]
                                                  ELSE [i \in DOMAIN Endpoints |-> Endpoint(Endpoints[i])]
    <2>1. found \in Seq(Entries)
      <3>1. \A i \in DOMAIN Schema : Table(Schema[i]) \in Entries
        BY DEF Entries, ToSet
      <3>2. \A i \in DOMAIN Endpoints : Endpoint(Endpoints[i]) \in Entries
        BY DEF Entries, ToSet
      <3>3. DOMAIN Schema = 1 .. Len(Schema) /\ Len(Schema) \in Nat
            /\ DOMAIN Endpoints = 1 .. Len(Endpoints) /\ Len(Endpoints) \in Nat
        BY SchemaAssumption
      <3> QED
        BY <3>1, <3>2, <3>3
    <2>2. commands[t] \in Command /\ commands[t].read.state # "torn"
      BY DEF IInv, Typed, Writing
    <2> HIDE DEF found
    <2>3. [commands[t] EXCEPT !.at = "load", !.found = found] \in Command
      BY <2>1, <2>2 DEF Command, Stages
    <2>4. commands' = [commands EXCEPT ![t].at = "load", ![t].found = found]
      BY <1>5 DEF Gather, found
    <2>5. commands' \in [Terminals -> Command] /\ commands'[t].at # "fill"
          /\ commands'[t].read = commands[t].read /\ Only(t)
      BY <2>2, <2>3, <2>4 DEF IInv, Typed, Only, Command
    <2> QED
      BY <1>5, <2>2, <2>5, QuietStep DEF Gather, Quiet
  <1>6. ASSUME NEW t \in Terminals, Visit(t) PROVE IInv'
    <2>1. commands[t] \in Command /\ commands[t].read.state # "torn" /\ site \in DOMAIN Sites
      BY DEF IInv, Typed, Writing
    <2>2. PICK url \in Urls :
            /\ At(t, "crawl")
            /\ commands' = IF url \in ToSet(commands[t].visited) THEN commands
                           ELSE [commands EXCEPT ![t].visited = Append(@, url),
                                                 ![t].found = Append(@, Page(App.lands[url]))]
            /\ UNCHANGED <<site, report, claimed, clashed>>
      BY <1>6 DEF Visit
    <2>3. Page(App.lands[url]) \in Entries
      BY <2>1 DEF Entries, App
    <2>4. [commands[t] EXCEPT !.visited = Append(@, url), !.found = Append(@, Page(App.lands[url]))] \in Command
      <3>1. /\ Append(commands[t].visited, url) \in Seq(Urls)
            /\ Append(commands[t].found, Page(App.lands[url])) \in Seq(Entries)
        BY <2>1, <2>3 DEF Command
      <3> QED
        BY <2>1, <3>1 DEF Command
    <2>5. commands' \in [Terminals -> Command] /\ commands'[t].at # "fill"
          /\ commands'[t].read = commands[t].read /\ Only(t)
      BY <2>1, <2>2, <2>4 DEF IInv, Typed, Only, Command
    <2> QED
      BY <2>1, <2>2, <2>5, QuietStep DEF Quiet
  <1>7. ASSUME NEW t \in Terminals, NEW stage \in Stages \ {"fill"}, Set(t, stage), ~At(t, "fill"),
               UNCHANGED <<site, report, claimed, clashed>> PROVE IInv'
    <2>1. commands[t] \in Command /\ commands[t].read.state # "torn"
      BY DEF IInv, Typed, Writing
    <2>2. commands' \in [Terminals -> Command] /\ commands'[t].at # "fill"
          /\ commands'[t].read = commands[t].read /\ Only(t)
      BY <1>7, <2>1 DEF Set, IInv, Typed, Only, Command
    <2> QED
      BY <1>7, <2>1, <2>2, QuietStep DEF Quiet
  <1>8. ASSUME NEW t \in Terminals, CrawlEnds(t) \/ GenerateEnds(t) \/ Recommend(t) PROVE IInv'
    <2>1. CASE CrawlEnds(t)
      BY <1>7, <2>1 DEF CrawlEnds, Stages
    <2>2. CASE GenerateEnds(t) \/ Recommend(t)
      BY <1>7, <2>2 DEF GenerateEnds, Recommend, Stages
    <2> QED
      BY <1>8, <2>1, <2>2
  <1>9. ASSUME NEW t \in Terminals, Save(t) PROVE IInv'
    <2>1. commands[t] \in Command /\ commands[t].read.state # "torn"
      BY DEF IInv, Typed, Writing
    <2>2. /\ commands' \in [Terminals -> Command] /\ Only(t)
          /\ commands'[t].at = "fill" /\ commands'[t].read = commands[t].read
      BY <1>9, <2>1 DEF Save, Set, IInv, Typed, Only, Command, Stages
    <2>3. Typed'
      BY <1>9, <2>2 DEF Save, IInv, Typed, Torn, Content
    <2>4. ASSUME ~clashed'
          PROVE  /\ report = commands[t].read
                 /\ ~clashed
                 /\ \A u \in Terminals : ~At(u, "fill")
      <3>1. report = commands[t].read /\ ~clashed
        BY <1>9, <2>4 DEF Save
      <3>2. report.state # "torn"
        BY <3>1, <2>1
      <3>3. report # Torn
        BY <3>2 DEF Torn
      <3> QED
        BY <3>1, <3>3 DEF IInv, Writing
    <2>5. ASSUME ~clashed' PROVE ToSet(Loaded(commands[t])) = claimed
      BY <2>4, <2>5 DEF IInv, ReportKeepsTrack, Loaded
    <2>6. Writing'
      BY <1>9, <2>1, <2>2, <2>4, <2>5 DEF Save, IInv, Writing, Only, Loaded
    <2>7. ReportKeepsTrack'
      BY <2>2 DEF ReportKeepsTrack
    <2> QED
      BY <2>3, <2>6, <2>7 DEF IInv
  <1>10. ASSUME NEW t \in Terminals, Fill(t) PROVE IInv'
    <2> DEFINE whole == Loaded(commands[t]) \o commands[t].found
    <2>1. commands[t] \in Command /\ commands[t].read.state # "torn"
      BY DEF IInv, Typed, Writing
    <2>2. whole \in Seq(Entries)
          /\ ToSet(whole) = ToSet(Loaded(commands[t])) \cup ToSet(commands[t].found)
      BY <2>1, ElementsOfConcat DEF Loaded, Command, Content
    <2>3. ToSet(commands[t].found) \subseteq Entries
      BY <2>1 DEF Command, ToSet
    <2>4. /\ commands' \in [Terminals -> Command] /\ Only(t)
          /\ commands'[t].at = "done" /\ commands'[t].read = commands[t].read
      BY <1>10, <2>1 DEF Fill, Set, IInv, Typed, Only, Command, Stages
    <2> HIDE DEF whole
    <2>5. Report(whole) \in Content
      BY <2>2 DEF Report, Content
    <2>6. report' \in {Report(whole), Torn} /\ (report = Torn => report' = Report(whole))
      BY <1>10 DEF Fill, whole
    <2>7. Typed'
      <3>1. Torn \in Content
        BY DEF Torn, Content
      <3>2. report' \in Content
        BY <2>5, <2>6, <3>1
      <3> QED
        BY <1>10, <2>3, <2>4, <3>2 DEF Fill, IInv, Typed
    <2>8. ASSUME ~clashed
          PROVE  /\ report' = Report(whole) /\ claimed' = ToSet(whole)
                 /\ \A u \in Terminals : commands'[u].at # "fill"
      BY <1>10, <2>2, <2>4, <2>6, <2>8 DEF Fill, IInv, Writing, Only
    <2>9. Writing'
      BY <1>10, <2>1, <2>4, <2>8 DEF Fill, IInv, Writing, Only
    <2>10. ReportKeepsTrack'
      BY <1>10, <2>8 DEF Fill, ReportKeepsTrack, Report
    <2> QED
      BY <2>7, <2>9, <2>10 DEF IInv
  <1>11. ASSUME Review PROVE IInv'
    <2>1. PICK i \in DOMAIN report.entries : report' = Report(RemoveAt(report.entries, i))
      BY <1>11 DEF Review
    <2>2. report.entries \in Seq(Entries)
      BY DEF IInv, Typed, Content
    <2>3. RemoveAt(report.entries, i) \in Seq(Entries)
          /\ ToSet(RemoveAt(report.entries, i)) \subseteq ToSet(report.entries)
      BY <2>2, ElementsOfRemoval
    <2>4. report'.entries = RemoveAt(report.entries, i) /\ report' \in Content
      BY <2>1, <2>3 DEF Report, Content
    <2>5. Typed'
      BY <1>11, <2>4 DEF Review, IInv, Typed
    <2>6. Writing'
      BY <1>11 DEF Review, IInv, Writing, IsReport, Torn
    <2>7. ReportKeepsTrack'
      BY <1>11, <2>3, <2>4 DEF Review, IInv, ReportKeepsTrack, Writing, IsReport, Torn
    <2> QED
      BY <2>5, <2>6, <2>7 DEF IInv
  <1>12. ASSUME NEW t \in Terminals, Render(t) PROVE IInv'
    <2>1. commands[t] \in Command /\ commands[t].read.state # "torn"
      BY DEF IInv, Typed, Writing
    <2>2. [commands[t] EXCEPT !.rendered = commands[t].rendered + 1] \in Command
      BY <2>1 DEF Command
    <2>3. commands' \in [Terminals -> Command] /\ commands'[t].at # "fill"
          /\ commands'[t].read = commands[t].read /\ Only(t)
      BY <1>12, <2>1, <2>2 DEF Render, IInv, Typed, Only, Command
    <2> QED
      BY <1>12, <2>1, <2>3, QuietStep DEF Render, Quiet
  <1>13. CASE UNCHANGED vars
    BY <1>13 DEF vars, IInv, Typed, Writing, ReportKeepsTrack, Loaded
  <1> QED
    BY <1>1, <1>2, <1>3, <1>4, <1>5, <1>6, <1>8, <1>9, <1>10, <1>11, <1>12, <1>13 DEF Next

\* Each of ui, api and db appends: the report has what was announced and not
\* deleted, and nothing else, unless a save met a changed report or was cut off.
THEOREM ReportTracked == Spec => []ReportKeepsTrack
  <1>1. IInv => ReportKeepsTrack
    BY DEF IInv
  <1> QED
    BY <1>1, InitInv, NextInv, PTL DEF Spec

-----------------------------------------------------------------------------
(* Recorded locators. *)

\* Which of the candidates is recorded: the first that has a value.
LEMMA FirstCandidate ==
  ASSUME NEW raw
  PROVE  LET name == AccessibleName(raw)
             role == IF name # Empty THEN RoleOf(raw) ELSE Empty
             best == BestLocator(raw)
         IN  \/ raw.testid # Empty /\ best = Locator("test_id", raw.testid, Empty)
             \/ raw.testid = Empty /\ role # Empty /\ best = Locator("role", role, name)
             \/ /\ raw.testid = Empty /\ role = Empty
                /\ \/ raw.label # Empty /\ best = Locator("label", raw.label, Empty)
                   \/ raw.label = Empty /\ raw.id # Empty /\ best = Locator("css", raw.id, Empty)
                   \/ /\ raw.label = Empty /\ raw.id = Empty /\ raw.name # Empty
                      /\ best = Locator("css", raw.name, raw.tag)
             \/ /\ {raw.testid, raw.label, raw.id, raw.name} = {Empty}
                /\ best = NoLocator
  <1> DEFINE name == AccessibleName(raw)
             role == IF name # Empty THEN RoleOf(raw) ELSE Empty
             best == BestLocator(raw)
             a == Locator("test_id", raw.testid, Empty)
             b == Locator("role", role, name)
             c == Locator("label", raw.label, Empty)
             d == Locator("css", raw.id, Empty)
             e == Locator("css", raw.name, raw.tag)
             candidates == <<a, b, c, d, e>>
             first == SelectInSeq(candidates, LAMBDA l : l.value # Empty)
             T == {i \in 1 .. Len(candidates) : candidates[i].value # Empty}
  <1>1. best = IF first = 0 THEN NoLocator ELSE candidates[first]
    BY Zenon DEF BestLocator
  <1>2. first = IF T # {} THEN Min(T) ELSE 0
    BY Zenon DEF SelectInSeq
  <1>3. /\ a.value = raw.testid /\ b.value = role /\ c.value = raw.label
        /\ d.value = raw.id /\ e.value = raw.name
    BY DEF Locator
  <1>4. T = {i \in 1 .. 5 : candidates[i].value # Empty} /\ T \in SUBSET Nat
    OBVIOUS
  <1> HIDE DEF name, role, best, first, T, a, b, c, d, e
  <1>5. /\ candidates[1] = a /\ candidates[2] = b /\ candidates[3] = c
        /\ candidates[4] = d /\ candidates[5] = e
    OBVIOUS
  <1> HIDE DEF candidates
  <1>6. CASE T = {}
    <2>1. best = NoLocator
      BY <1>1, <1>2, <1>6
    <2>2. raw.testid = Empty /\ raw.label = Empty /\ raw.id = Empty /\ raw.name = Empty
      BY <1>3, <1>4, <1>5, <1>6
    <2> QED
      BY <2>1, <2>2 DEF best, name, role
  <1>7. CASE T # {}
    <2>1. first \in T /\ \A n \in T : first <= n
      BY <1>2, <1>4, <1>7, LeastNumber
    <2>2. first \in 1 .. 5 /\ candidates[first].value # Empty /\ best = candidates[first]
      BY <2>1, <1>1, <1>4
    <2>3. \A i \in 1 .. 5 : i < first => candidates[i].value = Empty
      <3>1. \A i \in 1 .. 5 : candidates[i].value # Empty => first <= i
        BY <2>1, <1>4
      <3> QED
        BY <3>1, <2>2
    <2>4. \/ raw.testid # Empty /\ best = a
          \/ raw.testid = Empty /\ role # Empty /\ best = b
          \/ /\ raw.testid = Empty /\ role = Empty
             /\ \/ raw.label # Empty /\ best = c
                \/ raw.label = Empty /\ raw.id # Empty /\ best = d
                \/ raw.label = Empty /\ raw.id = Empty /\ raw.name # Empty /\ best = e
      <3>1. first \in {1, 2, 3, 4, 5}
        BY <2>2
      <3> QED
        BY <3>1, <2>2, <2>3, <1>3, <1>5
    <2> QED
      BY <2>4 DEF a, b, c, d, e, best, name, role
  <1> QED
    BY <1>6, <1>7

\* The implicit roles, one by one.
LEMMA Implicit ==
    /\ ImplicitRoles["a"] = "link" /\ ImplicitRoles["button"] = "button"
    /\ ImplicitRoles["select"] = "combobox" /\ ImplicitRoles["textarea"] = "textbox"
    /\ ImplicitRoles["input"] = "textbox" /\ ImplicitRoles["div"] = Empty
    /\ DOMAIN ImplicitRoles = {"a", "button", "select", "textarea", "input", "div"}
  BY DEF ImplicitRoles, Empty

\* Named is what the script takes for a name, and such an element has a role.
LEMMA NamedHasRole ==
  ASSUME NEW raw, IsElement(raw)
  PROVE  /\ RoleOf(raw) # Empty
         /\ Named(raw) <=> AccessibleName(raw) # Empty
         /\ Named(raw) => AccessibleName(raw) = Or(raw.aria, raw.text)
  <1>1. RoleOf(raw) = IF raw.role # Empty THEN raw.role ELSE ImplicitRoles[raw.tag]
    BY Zenon DEF RoleOf, Or
  <1>2. raw.tag \in {"a", "button", "select", "textarea", "input", "div"}
    BY Implicit DEF IsElement
  <1>3. raw.tag = "div" => raw.role # Empty
    BY DEF IsElement
  <1>4. RoleOf(raw) # Empty
    BY <1>1, <1>2, <1>3, Implicit DEF Empty
  <1>5. raw.tag \in {"button", "a"} \/ RoleOf(raw) \in {"button", "link"}
        <=> raw.tag \in {"a", "button"} \/ raw.role \in {"button", "link"}
    BY <1>1, <1>2, <1>3, Implicit DEF Empty
  <1> QED
    BY <1>4, <1>5 DEF Named, AccessibleName, Or

\* The role that discovery works out is the browser's where no other is said,
\* and so is the name that it records.
LEMMA RoleAgrees ==
  ASSUME NEW raw, IsElement(raw)
  PROVE  RoleOf(raw) = BrowserRole(raw) <=> ~OtherRole(raw)
  <1>1. raw.tag \in {"a", "button", "select", "textarea", "input", "div"}
    BY Implicit DEF IsElement
  <1>2. CASE raw.role # Empty
    BY <1>2 DEF RoleOf, Or, BrowserRole, OtherRole
  <1>3. CASE raw.role = Empty /\ raw.tag = "input"
    <2>1. RoleOf(raw) = "textbox" /\ BrowserRole(raw) = InputRole(raw.type)
      BY <1>3, Implicit DEF RoleOf, Or, BrowserRole
    <2>2. raw.type \in InputTypes
      BY <1>3 DEF IsElement
    <2>3. InputRole(raw.type) = "textbox" <=> raw.type \in {Empty, "text", "email"}
      BY <2>2 DEF InputRole, InputTypes, Empty
    <2> QED
      BY <1>3, <2>1, <2>3 DEF OtherRole
  <1>4. CASE raw.role = Empty /\ raw.tag = "select" /\ raw.type = "multiple"
    <2>1. RoleOf(raw) = "combobox" /\ BrowserRole(raw) = "listbox"
      BY <1>4, Implicit DEF RoleOf, Or, BrowserRole
    <2> QED
      BY <1>4, <2>1 DEF OtherRole
  <1>5. CASE /\ raw.role = Empty /\ raw.tag # "input"
             /\ ~(raw.tag = "select" /\ raw.type = "multiple")
    BY <1>5 DEF RoleOf, Or, BrowserRole, OtherRole
  <1> QED
    BY <1>2, <1>3, <1>4, <1>5

LEMMA NameAgrees ==
  ASSUME NEW raw, IsElement(raw), Named(raw)
  PROVE  /\ ~OtherName(raw) => AccessibleName(raw) = BrowserName(raw)
         /\ OtherName(raw) /\ NamesDiffer(raw) => AccessibleName(raw) # BrowserName(raw)
  <1> DEFINE byContent == BrowserRole(raw) \in NamedByContent
             label == LabelOf(raw)
  <1>1. /\ AccessibleName(raw) = IF raw.aria # Empty THEN raw.aria ELSE raw.text
        /\ raw.aria # Empty \/ raw.text # Empty
    BY NamedHasRole DEF Or, Named
  <1>2. BrowserName(raw) = IF raw.labelledby # Empty THEN raw.labelledby
                           ELSE IF raw.aria # Empty THEN raw.aria
                           ELSE IF label # Empty THEN label
                           ELSE IF byContent THEN raw.text ELSE Empty
    BY Zenon DEF BrowserName, BrowserLabel, Or
  <1>3. label \in {raw.label, Empty}
    BY Zenon DEF LabelOf
  <1>4. OtherName(raw) <=> \/ raw.labelledby # Empty
                           \/ raw.aria = Empty /\ (label # Empty \/ ~byContent)
    BY DEF OtherName
  <1>5. NamesDiffer(raw) => /\ raw.labelledby # Empty => raw.labelledby \notin {raw.aria, raw.text}
                            /\ raw.label # Empty => raw.label # raw.text
    BY DEF NamesDiffer
  <1> HIDE DEF byContent, label
  <1> QED
    BY <1>1, <1>2, <1>3, <1>4, <1>5

\* Any element, of any page: what is recorded finds it, but exactly not where
\* Misses says so.
LEMMA RecordedFinds ==
  ASSUME NEW raw, IsElement(raw)
  PROVE  ~Misrecorded(raw)
  <1> DEFINE name == AccessibleName(raw)
             role == IF name # Empty THEN RoleOf(raw) ELSE Empty
             best == BestLocator(raw)
             Right == /\ best # NoLocator
                      /\ ~Misses(raw) => Finds(best, raw)
                      /\ Misses(raw) /\ NamesDiffer(raw) => ~Finds(best, raw)
  <1>1. \/ raw.testid # Empty /\ best = Locator("test_id", raw.testid, Empty)
        \/ raw.testid = Empty /\ role # Empty /\ best = Locator("role", role, name)
        \/ /\ raw.testid = Empty /\ role = Empty
           /\ \/ raw.label # Empty /\ best = Locator("label", raw.label, Empty)
              \/ raw.label = Empty /\ raw.id # Empty /\ best = Locator("css", raw.id, Empty)
              \/ /\ raw.label = Empty /\ raw.id = Empty /\ raw.name # Empty
                 /\ best = Locator("css", raw.name, raw.tag)
        \/ {raw.testid, raw.label, raw.id, raw.name} = {Empty} /\ best = NoLocator
    BY FirstCandidate, Zenon
  <1>2. role = (IF Named(raw) THEN RoleOf(raw) ELSE Empty) /\ (role # Empty <=> Named(raw))
    BY NamedHasRole
  <1>3. NoLocator.strategy = "none"
    BY DEF NoLocator, Locator
  <1> HIDE DEF name, role, best
  <1>4. ASSUME raw.testid # Empty, best = Locator("test_id", raw.testid, Empty) PROVE Right
    <2>1. best.strategy = "test_id" /\ best.value = raw.testid
      BY <1>4 DEF Locator
    <2>2. Finds(best, raw) <=> raw.testattr = "data-testid"
      BY <2>1 DEF Finds
    <2>3. Misses(raw) <=> raw.testattr = "data-test-id"
      BY <1>4 DEF Misses
    <2>4. raw.testattr \in {"data-testid", "data-test-id"}
      BY DEF IsElement
    <2> QED
      BY <1>3, <2>1, <2>2, <2>3, <2>4
  <1>5. ASSUME raw.testid = Empty, role # Empty, best = Locator("role", role, name) PROVE Right
    <2>1. best.strategy = "role" /\ best.value = role /\ best.name = name
      BY <1>5 DEF Locator
    <2>2. Finds(best, raw) <=> role = BrowserRole(raw) /\ name = BrowserName(raw)
      BY <2>1 DEF Finds
    <2>3. Named(raw) /\ role = RoleOf(raw)
      BY <1>2, <1>5
    <2>4. Misses(raw) <=> OtherRole(raw) \/ OtherName(raw)
      BY <1>5, <2>3 DEF Misses
    <2>5. role = BrowserRole(raw) <=> ~OtherRole(raw)
      BY <2>3, RoleAgrees
    <2>6. /\ ~OtherName(raw) => name = BrowserName(raw)
          /\ OtherName(raw) /\ NamesDiffer(raw) => name # BrowserName(raw)
      BY <2>3, NameAgrees DEF name
    <2>7. best # NoLocator
      BY <1>3, <2>1
    <2> QED
      BY <2>2, <2>4, <2>5, <2>6, <2>7, Zenon
  <1>6. ASSUME raw.testid = Empty, role = Empty, raw.label # Empty,
               best = Locator("label", raw.label, Empty)
        PROVE  Right
    <2>1. best.strategy = "label" /\ best.value = raw.label
      BY <1>6 DEF Locator
    <2>2. Finds(best, raw) <=> raw.label = BrowserLabel(raw)
      BY <2>1 DEF Finds
    <2>3. ~Named(raw) /\ raw.aria = Empty
      BY <1>2, <1>6 DEF Named
    <2>4. Misses(raw) <=> raw.labelledby # Empty \/ LabelOf(raw) = Empty
      BY <1>6, <2>3 DEF Misses
    <2>5. /\ BrowserLabel(raw) = IF raw.labelledby # Empty THEN raw.labelledby ELSE LabelOf(raw)
          /\ LabelOf(raw) \in {raw.label, Empty}
      BY <2>3, Zenon DEF BrowserLabel, Or, LabelOf
    <2>6. NamesDiffer(raw) /\ raw.labelledby # Empty => raw.labelledby # raw.label
      BY DEF NamesDiffer
    <2>7. best # NoLocator
      BY <1>3, <2>1
    <2> QED
      BY <1>6, <2>2, <2>4, <2>5, <2>6, <2>7
  <1>7. ASSUME raw.testid = Empty, role = Empty, raw.label = Empty, raw.id # Empty,
               best = Locator("css", raw.id, Empty)
        PROVE  Right
    <2>1. best.strategy = "css" /\ best.value = raw.id /\ best.name = Empty
      BY <1>7 DEF Locator
    <2>2. raw.tag # Empty
      BY Implicit DEF IsElement, Empty
    <2>3. Finds(best, raw) <=> "id" \notin raw.odd
      BY <2>1, <2>2 DEF Finds
    <2>4. Misses(raw) <=> "id" \in raw.odd
      BY <1>2, <1>7 DEF Misses
    <2> QED
      BY <1>3, <2>1, <2>3, <2>4
  <1>8. ASSUME raw.testid = Empty, role = Empty, raw.label = Empty, raw.id = Empty, raw.name # Empty,
               best = Locator("css", raw.name, raw.tag)
        PROVE  Right
    <2>1. best.strategy = "css" /\ best.value = raw.name /\ best.name = raw.tag
      BY <1>8 DEF Locator
    <2>2. raw.tag # Empty
      BY Implicit DEF IsElement, Empty
    <2>3. Finds(best, raw) <=> "name" \notin raw.odd
      BY <2>1, <2>2 DEF Finds
    <2>4. Misses(raw) <=> "name" \in raw.odd
      BY <1>2, <1>8 DEF Misses
    <2> QED
      BY <1>3, <2>1, <2>3, <2>4
  <1>9. \/ Right
        \/ {raw.testid, raw.label, raw.id, raw.name} = {Empty} /\ best = NoLocator
    BY <1>1, <1>4, <1>5, <1>6, <1>7, <1>8
  <1> QED
    BY <1>9 DEF Misrecorded, best

\* A locator in the report finds its element when a test uses it, but exactly
\* not the elements of Misses; an element without a locator has nothing stable:
\* whatever the pages are.
THEOREM RecordedLocatorsFind == Spec => []LocatorsFind
  <1>1. ASSUME NEW s \in DOMAIN Sites PROVE PagesMisrecorded[s] = {}
    <2>1. \A u \in Urls : \A raw \in Sites[s].elements[u] : ~Misrecorded(raw)
      BY RecordedFinds
    <2> QED
      BY <2>1, Zenon DEF PagesMisrecorded
  <1>2. IInv => LocatorsFind
    BY <1>1 DEF IInv, Typed, LocatorsFind
  <1> QED
    BY <1>2, InitInv, NextInv, PTL DEF Spec

-----------------------------------------------------------------------------
(* The crawl: how far the URLs are from the start. *)

\* The sets of URLs within so many links of the start, and how many there are.
Most == Cardinality(Urls)
Within(name) ==
    CHOOSE f : f = [n \in 0 .. Most |->
        IF n = 0 THEN {Sites[name].start}
        ELSE f[n - 1] \cup UNION {Follow(name, u) : u \in f[n - 1]}]

LEMMA FollowType ==
  ASSUME NEW name \in DOMAIN Sites, NEW u \in Urls
  PROVE  Follow(name, u) \subseteq Urls
  <1>1. Sites[name].lands[u] \in Urls
    OBVIOUS
  <1>2. Sites[name].links[Sites[name].lands[u]] \in Seq(Urls)
    BY <1>1
  <1>3. ToSet(Sites[name].links[Sites[name].lands[u]]) \subseteq Urls
    BY <1>2 DEF ToSet
  <1> QED
    BY <1>3, Zenon DEF Follow

LEMMA WithinSteps ==
  ASSUME NEW name \in DOMAIN Sites, Most \in Nat
  PROVE  /\ Within(name) \in [0 .. Most -> SUBSET Urls]
         /\ Within(name)[0] = {Sites[name].start}
         /\ \A n \in 1 .. Most :
               Within(name)[n] = Within(name)[n - 1]
                                 \cup UNION {Follow(name, u) : u \in Within(name)[n - 1]}
  <1> DEFINE W == Within(name)
             S == SUBSET Urls
             base == {Sites[name].start}
             After(x) == x \cup UNION {Follow(name, u) : u \in x}
             step == [n \in 1 .. Most |-> [x \in S |-> After(x)]]
  <1>1. \A x \in S : After(x) \in S
    BY FollowType
  <1>2. base \in S
    OBVIOUS
  <1>3. step \in [1 .. Most -> [S -> S]]
    <2> HIDE DEF After, S
    <2> QED
      BY <1>1
  <1>4. PICK f : Iterates(f, S, Most, base, step)
    <2> HIDE DEF S, base, step
    <2> QED
      BY <1>2, <1>3, Iteration, Zenon
  <1>5. ASSUME NEW n \in 1 .. Most PROVE f[n] = After(f[n - 1])
    <2> HIDE DEF After, S
    <2>1. n - 1 \in 0 .. Most
      OBVIOUS
    <2>2. f[n - 1] \in S
      <3> HIDE DEF step
      <3> QED
        BY <1>4, <2>1 DEF Iterates
    <2>3. f[n] = step[n][f[n - 1]]
      <3> HIDE DEF step
      <3> QED
        BY <1>4, Zenon DEF Iterates
    <2> QED
      BY <2>2, <2>3
  <1>6. f = [n \in 0 .. Most |->
               IF n = 0 THEN {Sites[name].start}
               ELSE f[n - 1] \cup UNION {Follow(name, u) : u \in f[n - 1]}]
    <2>1. ASSUME NEW n \in 0 .. Most
          PROVE  f[n] = IF n = 0 THEN {Sites[name].start}
                        ELSE f[n - 1] \cup UNION {Follow(name, u) : u \in f[n - 1]}
      <3>1. n = 0 \/ n \in 1 .. Most
        OBVIOUS
      <3>2. n \in 1 .. Most => n # 0
        OBVIOUS
      <3>3. f[0] = {Sites[name].start}
        BY <1>4 DEF Iterates
      <3> QED
        BY <3>1, <3>2, <3>3, <1>5, Zenon
    <2>2. f = [n \in 0 .. Most |-> f[n]]
      BY <1>4 DEF Iterates
    <2> QED
      BY <2>1, <2>2, Zenon
  <1>7. W = [n \in 0 .. Most |->
               IF n = 0 THEN {Sites[name].start}
               ELSE W[n - 1] \cup UNION {Follow(name, u) : u \in W[n - 1]}]
    BY <1>6, Zenon DEF Within
  <1> HIDE DEF W
  <1>8. W[0] = base
    BY <1>7
  <1>9. ASSUME NEW n \in 1 .. Most PROVE W[n] = After(W[n - 1])
    <2>1. n \in 0 .. Most /\ n # 0
      OBVIOUS
    <2> QED
      BY <2>1, <1>7, Zenon
  <1>10. \A n \in 0 .. Most : W[n] \in S
    <2> DEFINE T == {n \in 0 .. Most : W[n] \in S}
    <2>1. 0 \in T
      BY <1>2, <1>8
    <2>2. ASSUME NEW n \in 1 .. Most, n - 1 \in T PROVE n \in T
      <3>1. W[n - 1] \in S /\ n \in 0 .. Most
        BY <2>2
      <3> HIDE DEF After, S
      <3>2. W[n] \in S
        BY <3>1, <1>1, <1>9
      <3> QED
        BY <3>1, <3>2
    <2> HIDE DEF T
    <2>3. \A n \in 0 .. Most : n \in T
      BY <2>1, <2>2, InductionTo
    <2> QED
      BY <2>3 DEF T
  <1>11. W \in [0 .. Most -> S]
    <2> HIDE DEF S
    <2>1. W = [n \in 0 .. Most |-> W[n]]
      BY <1>7
    <2> QED
      BY <1>10, <2>1
  <1> QED
    BY <1>8, <1>9, <1>11 DEF W

\* There are URLs, and finitely many.
LEMMA SomeUrls ==
  ASSUME NEW name \in DOMAIN Sites
  PROVE  Most \in Nat \ {0}
  <1>1. Most \in Nat
    BY UrlsAssumption, FS_CardinalityType DEF Most
  <1>2. Most = 0 <=> Urls = {}
    BY UrlsAssumption, FS_EmptySet DEF Most
  <1> QED
    BY <1>1, <1>2

\* The sets grow, and no more after they did not.
LEMMA WithinGrows ==
  ASSUME NEW name \in DOMAIN Sites, NEW m \in 0 .. Most, NEW n \in 0 .. Most, m <= n
  PROVE  /\ Within(name)[m] \subseteq Within(name)[n]
         /\ m < Most /\ Within(name)[m + 1] = Within(name)[m] => Within(name)[n] = Within(name)[m]
  <1> DEFINE W == Within(name)
             T == {k \in 0 .. Most : m <= k => /\ W[m] \subseteq W[k]
                                               /\ m < Most /\ W[m + 1] = W[m] => W[k] = W[m]}
             After(x) == x \cup UNION {Follow(name, u) : u \in x}
  <1>0. Most \in Nat
    BY SomeUrls
  <1>1. ASSUME NEW k \in 1 .. Most PROVE W[k] = After(W[k - 1])
    BY <1>0, WithinSteps
  <1> HIDE DEF W, After
  <1>2. 0 \in T
    <2>1. m <= 0 => m = 0
      OBVIOUS
    <2> QED
      BY <2>1, <1>0
  <1>3. ASSUME NEW k \in 1 .. Most, k - 1 \in T PROVE k \in T
    <2>1. CASE m <= k - 1
      <3>1. W[m] \subseteq W[k - 1] /\ W[k - 1] \subseteq W[k]
        BY <1>1, <1>3, <2>1 DEF After
      <3>2. ASSUME m < Most, W[m + 1] = W[m] PROVE W[k] = W[m]
        <4>1. W[k - 1] = W[m]
          BY <1>3, <2>1, <3>2
        <4>2. m + 1 \in 1 .. Most /\ (m + 1) - 1 = m
          BY <3>2, <1>0
        <4>3. W[m + 1] = After(W[m])
          BY <1>1, <4>2
        <4> QED
          BY <1>1, <3>2, <4>1, <4>3
      <3> QED
        BY <3>1, <3>2
    <2>2. CASE m = k
      <3>1. k \in 0 .. Most
        OBVIOUS
      <3> QED
        BY <2>2, <3>1
    <2>3. CASE m > k
      <3>1. k \in 0 .. Most /\ ~ (m <= k)
        BY <2>3
      <3> QED
        BY <3>1
    <2> QED
      BY <2>1, <2>2, <2>3
  <1> HIDE DEF T
  <1>4. \A k \in 0 .. Most : k \in T
    BY <1>0, <1>2, <1>3, InductionTo
  <1> QED
    BY <1>4 DEF T, W

\* While they grow, each has one URL more at the least.
LEMMA WithinCounts ==
  ASSUME NEW name \in DOMAIN Sites, NEW n \in 0 .. Most,
         n # 0 => Within(name)[n] # Within(name)[n - 1]
  PROVE  Cardinality(Within(name)[n]) >= n + 1
  <1> DEFINE W == Within(name)
             T == {k \in 0 .. Most : (k # 0 => W[k] # W[k - 1]) => Cardinality(W[k]) >= k + 1}
  <1>0. Most \in Nat /\ W \in [0 .. Most -> SUBSET Urls] /\ W[0] = {Sites[name].start}
    BY SomeUrls, WithinSteps
  <1>1. \A k \in 0 .. Most : IsFiniteSet(W[k]) /\ Cardinality(W[k]) \in Nat
    BY <1>0, UrlsAssumption, FS_Subset, FS_CardinalityType
  <1>2. \A k \in 1 .. Most : W[k - 1] \subseteq W[k]
    BY <1>0, WithinGrows
  <1>3. \A k \in 0 .. Most, l \in 0 .. Most :
           l <= k /\ l < Most /\ W[l + 1] = W[l] => W[k] = W[l]
    BY WithinGrows
  <1> HIDE DEF W
  <1>4. 0 \in T
    <2>1. Cardinality(W[0]) = 1
      BY <1>0, FS_Singleton
    <2>2. 0 \in 0 .. Most /\ Cardinality(W[0]) >= 0 + 1
      BY <2>1, <1>0
    <2> QED
      BY <2>2
  <1>5. ASSUME NEW k \in 1 .. Most, k - 1 \in T PROVE k \in T
    <2> SUFFICES ASSUME W[k] # W[k - 1] PROVE Cardinality(W[k]) >= k + 1
      BY <1>0
    <2>1. ASSUME k - 1 # 0 PROVE W[k - 1] # W[(k - 1) - 1]
      <3> SUFFICES ASSUME W[k - 1] = W[k - 2] PROVE FALSE
        BY <2>1
      <3>1. k - 2 \in 0 .. Most /\ k - 2 <= k /\ k - 2 < Most /\ (k - 2) + 1 = k - 1
        BY <2>1, <1>0
      <3>2. W[k] = W[k - 2]
        BY <1>3, <3>1
      <3> QED
        BY <3>2
    <2>2. Cardinality(W[k - 1]) >= k
      BY <1>5, <2>1
    <2>3. k \in 0 .. Most /\ k - 1 \in 0 .. Most
      BY <1>0
    <2>4. Cardinality(W[k - 1]) < Cardinality(W[k])
      <3>1. W[k - 1] \subseteq W[k] /\ IsFiniteSet(W[k]) /\ W[k - 1] # W[k]
        BY <1>1, <1>2, <2>3
      <3>2. /\ Cardinality(W[k - 1]) \in Nat /\ Cardinality(W[k]) \in Nat
            /\ Cardinality(W[k - 1]) <= Cardinality(W[k])
            /\ Cardinality(W[k - 1]) = Cardinality(W[k]) => W[k - 1] = W[k]
        BY <3>1, <1>1, <2>3, FS_Subset
      <3> QED
        BY <3>1, <3>2
    <2> QED
      BY <1>1, <2>2, <2>3, <2>4
  <1> HIDE DEF T
  <1>6. \A k \in 0 .. Most : k \in T
    BY <1>0, <1>4, <1>5, InductionTo
  <1> QED
    BY <1>6 DEF T, W

LEMMA CountUpTo ==
  ASSUME NEW k \in Nat
  PROVE  Cardinality(0 .. k - 1) = k
  <1>1. 0 \in Int /\ k - 1 \in Int
    OBVIOUS
  <1>2. Cardinality(0 .. k - 1) = IF 0 > k - 1 THEN 0 ELSE (k - 1) - 0 + 1
    BY <1>1, FS_Interval, Zenon
  <1> QED
    BY <1>2

\* How far a URL is says within how many links it is.
LEMMA DepthIs ==
  ASSUME NEW name \in DOMAIN Sites, NEW u \in Urls
  PROVE  /\ Depths[name][u] \in 0 .. Most
         /\ \A n \in 0 .. Most - 1 : u \in Within(name)[n] <=> Depths[name][u] <= n
  <1> DEFINE W == Within(name)
             Out == {n \in 0 .. Most - 1 : u \notin W[n]}
             In == {n \in 0 .. Most - 1 : u \in W[n]}
  <1>0. Most \in Nat \ {0}
    BY SomeUrls
  <1>1. Depths[name][u] = Cardinality(Out)
    BY Zenon DEF Depths, Within, Most
  <1>2. \A m, n \in 0 .. Most - 1 : m <= n => W[m] \subseteq W[n]
    BY <1>0, WithinGrows
  <1> HIDE DEF W
  <1>3. CASE In = {}
    <2>1. Out = 0 .. Most - 1
      BY <1>3
    <2>2. Cardinality(0 .. Most - 1) = Most
      BY <1>0, CountUpTo
    <2>3. Depths[name][u] = Most
      BY <1>1, <2>1, <2>2
    <2>4. \A n \in 0 .. Most - 1 : u \notin W[n] /\ ~ (Most <= n)
      BY <1>0, <1>3
    <2> QED
      BY <1>0, <2>3, <2>4 DEF W
  <1>4. CASE In # {}
    <2>0. In \in SUBSET Nat
      BY <1>0
    <2>1. PICK k \in In : \A n \in In : k <= n
      <3> HIDE DEF In
      <3> QED
        BY <1>4, <2>0, LeastNumber
    <2>2. \A n \in 0 .. Most - 1 : u \in W[n] <=> k <= n
      BY <1>2, <2>1
    <2>3. Out = 0 .. k - 1
      BY <2>1, <2>2, <1>0
    <2>4. k \in Nat /\ k \in 0 .. Most
      BY <1>0, <2>1
    <2>5. Depths[name][u] = k
      BY <1>1, <2>3, <2>4, CountUpTo
    <2> QED
      BY <2>2, <2>4, <2>5 DEF W
  <1> QED
    BY <1>3, <1>4

\* What distances are: the start is at none, a link adds one at most, and to be
\* anywhere else is to be one link further than somewhere.
LEMMA DepthsAreDistances ==
  ASSUME NEW name \in DOMAIN Sites
  PROVE  LET dist == Depths[name]
             start == Sites[name].start
         IN  /\ \A u \in Urls : dist[u] \in Nat
             /\ start \in Reachable(name) /\ dist[start] = 0
             /\ \A u \in Reachable(name) : \A v \in Follow(name, u) :
                   v \in Reachable(name) /\ dist[v] <= dist[u] + 1
             /\ \A v \in Reachable(name) : v # start =>
                   \E u \in Reachable(name) : v \in Follow(name, u) /\ dist[v] = dist[u] + 1
  <1> DEFINE W == Within(name)
             dist == Depths[name]
             start == Sites[name].start
             R == Reachable(name)
  <1>0. /\ Most \in Nat \ {0} /\ start \in Urls
        /\ W \in [0 .. Most -> SUBSET Urls] /\ W[0] = {start}
        /\ \A n \in 1 .. Most : W[n] = W[n - 1] \cup UNION {Follow(name, u) : u \in W[n - 1]}
    BY SomeUrls, WithinSteps
  <1>1. \A u \in Urls : /\ dist[u] \in 0 .. Most
                        /\ \A n \in 0 .. Most - 1 : u \in W[n] <=> dist[u] <= n
    BY DepthIs
  <1>2. R = {u \in Urls : dist[u] < Most}
    BY DEF Reachable, Most
  <1>3. \A u \in Urls : Follow(name, u) \subseteq Urls
    BY FollowType
  <1>4. ASSUME NEW n \in 0 .. Most, n # 0 => W[n] # W[n - 1] PROVE Cardinality(W[n]) >= n + 1
    BY <1>4, WithinCounts
  <1> HIDE DEF W, dist, start, R
  <1>5. start \in R /\ dist[start] = 0
    <2>1. start \in W[0] /\ 0 \in 0 .. Most - 1
      BY <1>0
    <2>2. dist[start] <= 0 /\ dist[start] \in 0 .. Most
      BY <2>1, <1>0, <1>1
    <2> QED
      BY <2>2, <1>0, <1>2
  <1>6. ASSUME NEW u \in R, NEW v \in Follow(name, u) PROVE v \in R /\ dist[v] <= dist[u] + 1
    <2>1. u \in Urls /\ dist[u] \in 0 .. Most - 1 /\ u \in W[dist[u]] /\ v \in Urls
      BY <1>0, <1>1, <1>2, <1>3
    <2>2. PICK k \in 0 .. Most - 1 : k = dist[u]
      BY <2>1
    <2>3. k + 1 \in 1 .. Most /\ (k + 1) - 1 = k
      BY <1>0
    <2>4. v \in W[k + 1]
      <3>1. W[k + 1] = W[k] \cup UNION {Follow(name, w) : w \in W[k]}
        BY <1>0, <2>3
      <3> QED
        BY <3>1, <2>1, <2>2
    <2>5. dist[v] \in 0 .. Most
      BY <1>1, <2>1
    <2>6. CASE k + 1 < Most
      <3>1. k + 1 \in 0 .. Most - 1
        BY <1>0, <2>6
      <3>2. dist[v] <= k + 1
        BY <1>1, <2>1, <2>4, <3>1
      <3> QED
        BY <3>2, <2>1, <2>2, <2>5, <2>6, <1>0, <1>2
    <2>7. CASE k + 1 = Most
      <3>1. k # 0 => W[k] # W[k - 1]
        <4> SUFFICES ASSUME k # 0 PROVE u \notin W[k - 1]
          BY <2>1, <2>2
        <4>1. k - 1 \in 0 .. Most - 1 /\ ~ (k <= k - 1)
          BY <1>0
        <4> QED
          BY <4>1, <1>1, <2>1, <2>2
      <3>2. k \in 0 .. Most
        BY <1>0
      <3>3. Cardinality(W[k]) >= Most
        BY <1>4, <3>1, <3>2, <2>7
      <3>4. W[k] = Urls
        <4>1. W[k] \subseteq Urls
          BY <1>0, <3>2
        <4>2. /\ Cardinality(W[k]) \in Nat /\ Cardinality(W[k]) <= Most
              /\ Cardinality(W[k]) = Most => W[k] = Urls
          BY <4>1, UrlsAssumption, FS_Subset, FS_CardinalityType DEF Most
        <4> QED
          BY <4>2, <3>3, <1>0
      <3>5. dist[v] <= k
        BY <3>4, <2>1, <1>1
      <3> QED
        BY <3>5, <2>1, <2>2, <2>5, <1>0, <1>2
    <2> QED
      BY <2>6, <2>7, <1>0
  <1>7. ASSUME NEW v \in R, v # start PROVE \E u \in R : v \in Follow(name, u) /\ dist[v] = dist[u] + 1
    <2>1. v \in Urls /\ dist[v] \in 0 .. Most - 1 /\ v \in W[dist[v]]
      BY <1>0, <1>1, <1>2
    <2>2. PICK k \in 0 .. Most - 1 : k = dist[v]
      BY <2>1
    <2>3. k # 0
      BY <2>1, <2>2, <1>0, <1>7
    <2>4. k - 1 \in 0 .. Most - 1 /\ k \in 1 .. Most /\ ~ (k <= k - 1)
      BY <2>3, <1>0
    <2>5. v \notin W[k - 1]
      BY <2>1, <2>2, <2>4, <1>1
    <2>6. W[k] = W[k - 1] \cup UNION {Follow(name, w) : w \in W[k - 1]}
      BY <2>4, <1>0
    <2>7. PICK u \in W[k - 1] : v \in Follow(name, u)
      BY <2>1, <2>2, <2>5, <2>6
    <2>8. u \in Urls /\ dist[u] <= k - 1 /\ dist[u] \in 0 .. Most
      <3>1. k - 1 \in 0 .. Most
        BY <2>4, <1>0
      <3>2. u \in Urls
        BY <3>1, <1>0
      <3> QED
        BY <3>2, <2>4, <1>1
    <2>9. u \in R
      BY <2>8, <1>0, <1>2
    <2>10. dist[v] <= dist[u] + 1
      BY <2>7, <2>9, <1>6
    <2> QED
      BY <2>1, <2>2, <2>7, <2>8, <2>9, <2>10
  <1> QED
    BY <1>0, <1>1, <1>5, <1>6, <1>7 DEF dist, start, R

-----------------------------------------------------------------------------
(* The crawl: what it visited and what it queued. *)

\* What was visited: each URL once, reachable, the nearer ones first, and
\* nothing that was not visited is nearer.
WellVisited(name, visited) ==
    LET dist == Depths[name]
        seen == ToSet(visited)
    IN  /\ IsInjective(visited)
        /\ seen \subseteq Reachable(name)
        /\ \A i, k \in DOMAIN visited : i < k => dist[visited[i]] <= dist[visited[k]]
        /\ \A u \in Reachable(name) \ seen :
              \A i \in DOMAIN visited : dist[visited[i]] <= dist[u]

\* What is queued: where the visited pages lead to, one link further at most,
\* and where a URL comes up for the first time nothing before it is farther.
WellQueued(name, seen, waiting) ==
    LET dist == Depths[name]
        start == Sites[name].start
    IN  /\ ToSet(waiting) \subseteq Reachable(name)
        /\ start \in seen \cup ToSet(waiting)
        /\ \A u \in seen : Follow(name, u) \subseteq seen \cup ToSet(waiting)
        /\ \A j \in DOMAIN waiting :
              waiting[j] = start \/ \E u \in seen : dist[waiting[j]] <= dist[u] + 1
        /\ \A j, k \in DOMAIN waiting :
              j < k /\ waiting[k] \notin seen /\ (\A i \in 1 .. k - 1 : waiting[i] # waiting[k])
              => dist[waiting[j]] <= dist[waiting[k]]

LEMMA NearestIsQueued ==
  ASSUME NEW name \in DOMAIN Sites, NEW seen \in SUBSET Reachable(name), NEW q \in Seq(Urls),
         WellQueued(name, seen, q), Reachable(name) \ seen # {}
  PROVE  \E k \in DOMAIN q :
            /\ q[k] \in Reachable(name) \ seen
            /\ \A i \in 1 .. k - 1 : q[i] # q[k]
            /\ \A w \in Reachable(name) \ seen : Depths[name][q[k]] <= Depths[name][w]
  <1> DEFINE dist == Depths[name]
             R == Reachable(name)
             start == Sites[name].start
             Far == {dist[w] : w \in R \ seen}
  <1>1. /\ R \subseteq Urls
        /\ \A u \in Urls : dist[u] \in Nat
        /\ start \in R /\ dist[start] = 0
        /\ \A v \in R : v # start => \E u \in R : v \in Follow(name, u) /\ dist[v] = dist[u] + 1
    BY DepthsAreDistances DEF Reachable
  <1>2. Far \in SUBSET Nat /\ Far # {}
    BY <1>1
  <1>3. PICK m \in Far : \A n \in Far : m <= n
    <2> HIDE DEF Far
    <2> QED
      BY <1>2, LeastNumber
  <1>4. PICK u \in R \ seen : \A w \in R \ seen : dist[u] <= dist[w]
    BY <1>3
  <1> HIDE DEF Far, R, dist, start
  <1>5. u \in ToSet(q)
    <2>1. CASE u = start
      BY <1>4, <2>1 DEF WellQueued, start
    <2>2. CASE u # start
      <3>1. PICK p \in R : u \in Follow(name, p) /\ dist[u] = dist[p] + 1
        BY <1>1, <1>4, <2>2
      <3>2. dist[p] \in Nat
        BY <1>1
      <3>3. ~ (dist[u] <= dist[p])
        BY <3>1, <3>2
      <3>4. p \in seen
        BY <1>4, <3>3
      <3>5. u \in seen \cup ToSet(q)
        BY <3>1, <3>4 DEF WellQueued
      <3> QED
        BY <1>4, <3>5
    <2> QED
      BY <2>1, <2>2
  <1> DEFINE Places == {k \in DOMAIN q : q[k] = u}
  <1>6. Places \in SUBSET Nat /\ Places # {}
    BY <1>5 DEF ToSet
  <1>7. PICK k \in Places : \A n \in Places : k <= n
    <2> HIDE DEF Places
    <2> QED
      BY <1>6, LeastNumber
  <1>8. k \in DOMAIN q /\ q[k] = u
    OBVIOUS
  <1>9. ASSUME NEW i \in 1 .. k - 1 PROVE q[i] # q[k]
    <2>1. i \in DOMAIN q /\ ~ (k <= i)
      OBVIOUS
    <2> QED
      BY <2>1, <1>7
  <1> QED
    BY <1>4, <1>8, <1>9 DEF R, dist

LEMMA HeadIsNearest ==
  ASSUME NEW name \in DOMAIN Sites, NEW seen \in SUBSET Reachable(name), NEW q \in Seq(Urls),
         WellQueued(name, seen, q), q # <<>>, q[1] \notin seen
  PROVE  /\ q[1] \in Reachable(name)
         /\ \A w \in Reachable(name) \ seen : Depths[name][q[1]] <= Depths[name][w]
  <1>1. 1 \in DOMAIN q
    OBVIOUS
  <1>2. q[1] \in Reachable(name)
    BY <1>1 DEF WellQueued, ToSet
  <1>3. PICK k \in DOMAIN q :
            /\ q[k] \in Reachable(name) \ seen
            /\ \A i \in 1 .. k - 1 : q[i] # q[k]
            /\ \A w \in Reachable(name) \ seen : Depths[name][q[k]] <= Depths[name][w]
    BY <1>2, NearestIsQueued
  <1>4. CASE k = 1
    BY <1>2, <1>3, <1>4
  <1>5. CASE k # 1
    <2>1. 1 < k
      BY <1>5
    <2>2. Depths[name][q[1]] <= Depths[name][q[k]]
      BY <1>1, <1>3, <2>1, Zenon DEF WellQueued
    <2>3. \A w \in Reachable(name) : Depths[name][w] \in Nat
      BY DepthsAreDistances DEF Reachable
    <2> QED
      BY <1>2, <1>3, <2>2, <2>3
  <1> QED
    BY <1>4, <1>5

\* One turn of the crawl keeps both: at a URL that was not visited yet ...
LEMMA VisitedNext ==
  ASSUME NEW name \in DOMAIN Sites, NEW visited \in Seq(Urls), NEW h \in Reachable(name),
         WellVisited(name, visited), h \notin ToSet(visited),
         \A w \in Reachable(name) \ ToSet(visited) : Depths[name][h] <= Depths[name][w]
  PROVE  WellVisited(name, Append(visited, h)) /\ ToSet(Append(visited, h)) = ToSet(visited) \cup {h}
  <1> DEFINE dist == Depths[name]
             R == Reachable(name)
             seen == ToSet(visited)
             after == Append(visited, h)
             L == Len(visited)
  <1>1. h \in Urls /\ R \subseteq Urls
    BY DEF Reachable
  <1>2. ToSet(after) = seen \cup {h}
    BY <1>1, ElementsOfAppend
  <1>3. /\ L \in Nat /\ DOMAIN visited = 1 .. L /\ DOMAIN after = 1 .. L + 1
        /\ after[L + 1] = h /\ \A i \in 1 .. L : after[i] = visited[i]
    BY <1>1
  <1>4. \A i \in 1 .. L : visited[i] \in seen
    BY <1>3 DEF ToSet
  <1>5. /\ seen \subseteq R
        /\ \A i, k \in 1 .. L : visited[i] = visited[k] => i = k
        /\ \A i, k \in 1 .. L : i < k => dist[visited[i]] <= dist[visited[k]]
        /\ \A u \in R \ seen : \A i \in 1 .. L : dist[visited[i]] <= dist[u]
    BY <1>3 DEF WellVisited, IsInjective
  <1>6. \A u \in R \ seen : dist[h] <= dist[u]
    OBVIOUS
  <1>7. h \in R \ seen
    OBVIOUS
  <1> HIDE DEF dist, R, seen, after, L
  <1>8. \A i \in 1 .. L + 1 : i = L + 1 \/ i \in 1 .. L
    BY <1>3
  <1>9. IsInjective(after)
    <2>1. ASSUME NEW i \in 1 .. L + 1, NEW k \in 1 .. L + 1, after[i] = after[k] PROVE i = k
      BY <2>1, <1>3, <1>4, <1>5, <1>7, <1>8
    <2> QED
      BY <1>3, <2>1 DEF IsInjective
  <1>10. ToSet(after) \subseteq R
    BY <1>2, <1>5, <1>7
  <1>11. ASSUME NEW i \in DOMAIN after, NEW k \in DOMAIN after, i < k
         PROVE  dist[after[i]] <= dist[after[k]]
    <2>1. i \in 1 .. L
      BY <1>3, <1>11
    <2>2. CASE k \in 1 .. L
      BY <1>3, <1>5, <1>11, <2>1, <2>2
    <2>3. CASE k = L + 1
      BY <1>3, <1>5, <1>7, <2>1, <2>3
    <2> QED
      BY <1>3, <1>8, <2>2, <2>3
  <1>12. ASSUME NEW u \in R \ ToSet(after), NEW i \in DOMAIN after PROVE dist[after[i]] <= dist[u]
    <2>1. u \in R \ seen
      BY <1>2
    <2>2. CASE i \in 1 .. L
      BY <1>3, <1>5, <2>1, <2>2
    <2>3. CASE i = L + 1
      BY <1>3, <1>6, <2>1, <2>3
    <2> QED
      BY <1>3, <1>8, <2>2, <2>3
  <1>13. WellVisited(name, after)
    BY <1>9, <1>10, <1>11, <1>12, Zenon DEF WellVisited, dist, R
  <1> QED
    BY <1>2, <1>13 DEF after, seen

LEMMA QueuedNext ==
  ASSUME NEW name \in DOMAIN Sites, NEW visited \in Seq(Urls), NEW q \in Seq(Urls), q # <<>>,
         WellVisited(name, visited), WellQueued(name, ToSet(visited), q),
         q[1] \notin ToSet(visited),
         NEW new \in Seq(Urls),
         ToSet(new) = Follow(name, q[1]) \ (ToSet(visited) \cup {q[1]})
  PROVE  WellQueued(name, ToSet(visited) \cup {q[1]}, Tail(q) \o new)
  <1> DEFINE dist == Depths[name]
             R == Reachable(name)
             start == Sites[name].start
             seen == ToSet(visited)
             h == q[1]
             now == seen \cup {h}
             rest == Tail(q)
             after == rest \o new
             L == Len(rest)
  <1>1. /\ rest \in Seq(Urls) /\ L \in Nat /\ Len(q) = L + 1 /\ DOMAIN q = 1 .. L + 1
        /\ \A i \in 1 .. L : rest[i] = q[i + 1]
    OBVIOUS
  <1>2. /\ after \in Seq(Urls) /\ DOMAIN after = 1 .. L + Len(new) /\ Len(new) \in Nat
        /\ \A i \in 1 .. L : after[i] = rest[i]
        /\ \A i \in L + 1 .. L + Len(new) : after[i] = new[i - L] /\ i - L \in DOMAIN new
    BY <1>1
  <1>3. ToSet(after) = ToSet(rest) \cup ToSet(new)
    <2> HIDE DEF rest, L
    <2> QED
      BY <1>1, ElementsOfConcat
  <1>4. ToSet(q) = ToSet(rest) \cup {h}
    BY ElementsOfTail
  <1>5. seen \subseteq R /\ \A u \in R \ seen : \A v \in seen : dist[v] <= dist[u]
    BY DEF WellVisited, ToSet
  <1>6. /\ ToSet(q) \subseteq R /\ start \in seen \cup ToSet(q)
        /\ \A u \in seen : Follow(name, u) \subseteq seen \cup ToSet(q)
        /\ \A j \in 1 .. L + 1 : q[j] = start \/ \E u \in seen : dist[q[j]] <= dist[u] + 1
        /\ \A j, k \in 1 .. L + 1 :
              j < k /\ q[k] \notin seen /\ (\A i \in 1 .. k - 1 : q[i] # q[k])
              => dist[q[j]] <= dist[q[k]]
    <2> HIDE DEF rest, L, seen
    <2> QED
      BY <1>1, Zenon DEF WellQueued, seen
  <1>7. h \in R \ seen /\ \A w \in R \ seen : dist[h] <= dist[w]
    BY <1>5, HeadIsNearest
  <1>8. /\ \A u \in R : dist[u] \in Nat
        /\ start \in R /\ dist[start] = 0
        /\ \A u \in R : \A v \in Follow(name, u) : v \in R /\ dist[v] <= dist[u] + 1
        /\ \A v \in R : v # start => \E u \in R : v \in Follow(name, u) /\ dist[v] = dist[u] + 1
    BY DepthsAreDistances DEF Reachable
  <1>9. ToSet(new) = Follow(name, h) \ now
    OBVIOUS
  <1>10. \A i \in DOMAIN after : after[i] \in ToSet(after)
    BY DEF ToSet
  <1>11. \A i \in DOMAIN new : new[i] \in ToSet(new)
    BY DEF ToSet
  <1> HIDE DEF dist, R, start, seen, h, now, rest, after, L
  <1>12. ToSet(after) \subseteq R
    BY <1>3, <1>4, <1>6, <1>7, <1>8, <1>9
  <1>13. start \in now \cup ToSet(after)
    BY <1>3, <1>4, <1>6 DEF now
  <1>14. ASSUME NEW u \in now PROVE Follow(name, u) \subseteq now \cup ToSet(after)
    <2>1. CASE u \in seen
      BY <1>3, <1>4, <1>6, <2>1 DEF now
    <2>2. CASE u = h
      BY <1>3, <1>9, <2>2
    <2> QED
      BY <2>1, <2>2 DEF now
  <1>15. ASSUME NEW j \in DOMAIN after
         PROVE  after[j] = start \/ \E u \in now : dist[after[j]] <= dist[u] + 1
    <2>1. CASE j \in 1 .. L
      <3>1. after[j] = q[j + 1] /\ j + 1 \in 1 .. L + 1
        BY <1>1, <1>2, <2>1
      <3> QED
        BY <3>1, <1>6 DEF now
    <2>2. CASE j \in L + 1 .. L + Len(new)
      <3>1. after[j] \in ToSet(new)
        BY <1>2, <1>11, <2>2
      <3>2. dist[after[j]] <= dist[h] + 1
        BY <3>1, <1>7, <1>8, <1>9
      <3> QED
        BY <3>2 DEF now
    <2> QED
      BY <1>1, <1>2, <2>1, <2>2
  <1>16. ASSUME NEW j \in DOMAIN after PROVE dist[after[j]] <= dist[h] + 1
    <2>1. after[j] \in R
      BY <1>10, <1>12
    <2>2. \A u \in now : u \in R /\ dist[u] <= dist[h]
      BY <1>5, <1>7, <1>8 DEF now
    <2>3. dist[h] \in Nat /\ dist[after[j]] \in Nat
      BY <2>1, <1>7, <1>8
    <2>4. CASE after[j] = start
      BY <2>3, <2>4, <1>8
    <2>5. CASE \E u \in now : dist[after[j]] <= dist[u] + 1
      <3>1. PICK u \in now : dist[after[j]] <= dist[u] + 1
        BY <2>5
      <3>2. dist[u] \in Nat /\ dist[u] <= dist[h]
        BY <2>2, <1>8
      <3> QED
        BY <2>3, <3>1, <3>2
    <2> QED
      BY <1>15, <2>4, <2>5
  <1>17. ASSUME NEW j \in DOMAIN after, NEW k \in DOMAIN after, j < k, after[k] \notin now,
                \A i \in 1 .. k - 1 : after[i] # after[k]
         PROVE  dist[after[j]] <= dist[after[k]]
    <2>1. CASE k \in 1 .. L
      <3>1. /\ after[k] = q[k + 1] /\ k + 1 \in 1 .. L + 1
            /\ after[j] = q[j + 1] /\ j + 1 \in 1 .. L + 1 /\ j + 1 < k + 1
        BY <1>1, <1>2, <1>17, <2>1
      <3>2. ASSUME NEW i \in 1 .. (k + 1) - 1 PROVE q[i] # q[k + 1]
        <4>1. CASE i = 1
          BY <4>1, <3>1, <1>17 DEF now, h
        <4>2. CASE i # 1
          <5>1. i - 1 \in 1 .. k - 1 /\ i - 1 \in 1 .. L /\ (i - 1) + 1 = i
            BY <4>2, <2>1, <1>1
          <5>2. after[i - 1] = q[i]
            BY <5>1, <1>1, <1>2
          <5> QED
            BY <5>1, <5>2, <3>1, <1>17
        <4> QED
          BY <4>1, <4>2
      <3>3. q[k + 1] \notin seen
        BY <3>1, <1>17 DEF now
      <3> QED
        BY <1>6, <3>1, <3>2, <3>3
    <2>2. CASE k \in L + 1 .. L + Len(new)
      <3> DEFINE v == after[k]
      <3>1. v \in Follow(name, h) /\ v \notin now /\ v \in R
        BY <1>2, <1>7, <1>8, <1>9, <1>11, <2>2
      <3>2. v \notin ToSet(q)
        <4> SUFFICES ASSUME v \in ToSet(q) PROVE FALSE
          OBVIOUS
        <4>1. v \in ToSet(rest)
          BY <1>4, <3>1 DEF now
        <4>2. PICK i \in DOMAIN rest : v = rest[i]
          BY <4>1 DEF ToSet
        <4>3. i \in 1 .. L
          BY <1>1 DEF L
        <4>4. i \in 1 .. k - 1 /\ after[i] = v
          BY <4>2, <4>3, <2>2, <1>1, <1>2
        <4> QED
          BY <4>4, <1>17
      <3>3. v # start
        BY <3>1, <3>2, <1>6 DEF now
      <3>4. PICK p \in R : v \in Follow(name, p) /\ dist[v] = dist[p] + 1
        BY <3>1, <3>3, <1>8
      <3>5. p \notin seen
        BY <3>1, <3>2, <3>4, <1>6 DEF now
      <3>6. dist[h] <= dist[p] /\ dist[p] \in Nat /\ dist[h] \in Nat
        BY <3>5, <1>7, <1>8
      <3>7. dist[after[j]] <= dist[h] + 1 /\ dist[after[j]] \in Nat
        BY <1>8, <1>10, <1>12, <1>16
      <3> QED
        BY <3>4, <3>6, <3>7
    <2> QED
      BY <1>1, <1>2, <2>1, <2>2
  <1>18. WellQueued(name, now, after)
    BY <1>12, <1>13, <1>14, <1>15, <1>17, Zenon DEF WellQueued, dist, R, start
  <1> QED
    BY <1>18 DEF now, after, seen, h, rest

\* ... and at one that was.
LEMMA QueuedAgain ==
  ASSUME NEW name \in DOMAIN Sites, NEW seen, NEW q \in Seq(Urls), q # <<>>,
         WellQueued(name, seen, q), q[1] \in seen
  PROVE  WellQueued(name, seen, Tail(q))
  <1> DEFINE dist == Depths[name]
             R == Reachable(name)
             start == Sites[name].start
             h == q[1]
             rest == Tail(q)
             L == Len(rest)
  <1>1. /\ rest \in Seq(Urls) /\ L \in Nat /\ DOMAIN rest = 1 .. L /\ DOMAIN q = 1 .. L + 1
        /\ \A i \in 1 .. L : rest[i] = q[i + 1] /\ i + 1 \in 1 .. L + 1
        /\ \A i \in 1 .. L + 1 : i = 1 \/ (i - 1 \in 1 .. L /\ q[i] = rest[i - 1])
    OBVIOUS
  <1>2. ToSet(q) = ToSet(rest) \cup {h}
    BY ElementsOfTail
  <1>3. /\ ToSet(q) \subseteq R /\ start \in seen \cup ToSet(q)
        /\ \A u \in seen : Follow(name, u) \subseteq seen \cup ToSet(q)
        /\ \A j \in 1 .. L + 1 : q[j] = start \/ \E u \in seen : dist[q[j]] <= dist[u] + 1
        /\ \A j, k \in 1 .. L + 1 :
              j < k /\ q[k] \notin seen /\ (\A i \in 1 .. k - 1 : q[i] # q[k])
              => dist[q[j]] <= dist[q[k]]
    <2> HIDE DEF rest, L
    <2> QED
      BY <1>1, Zenon DEF WellQueued
  <1>4. h \in seen
    OBVIOUS
  <1> HIDE DEF dist, R, start, rest, L, h
  <1>5. /\ ToSet(rest) \subseteq R /\ start \in seen \cup ToSet(rest)
        /\ \A u \in seen : Follow(name, u) \subseteq seen \cup ToSet(rest)
    BY <1>2, <1>3, <1>4
  <1>6. \A j \in DOMAIN rest : rest[j] = start \/ \E u \in seen : dist[rest[j]] <= dist[u] + 1
    BY <1>1, <1>3
  <1>7. ASSUME NEW j \in DOMAIN rest, NEW k \in DOMAIN rest, j < k, rest[k] \notin seen,
               \A i \in 1 .. k - 1 : rest[i] # rest[k]
        PROVE  dist[rest[j]] <= dist[rest[k]]
    <2>1. /\ rest[k] = q[k + 1] /\ k + 1 \in 1 .. L + 1
          /\ rest[j] = q[j + 1] /\ j + 1 \in 1 .. L + 1 /\ j + 1 < k + 1
      BY <1>1, <1>7
    <2>2. ASSUME NEW i \in 1 .. (k + 1) - 1 PROVE q[i] # q[k + 1]
      <3>1. CASE i = 1
        BY <3>1, <2>1, <1>4, <1>7 DEF h
      <3>2. CASE i # 1
        <4>1. i - 1 \in 1 .. k - 1 /\ i - 1 \in 1 .. L /\ q[i] = rest[i - 1]
          BY <3>2, <1>1
        <4> QED
          BY <4>1, <2>1, <1>7
      <3> QED
        BY <3>1, <3>2
    <2> QED
      BY <1>3, <1>7, <2>1, <2>2
  <1>8. WellQueued(name, seen, rest)
    BY <1>5, <1>6, <1>7, Zenon DEF WellQueued, dist, R, start
  <1> QED
    BY <1>8 DEF rest

\* At the start only the start is queued; with an empty queue all was visited.
LEMMA CrawlBegun ==
  ASSUME NEW name \in DOMAIN Sites
  PROVE  WellVisited(name, <<>>) /\ WellQueued(name, ToSet(<<>>), <<Sites[name].start>>)
  <1> DEFINE start == Sites[name].start
             q == <<start>>
             none == <<>>
  <1>1. DOMAIN q = {1} /\ q[1] = start /\ DOMAIN none = {}
    OBVIOUS
  <1>2. start \in Reachable(name)
    BY DepthsAreDistances
  <1>3. ToSet(none) = {}
    BY <1>1 DEF ToSet
  <1>4. ToSet(q) = {start}
    <2> HIDE DEF q
    <2> QED
      BY <1>1 DEF ToSet
  <1> HIDE DEF start, q, none
  <1>5. WellVisited(name, none)
    BY <1>1, <1>3 DEF WellVisited, IsInjective
  <1>6. WellQueued(name, {}, q)
    <2>1. \A j, k \in DOMAIN q : ~ (j < k)
      BY <1>1
    <2> QED
      BY <1>1, <1>2, <1>4, <2>1 DEF WellQueued, start
  <1> QED
    BY <1>3, <1>5, <1>6 DEF start, q, none

LEMMA NothingLeft ==
  ASSUME NEW name \in DOMAIN Sites, NEW seen \in SUBSET Reachable(name),
         WellQueued(name, seen, <<>>)
  PROVE  seen = Reachable(name)
  <1> SUFFICES ASSUME Reachable(name) \ seen # {} PROVE FALSE
    OBVIOUS
  <1> DEFINE q == <<>>
  <1>1. q \in Seq(Urls) /\ DOMAIN q = {} /\ WellQueued(name, seen, q)
    OBVIOUS
  <1> HIDE DEF q
  <1>2. \E k \in DOMAIN q : TRUE
    BY <1>1, NearestIsQueued
  <1> QED
    BY <1>1, <1>2

Crawled(name, visited) ==
    WellVisited(name, visited) /\ (Len(visited) < MaxPages => ToSet(visited) = Reachable(name))

\* A command: it has nothing before it crawls, is well while it crawls, and when
\* the crawl ended has all there is, or as much as it may.
Crawls == {"ui", "crawl"}
Proper(name, c, waiting) ==
    /\ c.at \in {"gather", "render"} => c.kind \notin Crawls
    /\ c.at = "load" /\ c.kind \in Crawls => c.visited = <<>> /\ c.found = <<>>
    /\ c.at = "crawl" =>
          /\ Len(c.found) = Len(c.visited)
          /\ WellVisited(name, c.visited) /\ WellQueued(name, ToSet(c.visited), waiting)
    /\ c.kind = "crawl" /\ c.at \in {"save", "fill", "done"} => Crawled(name, c.visited)

Crawling ==
    /\ queue \in [Terminals -> Seq(Urls)]
    /\ \A t \in Terminals : Proper(site, commands[t], queue[t])

LEMMA InitCrawling == Init => Crawling
  BY DEF Init, Crawling, Proper, NoCommand, Crawls

\* A step of one terminal.
LEMMA CrawlingStep ==
  ASSUME Crawling, NEW t \in Terminals, Only(t), site' = site,
         NEW waiting \in Seq(Urls), queue' = [queue EXCEPT ![t] = waiting],
         Proper(site, commands'[t], waiting)
  PROVE  Crawling'
  <1>1. queue' \in [Terminals -> Seq(Urls)] /\ queue'[t] = waiting
    BY DEF Crawling
  <1>2. \A u \in Terminals \ {t} : queue'[u] = queue[u]
    BY DEF Crawling
  <1>3. ASSUME NEW u \in Terminals PROVE Proper(site', commands'[u], queue'[u])
    <2>1. CASE u = t
      BY <1>1, <2>1
    <2>2. CASE u # t
      BY <1>2, <2>2 DEF Only, Crawling
    <2> QED
      BY <2>1, <2>2
  <1> QED
    BY <1>1, <1>3 DEF Crawling

\* A step that only ends a stage, or fills in what the crawl does not look at.
LEMMA StageStep ==
  ASSUME IInv, Crawling, NEW t \in Terminals, Only(t), site' = site, queue' = queue,
         commands'[t].kind = commands[t].kind,
         commands'[t].visited = commands[t].visited,
         commands'[t].at \notin {"gather", "load", "crawl"},
         commands'[t].at = "render" => commands[t].at = "render",
         commands[t].kind = "crawl" /\ commands'[t].at \in {"save", "fill", "done"} =>
            commands[t].at \in {"save", "fill", "render"}
  PROVE  Crawling'
  <1>1. Proper(site, commands[t], queue[t])
    BY DEF Crawling
  <1>2. Proper(site, commands'[t], queue[t])
    BY <1>1 DEF Proper, Crawls
  <1>3. queue' = [queue EXCEPT ![t] = queue[t]] /\ queue[t] \in Seq(Urls)
    BY DEF Crawling
  <1> QED
    BY <1>2, <1>3, CrawlingStep

\* One turn of the loop.
LEMMA VisitCrawling ==
  ASSUME IInv, Crawling, NEW t \in Terminals, Visit(t)
  PROVE  Crawling'
  <1> DEFINE c == commands[t]
             q == queue[t]
             visited == ToSet(c.visited)
             more == Unseen(q[1], visited \cup {q[1]})
  <1>1. /\ At(t, "crawl") /\ More(t) /\ q[1] \in Urls /\ q[1] \notin App.broken
        /\ commands' = IF q[1] \in visited THEN commands
                       ELSE [commands EXCEPT ![t].visited = Append(@, q[1]),
                                             ![t].found = Append(@, Page(App.lands[q[1]]))]
        /\ queue' = [queue EXCEPT ![t] = IF q[1] \in visited THEN Tail(q) ELSE Tail(q) \o more]
        /\ site' = site
    <2>1. PICK url \in Urls :
            /\ At(t, "crawl") /\ More(t) /\ url = Head(queue[t]) /\ url \notin App.broken
            /\ commands' = IF url \in ToSet(commands[t].visited) THEN commands
                           ELSE [commands EXCEPT ![t].visited = Append(@, url),
                                                 ![t].found = Append(@, Page(App.lands[url]))]
            /\ queue' = [queue EXCEPT ![t] =
                            IF url \in ToSet(commands[t].visited) THEN Tail(queue[t])
                            ELSE Tail(queue[t]) \o
                                 Unseen(url, ToSet(commands[t].visited) \cup {url})]
            /\ site' = site
      BY Zenon DEF Visit
    <2>2. url = q[1]
      BY <2>1 DEF Crawling
    <2> QED
      BY <2>1, <2>2, Zenon
  <1>2. /\ site \in DOMAIN Sites /\ commands \in [Terminals -> Command] /\ c \in Command
        /\ q \in Seq(Urls) /\ q # <<>>
    BY <1>1 DEF IInv, Typed, Crawling, More
  <1>3. /\ c.visited \in Seq(Urls) /\ c.found \in Seq(Entries)
        /\ Len(c.found) = Len(c.visited)
        /\ WellVisited(site, c.visited) /\ WellQueued(site, visited, q)
        /\ visited \subseteq Reachable(site)
    <2>1. Proper(site, c, q)
      BY DEF Crawling
    <2>2. Len(c.found) = Len(c.visited) /\ WellVisited(site, c.visited) /\ WellQueued(site, visited, q)
      BY <1>1, <2>1 DEF Proper, At
    <2> QED
      BY <1>2, <2>2 DEF Command, WellVisited
  <1>4. CASE q[1] \in visited
    <2>1. commands' = commands /\ queue' = [queue EXCEPT ![t] = Tail(q)] /\ Only(t)
      BY <1>1, <1>4 DEF Only
    <2>2. Tail(q) \in Seq(Urls)
      BY <1>2
    <2>3. WellQueued(site, visited, Tail(q))
      BY <1>2, <1>3, <1>4, QueuedAgain
    <2>4. Proper(site, commands'[t], Tail(q))
      BY <1>1, <1>3, <2>1, <2>3 DEF Proper, At
    <2> QED
      BY <1>1, <2>1, <2>2, <2>4, CrawlingStep
  <1>5. CASE q[1] \notin visited
    <2> DEFINE h == q[1]
               app == Sites[site]
               waiting == Tail(q) \o more
    <2>1. app.links[app.lands[h]] \in Seq(Urls)
      BY <1>1, <1>2
    <2>2. more \in Seq(Urls) /\ ToSet(more) = Follow(site, h) \ (visited \cup {h})
      <3> DEFINE own == {href \in Urls \ (visited \cup {h}) : Origin[href] = Origin[app.start]}
                 links == app.links[app.lands[h]]
      <3>1. more = Among(links, own)
        BY Zenon DEF Unseen, App
      <3>2. Follow(site, h) = {href \in ToSet(links) : Origin[href] = Origin[app.start]}
        BY <1>1 DEF Follow, App
      <3>3. ToSet(links) \subseteq Urls
        BY <2>1 DEF ToSet
      <3>4. Follow(site, h) \ (visited \cup {h}) = ToSet(links) \cap own
        <4> HIDE DEF links, h, visited, app
        <4> QED
          BY <3>2, <3>3
      <3> HIDE DEF own, links, more
      <3> QED
        BY <2>1, <3>1, <3>4, AmongElements DEF links
    <2>3. h \in Reachable(site)
          /\ \A w \in Reachable(site) \ visited : Depths[site][h] <= Depths[site][w]
      BY <1>2, <1>3, <1>5, HeadIsNearest
    <2>4. WellVisited(site, Append(c.visited, h)) /\ ToSet(Append(c.visited, h)) = visited \cup {h}
      BY <1>2, <1>3, <1>5, <2>3, VisitedNext
    <2>5. WellQueued(site, visited \cup {h}, waiting)
      <3> HIDE DEF more
      <3> QED
        BY <1>2, <1>3, <1>5, <2>2, QueuedNext
    <2>6. waiting \in Seq(Urls)
      <3>1. Tail(q) \in Seq(Urls)
        BY <1>2
      <3> HIDE DEF more
      <3> QED
        BY <2>2, <3>1, ElementsOfConcat
    <2>7. /\ commands'[t].visited = Append(c.visited, h)
          /\ commands'[t].found = Append(c.found, Page(App.lands[h]))
          /\ commands'[t].at = "crawl" /\ commands'[t].kind = c.kind
          /\ Only(t)
      BY <1>1, <1>2, <1>5 DEF Only, At, Command
    <2>8. Len(commands'[t].found) = Len(commands'[t].visited)
      <3> DEFINE page == Page(App.lands[h])
      <3>1. page \in Entries /\ h \in Urls
        BY <1>1, <1>2 DEF Entries, App
      <3> HIDE DEF page, h, c
      <3>2. Len(Append(c.found, page)) = Len(c.found) + 1
            /\ Len(Append(c.visited, h)) = Len(c.visited) + 1
        BY <1>3, <3>1
      <3> QED
        BY <1>3, <2>7, <3>2 DEF page, h
    <2>9. Proper(site, commands'[t], waiting)
      <3> HIDE DEF waiting, h, visited
      <3> QED
        BY <2>4, <2>5, <2>7, <2>8 DEF Proper
    <2>10. queue' = [queue EXCEPT ![t] = waiting]
      BY <1>1, <1>5, Zenon
    <2> HIDE DEF waiting
    <2> QED
      BY <1>1, <2>6, <2>7, <2>9, <2>10, CrawlingStep
  <1> QED
    BY <1>4, <1>5

LEMMA NextCrawling == IInv /\ Crawling /\ [Next]_vars => Crawling'
  <1> SUFFICES ASSUME IInv, Crawling, [Next]_vars PROVE Crawling'
    OBVIOUS
  <1>0. /\ site \in DOMAIN Sites /\ commands \in [Terminals -> Command]
        /\ queue \in [Terminals -> Seq(Urls)]
        /\ \A t \in Terminals : Proper(site, commands[t], queue[t])
    BY DEF IInv, Typed, Crawling
  <1> DEFINE none == <<>>
  <1>a. none \in Seq(Urls)
    OBVIOUS
  <1>1. ASSUME NEW t \in Terminals, NEW kind \in Kinds, Begin(t, kind) PROVE Crawling'
    <2>1. /\ commands'[t].kind = kind
          /\ commands'[t].at = IF kind \in {"api", "db"} THEN "gather" ELSE "load"
          /\ commands'[t].visited = <<>> /\ commands'[t].found = <<>>
          /\ Only(t) /\ site' = site /\ queue' = queue
      BY <1>0, <1>1 DEF Begin, NoCommand, Only
    <2>2. Proper(site, commands'[t], queue[t])
      BY <2>1 DEF Proper, Crawls
    <2>3. queue' = [queue EXCEPT ![t] = queue[t]] /\ queue[t] \in Seq(Urls)
      BY <1>0, <2>1
    <2> QED
      BY <2>1, <2>2, <2>3, CrawlingStep
  <1>2. ASSUME NEW t \in Terminals, NEW how \in {"failed", "killed"}, Abort(t, how), site' = site
        PROVE  Crawling'
    <2>1. /\ commands'[t].kind = "ui" /\ commands'[t].at = how /\ Only(t)
          /\ queue' = [queue EXCEPT ![t] = none]
      BY <1>0, <1>2 DEF Abort, NoCommand, Only
    <2>2. Proper(site, commands'[t], none)
      BY <2>1 DEF Proper
    <2> HIDE DEF none
    <2> QED
      BY <1>a, <1>2, <2>1, <2>2, CrawlingStep
  <1>3. ASSUME NEW t \in Terminals, Fails(t) \/ Killed(t) PROVE Crawling'
    BY <1>2, <1>3 DEF Fails, Killed
  <1>4. ASSUME NEW t \in Terminals, Load(t) PROVE Crawling'
    <2> DEFINE kind == commands[t].kind
               ok == IsReport(report) \/ (report = Absent /\ kind \in Appending)
               next == CASE kind \in {"ui", "crawl"} -> "crawl"
                         [] kind \in {"api", "db"} -> "save"
                         [] kind \in {"generate", "recommend"} -> "render"
               at == IF ok THEN next ELSE "failed"
               read == IF ok THEN report ELSE commands[t].read
               waiting == IF ok /\ next = "crawl" THEN <<App.start>> ELSE <<>>
    <2>1. commands' = [commands EXCEPT ![t].read = read, ![t].at = at] /\ At(t, "load")
      BY <1>4 DEF Load
    <2>2. queue' = [queue EXCEPT ![t] = waiting] /\ site' = site
      BY <1>4, Zenon DEF Load
    <2>3. kind \in Kinds
      BY <1>0 DEF Command
    <2>4. /\ at \in {"crawl", "save", "render", "failed"}
          /\ at = "crawl" => kind \in Crawls /\ waiting = <<Sites[site].start>>
          /\ at \in {"save", "render"} => kind \notin Crawls
      BY <2>3 DEF Kinds, Crawls, App
    <2>5. waiting \in Seq(Urls)
      <3>1. Sites[site].start \in Urls
        BY <1>0
      <3>2. <<Sites[site].start>> \in Seq(Urls) /\ <<>> \in Seq(Urls)
        BY <3>1
      <3> QED
        BY <3>2 DEF App
    <2> HIDE DEF at, read, waiting
    <2>6. /\ commands'[t].at = at /\ commands'[t].kind = kind
          /\ commands'[t].visited = commands[t].visited /\ commands'[t].found = commands[t].found
          /\ Only(t)
      BY <1>0, <2>1 DEF Command, Only
    <2>7. at = "crawl" => commands[t].visited = <<>> /\ commands[t].found = <<>>
      BY <1>0, <2>1, <2>4 DEF Proper, At
    <2>8. WellVisited(site, <<>>) /\ WellQueued(site, ToSet(<<>>), <<Sites[site].start>>)
      BY <1>0, CrawlBegun
    <2>9. Proper(site, commands'[t], waiting)
      <3>1. at = "crawl" =>
              /\ Len(commands'[t].found) = Len(commands'[t].visited)
              /\ WellVisited(site, commands'[t].visited)
              /\ WellQueued(site, ToSet(commands'[t].visited), waiting)
        BY <2>4, <2>6, <2>7, <2>8
      <3> HIDE DEF kind
      <3> QED
        BY <2>4, <2>6, <3>1 DEF Proper, Crawls
    <2> QED
      BY <2>2, <2>5, <2>6, <2>9, CrawlingStep
  <1>5. ASSUME NEW t \in Terminals, Gather(t) PROVE Crawling'
    <2> DEFINE found == IF commands[t].kind = "db" THEN [i \in DOMAIN Schema |-> Table(Schema[i])]
                                                  ELSE [i \in DOMAIN Endpoints |-> Endpoint(Endpoints[i])]
    <2>1. /\ commands' = [commands EXCEPT ![t].at = "load", ![t].found = found]
          /\ At(t, "gather") /\ site' = site /\ queue' = queue
      BY <1>5 DEF Gather
    <2> HIDE DEF found
    <2>2. commands'[t].at = "load" /\ commands'[t].kind = commands[t].kind /\ Only(t)
      BY <1>0, <2>1 DEF Command, Only
    <2>3. commands[t].kind \notin Crawls
      BY <1>0, <2>1 DEF Proper, At
    <2>4. Proper(site, commands'[t], queue[t])
      BY <2>2, <2>3 DEF Proper
    <2>5. queue' = [queue EXCEPT ![t] = queue[t]] /\ queue[t] \in Seq(Urls)
      BY <1>0, <2>1
    <2> QED
      BY <2>1, <2>2, <2>4, <2>5, CrawlingStep
  <1>6. ASSUME NEW t \in Terminals, CrawlEnds(t) PROVE Crawling'
    <2>1. /\ At(t, "crawl") /\ ~More(t) /\ site' = site
          /\ commands' = [commands EXCEPT ![t].at = "save"]
          /\ queue' = [queue EXCEPT ![t] = none]
      BY <1>6 DEF CrawlEnds, Set
    <2>2. /\ commands'[t].at = "save" /\ commands'[t].kind = commands[t].kind
          /\ commands'[t].visited = commands[t].visited /\ Only(t)
      BY <1>0, <2>1 DEF Command, Only
    <2>3. /\ Len(commands[t].found) = Len(commands[t].visited)
          /\ WellVisited(site, commands[t].visited)
          /\ WellQueued(site, ToSet(commands[t].visited), queue[t])
          /\ commands[t].visited \in Seq(Urls)
      BY <1>0, <2>1 DEF Proper, At, Command
    <2>4. ASSUME commands[t].kind = "crawl", Len(commands[t].visited) < MaxPages
          PROVE  ToSet(commands[t].visited) = Reachable(site)
      <3>1. queue[t] = <<>>
        BY <2>1, <2>3, <2>4 DEF More, Limit
      <3>2. ToSet(commands[t].visited) \subseteq Reachable(site)
        BY <2>3 DEF WellVisited
      <3> QED
        BY <1>0, <2>3, <3>1, <3>2, NothingLeft
    <2>5. Proper(site, commands'[t], none)
      BY <2>2, <2>3, <2>4 DEF Proper, Crawled
    <2> HIDE DEF none
    <2> QED
      BY <1>a, <2>1, <2>2, <2>5, CrawlingStep
  <1>7. ASSUME NEW t \in Terminals, Save(t) \/ Fill(t) \/ GenerateEnds(t) \/ Recommend(t) PROVE Crawling'
    <2>1. PICK at \in {"fill", "done"} :
            /\ commands' = [commands EXCEPT ![t].at = at] /\ site' = site /\ queue' = queue
            /\ commands[t].at \in {"save", "fill"} \/ commands[t].kind # "crawl"
      <3>1. CASE Save(t)
        BY <3>1 DEF Save, Set, At
      <3>2. CASE Fill(t)
        BY <3>2 DEF Fill, Set, At
      <3>3. CASE GenerateEnds(t) \/ Recommend(t)
        BY <3>3 DEF GenerateEnds, Recommend, Set
      <3> QED
        BY <1>7, <3>1, <3>2, <3>3
    <2>2. /\ commands'[t].at = at /\ commands'[t].kind = commands[t].kind
          /\ commands'[t].visited = commands[t].visited /\ Only(t)
      BY <1>0, <2>1 DEF Command, Only
    <2> QED
      BY <2>1, <2>2, StageStep
  <1>8. ASSUME NEW t \in Terminals, Render(t) PROVE Crawling'
    <2>1. /\ commands' = [commands EXCEPT ![t].rendered = commands[t].rendered + 1]
          /\ At(t, "render") /\ site' = site /\ queue' = queue
      BY <1>8 DEF Render
    <2>2. /\ commands'[t].at = "render" /\ commands'[t].kind = commands[t].kind
          /\ commands'[t].visited = commands[t].visited /\ Only(t)
      BY <1>0, <2>1 DEF Command, Only, At
    <2> QED
      BY <2>1, <2>2, StageStep DEF At
  <1>9. CASE Review \/ UNCHANGED vars
    <2>1. site' = site /\ commands' = commands /\ queue' = queue
      BY <1>9 DEF Review, vars
    <2> QED
      BY <2>1 DEF Crawling
  <1> QED
    BY <1>1, <1>3, <1>4, <1>5, <1>6, <1>7, <1>8, <1>9, VisitCrawling DEF Next

\* A crawl that ends has seen each URL once, the nearer ones first, and left
\* none out unless max_pages stopped it: for any pages, links and redirects, any
\* limit, and whatever the other terminals do.
THEOREM CrawlVisitsNearestFirst == Spec => []CrawlIsBreadthFirst
  <1>1. ASSUME Crawling PROVE CrawlIsBreadthFirst
    <2> SUFFICES ASSUME NEW t \in Terminals, commands[t].kind = "crawl",
                        commands[t].at \in {"save", "fill", "done"},
                        Crawled(site, commands[t].visited)
                 PROVE  LET c == commands[t]
                            Far(i) == Depths[site][c.visited[i]]
                        IN  /\ IsInjective(c.visited)
                            /\ ToSet(c.visited) \subseteq Reachable(site)
                            /\ \A i, k \in DOMAIN c.visited : i < k => Far(i) <= Far(k)
                            /\ Len(c.visited) < MaxPages => ToSet(c.visited) = Reachable(site)
                            /\ \A u \in Reachable(site) \ ToSet(c.visited) :
                                  \A i \in DOMAIN c.visited : Far(i) <= Depths[site][u]
      BY <1>1, Zenon DEF Crawling, Proper, CrawlIsBreadthFirst
    <2> QED
      BY Zenon DEF Crawled, WellVisited
  <1> QED
    BY <1>1, InitInv, NextInv, InitCrawling, NextCrawling, PTL DEF Spec

-----------------------------------------------------------------------------
(* The generated files. *)

\* The file of the i-th entry has it, or another of the same name.
Held(entries, i, written) ==
    /\ FileOf(entries, i) \in DOMAIN written
    /\ \E k \in DOMAIN entries :
          FileOf(entries, k) = FileOf(entries, i) /\ written[FileOf(entries, i)] = entries[k]

Alone(t) == \A u \in Terminals \ {t} : "generate" \notin Offers[u]

\* A command that generates begins at the first entry and ends after the last.
Generates(c) ==
    c.kind = "generate" =>
        /\ c.at \notin {"gather", "crawl", "save", "fill"}
        /\ c.at = "load" => c.rendered = 0
        /\ c.at = "done" => c.rendered = Len(ToRender(c))
Rendered(t, c, written) ==
    c.kind = "generate" /\ c.at \in {"render", "done"} /\ Alone(t) =>
        \A i \in 1 .. c.rendered : Held(ToRender(c), i, written)

Generating ==
    \A t \in Terminals :
        /\ commands[t].kind = "generate" => "generate" \in Offers[t]
        /\ Generates(commands[t]) /\ Rendered(t, commands[t], files)

LEMMA InitGenerating == Init => Generating
  BY DEF Init, Generating, Generates, Rendered, NoCommand

\* A step that renders nothing: of a command that does not generate, or of one
\* that has rendered nothing yet, or is at its end.
LEMMA GeneratingStep ==
  ASSUME Generating, NEW t \in Terminals, Only(t), files' = files,
         commands'[t].kind = "generate" => "generate" \in Offers[t],
         Generates(commands'[t]), Rendered(t, commands'[t], files)
  PROVE  Generating'
  <1> SUFFICES ASSUME NEW u \in Terminals
               PROVE  /\ commands'[u].kind = "generate" => "generate" \in Offers[u]
                      /\ Generates(commands'[u]) /\ Rendered(u, commands'[u], files')
    BY Zenon DEF Generating, Generates, Rendered, ToRender, Loaded
  <1>1. CASE u = t
    BY <1>1
  <1>2. CASE u # t
    <2>1. commands'[u] = commands[u]
      BY <1>2 DEF Only
    <2> QED
      BY <2>1 DEF Generating
  <1> QED
    BY <1>1, <1>2

\* A step of a command that does not generate.
LEMMA OtherStep ==
  ASSUME Generating, NEW t \in Terminals, Only(t), files' = files,
         commands'[t].kind # "generate"
  PROVE  Generating'
  BY GeneratingStep DEF Generates, Rendered

\* What is rendered are pages and tables.
LEMMA RenderedEntries ==
  ASSUME NEW c \in Command
  PROVE  /\ ToRender(c) \in Seq(Entries)
         /\ \A i \in DOMAIN ToRender(c) : ToRender(c)[i].kind \in {"page", "table"}
  <1> DEFINE entries == c.read.entries
             pages == Of("page", entries)
             tables == Of("table", entries)
  <1>1. entries \in Seq(Entries)
    BY DEF Command, Content
  <1>2. pages \in Seq(Entries) /\ ToSet(pages) = ToSet(entries) \cap {e \in ToSet(entries) : e.kind = "page"}
    <2> HIDE DEF entries
    <2> QED
      BY <1>1, AmongElements DEF Of
  <1>3. tables \in Seq(Entries) /\ ToSet(tables) = ToSet(entries) \cap {e \in ToSet(entries) : e.kind = "table"}
    <2> HIDE DEF entries
    <2> QED
      BY <1>1, AmongElements DEF Of
  <1>4. ToRender(c) = pages \o tables
    BY Zenon DEF ToRender, Loaded
  <1> HIDE DEF pages, tables, entries
  <1>5. ToRender(c) \in Seq(Entries) /\ ToSet(ToRender(c)) = ToSet(pages) \cup ToSet(tables)
    BY <1>2, <1>3, <1>4, ElementsOfConcat
  <1>6. \A e \in ToSet(ToRender(c)) : e.kind \in {"page", "table"}
    BY <1>2, <1>3, <1>5
  <1>7. \A i \in DOMAIN ToRender(c) : ToRender(c)[i] \in ToSet(ToRender(c))
    BY Zenon DEF ToSet
  <1> QED
    BY <1>5, <1>6, <1>7

\* The next entry is in its file; those before are, or were replaced by it.
LEMMA RenderGenerating ==
  ASSUME IInv, Generating, NEW t \in Terminals, Render(t)
  PROVE  Generating'
  <1> DEFINE c == commands[t]
             entries == ToRender(c)
             i == c.rendered + 1
             file == FileOf(entries, i)
  <1>1. /\ commands \in [Terminals -> Command] /\ c \in Command /\ c.rendered \in Nat
        /\ entries \in Seq(Entries)
    <2>1. commands \in [Terminals -> Command] /\ c \in Command
      BY DEF IInv, Typed
    <2> QED
      BY <2>1, RenderedEntries DEF Command
  <1>2. /\ c.at = "render" /\ c.kind = "generate" /\ i <= Len(entries)
        /\ files' = [f \in DOMAIN files \cup {file} |-> IF f = file THEN entries[i] ELSE files[f]]
        /\ commands' = [commands EXCEPT ![t].rendered = i]
    BY Zenon DEF Render, At
  <1>3. i \in DOMAIN entries
    BY <1>1, <1>2
  <1>4. /\ commands'[t].kind = "generate" /\ commands'[t].at = "render"
        /\ commands'[t].rendered = i /\ commands'[t].read = c.read /\ Only(t)
    BY <1>1, <1>2 DEF Command, Only
  <1>5. ToRender(commands'[t]) = entries
    BY <1>4, Zenon DEF ToRender, Loaded
  <1>6. "generate" \in Offers[t]
    BY <1>2 DEF Generating
  <1>7. ASSUME Alone(t), NEW j \in 1 .. i PROVE Held(entries, j, files')
    <2>1. Held(entries, i, files')
      <3> HIDE DEF entries, i, file
      <3> QED
        BY <1>2, <1>3 DEF Held, file
    <2>2. CASE FileOf(entries, j) = file
      <3>1. DOMAIN files' = DOMAIN files \cup {file} /\ files'[file] = entries[i]
        BY <1>2, Zenon
      <3> HIDE DEF entries, i
      <3> QED
        BY <1>3, <2>2, <3>1 DEF Held
    <2>3. CASE FileOf(entries, j) # file
      <3>1. j \in 1 .. c.rendered
        <4>1. j # i
          BY <2>3
        <4> QED
          BY <4>1, <1>1
      <3>2. Rendered(t, c, files)
        BY DEF Generating
      <3>3. Held(entries, j, files)
        BY <1>2, <1>7, <3>1, <3>2, Zenon DEF Rendered
      <3>4. /\ DOMAIN files' = DOMAIN files \cup {file}
            /\ \A f \in DOMAIN files : f # file => files'[f] = files[f]
        BY <1>2, Zenon
      <3> HIDE DEF entries, file
      <3> QED
        BY <2>3, <3>3, <3>4 DEF Held
    <2> QED
      BY <2>2, <2>3
  <1>8. Rendered(t, commands'[t], files')
    <2> HIDE DEF entries, i
    <2> QED
      BY <1>4, <1>5, <1>7, Zenon DEF Rendered
  <1>9. Generates(commands'[t])
    BY <1>4 DEF Generates
  <1>10. ASSUME NEW u \in Terminals, u # t, Alone(u) PROVE FALSE
    BY <1>6, <1>10 DEF Alone
  <1>11. ASSUME NEW u \in Terminals
         PROVE  /\ commands'[u].kind = "generate" => "generate" \in Offers[u]
                /\ Generates(commands'[u]) /\ Rendered(u, commands'[u], files')
    <2>1. CASE u = t
      BY <1>4, <1>6, <1>8, <1>9, <2>1
    <2>2. CASE u # t
      <3>1. commands'[u] = commands[u]
        BY <1>4, <2>2 DEF Only
      <3> QED
        BY <1>10, <2>2, <3>1 DEF Generating, Rendered
    <2> QED
      BY <2>1, <2>2
  <1> QED
    BY <1>11, Zenon DEF Generating, Generates, Rendered, ToRender, Loaded

LEMMA NextGenerating == IInv /\ Generating /\ [Next]_vars => Generating'
  <1> SUFFICES ASSUME IInv, Generating, [Next]_vars PROVE Generating'
    OBVIOUS
  <1>0. /\ commands \in [Terminals -> Command]
        /\ \A t \in Terminals : /\ commands[t].kind = "generate" => "generate" \in Offers[t]
                                /\ Generates(commands[t]) /\ Rendered(t, commands[t], files)
    BY DEF IInv, Typed, Generating
  <1>1. ASSUME NEW t \in Terminals, NEW kind \in Kinds, Begin(t, kind) PROVE Generating'
    <2>1. /\ commands'[t].kind = kind /\ kind \in Offers[t]
          /\ commands'[t].at = IF kind \in {"api", "db"} THEN "gather" ELSE "load"
          /\ commands'[t].rendered = 0
          /\ Only(t) /\ files' = files
      BY <1>0, <1>1 DEF Begin, NoCommand, Only
    <2>2. Generates(commands'[t]) /\ Rendered(t, commands'[t], files)
      BY <2>1 DEF Generates, Rendered
    <2> QED
      BY <2>1, <2>2, GeneratingStep
  <1>2. ASSUME NEW t \in Terminals, Fails(t) \/ Killed(t) PROVE Generating'
    <2>1. commands'[t].kind = "ui" /\ Only(t) /\ files' = files
      BY <1>0, <1>2 DEF Fails, Killed, Abort, NoCommand, Only
    <2> QED
      BY <2>1, OtherStep
  <1>3. ASSUME NEW t \in Terminals, Load(t) PROVE Generating'
    <2> DEFINE kind == commands[t].kind
               ok == IsReport(report) \/ (report = Absent /\ kind \in Appending)
               next == CASE kind \in {"ui", "crawl"} -> "crawl"
                         [] kind \in {"api", "db"} -> "save"
                         [] kind \in {"generate", "recommend"} -> "render"
               at == IF ok THEN next ELSE "failed"
               read == IF ok THEN report ELSE commands[t].read
    <2>1. commands' = [commands EXCEPT ![t].read = read, ![t].at = at] /\ At(t, "load") /\ files' = files
      BY <1>3 DEF Load
    <2>2. kind = "generate" => at \in {"render", "failed"}
      OBVIOUS
    <2> HIDE DEF at, read
    <2>3. /\ commands'[t].at = at /\ commands'[t].kind = kind
          /\ commands'[t].rendered = commands[t].rendered /\ Only(t)
      BY <1>0, <2>1 DEF Command, Only
    <2>4. CASE kind = "generate"
      <3>1. commands'[t].rendered = 0
        BY <1>0, <2>1, <2>3, <2>4 DEF Generates, At
      <3>2. Generates(commands'[t]) /\ Rendered(t, commands'[t], files)
        BY <2>2, <2>3, <2>4, <3>1 DEF Generates, Rendered
      <3> QED
        BY <1>0, <2>1, <2>3, <3>2, GeneratingStep
    <2>5. CASE kind # "generate"
      BY <2>1, <2>3, <2>5, OtherStep
    <2> QED
      BY <2>4, <2>5
  <1>4. ASSUME NEW t \in Terminals,
               Gather(t) \/ Visit(t) \/ CrawlEnds(t) \/ Save(t) \/ Fill(t) \/ Recommend(t)
        PROVE  Generating'
    <2>1. commands[t].kind # "generate"
      <3>1. CASE Gather(t)
        BY <1>0, <3>1 DEF Gather, At, Generates
      <3>2. CASE Visit(t)
        BY <1>0, <3>2 DEF Visit, At, Generates
      <3>3. CASE CrawlEnds(t)
        BY <1>0, <3>3 DEF CrawlEnds, At, Generates
      <3>4. CASE Save(t)
        BY <1>0, <3>4 DEF Save, At, Generates
      <3>5. CASE Fill(t)
        BY <1>0, <3>5 DEF Fill, At, Generates
      <3>6. CASE Recommend(t)
        BY <3>6 DEF Recommend
      <3> QED
        BY <1>4, <3>1, <3>2, <3>3, <3>4, <3>5, <3>6
    <2>2. commands'[t].kind = commands[t].kind /\ Only(t) /\ files' = files
      <3>1. CASE Gather(t)
        BY <1>0, <3>1 DEF Gather, Only, Command
      <3>2. CASE Visit(t)
        BY <1>0, <3>2 DEF Visit, Only, Command
      <3>3. CASE CrawlEnds(t)
        BY <1>0, <3>3 DEF CrawlEnds, Set, Only, Command
      <3>4. CASE Save(t)
        BY <1>0, <3>4 DEF Save, Set, Only, Command
      <3>5. CASE Fill(t)
        BY <1>0, <3>5 DEF Fill, Set, Only, Command
      <3>6. CASE Recommend(t)
        BY <1>0, <3>6 DEF Recommend, Set, Only, Command
      <3> QED
        BY <1>4, <3>1, <3>2, <3>3, <3>4, <3>5, <3>6
    <2> QED
      BY <2>1, <2>2, OtherStep
  <1>5. ASSUME NEW t \in Terminals, GenerateEnds(t) PROVE Generating'
    <2>1. /\ commands[t].at = "render" /\ commands[t].kind = "generate"
          /\ commands[t].rendered = Len(ToRender(commands[t]))
          /\ commands' = [commands EXCEPT ![t].at = "done"] /\ files' = files
      BY <1>5 DEF GenerateEnds, Set, At
    <2>2. /\ commands'[t].at = "done" /\ commands'[t].kind = "generate"
          /\ commands'[t].rendered = commands[t].rendered
          /\ commands'[t].read = commands[t].read /\ Only(t)
      BY <1>0, <2>1 DEF Command, Only
    <2>3. ToRender(commands'[t]) = ToRender(commands[t])
      BY <2>2, Zenon DEF ToRender, Loaded
    <2>4. Generates(commands'[t])
      BY <2>1, <2>2, <2>3 DEF Generates
    <2>5. Rendered(t, commands'[t], files)
      BY <1>0, <2>1, <2>2, <2>3 DEF Rendered
    <2> QED
      BY <1>0, <2>1, <2>2, <2>4, <2>5, GeneratingStep
  <1>6. CASE Review \/ UNCHANGED vars
    <2>1. commands' = commands /\ files' = files
      BY <1>6 DEF Review, vars
    <2> QED
      BY <2>1, Zenon DEF Generating, Generates, Rendered, ToRender, Loaded
  <1> QED
    BY <1>1, <1>2, <1>3, <1>4, <1>5, <1>6, RenderGenerating DEF Next

\* No class has the name of a page's, and no two pages have one: the names of
\* the tables are not those that pages are given.
PageNamesApart ==
    \A entries \in Seq({e \in Entries : e.kind \in {"page", "table"}}) :
        \A i, k \in DOMAIN entries :
            entries[i].kind = "page" /\ FileOf(entries, i) = FileOf(entries, k) => i = k

\* After generate, each entry of the report that it loaded is in the file of its
\* class, unless another has a class of the same name but for case: whatever the
\* report holds, and however often it was generated, completed and begun before.
THEOREM EntriesGetFiles ==
  ASSUME PageNamesApart
  PROVE  Spec => []EveryEntryHasItsFile
  <1>1. ASSUME IInv, Generating, NEW t \in Terminals, commands[t].kind = "generate",
               At(t, "done"), Alone(t), NEW i \in DOMAIN ToRender(commands[t])
        PROVE  LET entries == ToRender(commands[t])
               IN  \/ FileOf(entries, i) \in DOMAIN files /\ files[FileOf(entries, i)] = entries[i]
                   \/ entries[i].kind = "table"
                      /\ \E k \in DOMAIN entries :
                            entries[k] # entries[i] /\ FileOf(entries, k) = FileOf(entries, i)
    <2> DEFINE c == commands[t]
               entries == ToRender(c)
    <2>1. c \in Command
      BY <1>1 DEF IInv, Typed
    <2>2. entries \in Seq(Entries) /\ \A k \in DOMAIN entries : entries[k].kind \in {"page", "table"}
      BY <2>1, RenderedEntries
    <2>3. Generates(c) /\ Rendered(t, c, files)
      BY <1>1 DEF Generating
    <2>4. c.rendered = Len(entries)
      BY <1>1, <2>3 DEF Generates, At
    <2>5. \A k \in 1 .. c.rendered : Held(entries, k, files)
      BY <1>1, <2>3 DEF Rendered, At
    <2> HIDE DEF entries, c
    <2>6. i \in DOMAIN entries
      BY <1>1 DEF entries, c
    <2>7. Held(entries, i, files)
      BY <2>2, <2>4, <2>5, <2>6
    <2>8. PICK k \in DOMAIN entries :
            /\ FileOf(entries, k) = FileOf(entries, i)
            /\ FileOf(entries, i) \in DOMAIN files /\ files[FileOf(entries, i)] = entries[k]
      BY <2>7, Zenon DEF Held
    <2>9. CASE entries[k] = entries[i]
      BY <2>8, <2>9 DEF entries, c
    <2>10. CASE entries[k] # entries[i]
      <3> DEFINE shown == {e \in Entries : e.kind \in {"page", "table"}}
      <3>0. entries \in Seq(shown)
        BY <2>2
      <3> HIDE DEF shown
      <3>1. entries[i].kind # "page"
        <4>1. entries[i].kind = "page" /\ FileOf(entries, i) = FileOf(entries, k) => i = k
          BY <3>0, <2>6, Zenon DEF PageNamesApart, shown
        <4> QED
          BY <4>1, <2>8, <2>10
      <3>2. entries[i].kind = "table"
        BY <2>2, <2>6, <3>1
      <3> QED
        BY <2>8, <2>10, <3>2 DEF entries, c
    <2> QED
      BY <2>9, <2>10
  <1>2. IInv /\ Generating => EveryEntryHasItsFile
    BY <1>1, Zenon DEF EveryEntryHasItsFile, Alone
  <1> QED
    BY <1>2, InitInv, NextInv, InitGenerating, NextGenerating, PTL DEF Spec
=============================================================================
