-------------------------- MODULE DoctorRun_proofs --------------------------
(***************************************************************************)
(* What the doctor recommends and writes, and what a process loads, for    *)
(* any machines, files, commands, processes and edits.                     *)
(***************************************************************************)
EXTENDS DoctorRun, SequenceLemmas

-----------------------------------------------------------------------------
(* The lines of a dotenv file. *)

\* The last line of a key says what the key's value is.
LEMMA LastLineCounts ==
  ASSUME NEW S, NEW lines \in Seq(S), NEW key, NEW n \in DOMAIN lines, lines[n].key = key,
         \A m \in DOMAIN lines : lines[m].key = key => m <= n
  PROVE  DotenvValue(lines, key) = lines[n].value
  <1> DEFINE T == {m \in 1 .. Len(lines) : lines[m].key = key}
  <1>1. T \in SUBSET Nat /\ n \in T /\ (\A m \in T : m <= n) /\ n # 0
    OBVIOUS
  <1>2. Max(T) = n
    BY <1>1, GreatestNumber
  <1>3. SelectLastInSeq(lines, LAMBDA line : line.key = key) = IF T # {} THEN Max(T) ELSE 0
    BY Zenon DEF SelectLastInSeq
  <1> HIDE DEF T
  <1>4. SelectLastInSeq(lines, LAMBDA line : line.key = key) = n
    BY <1>1, <1>2, <1>3
  <1> QED
    BY <1>1, <1>4 DEF DotenvValue

\* A file that says nothing of a key, or what the key's line says.
LEMMA AppendedLineCounts ==
  ASSUME NEW S, NEW lines \in Seq(S), NEW line \in S
  PROVE  DotenvValue(Append(lines, line), line.key) = line.value
  <1> DEFINE new == Append(lines, line)
             n == Len(lines) + 1
  <1>1. new \in Seq(S) /\ DOMAIN new = 1 .. n /\ n \in 1 .. n /\ new[n] = line
    OBVIOUS
  <1> HIDE DEF new, n
  <1>2. \A m \in DOMAIN new : m <= n
    BY <1>1
  <1>3. n \in DOMAIN new /\ new[n].key = line.key /\ new[n].value = line.value
    BY <1>1
  <1>4. DotenvValue(new, line.key) = new[n].value
    BY <1>1, <1>2, <1>3, LastLineCounts
  <1> QED
    BY <1>3, <1>4 DEF new

\* What plan_env_change makes of a file.
LEMMA PlanMeans ==
  ASSUME NEW S, NEW lines \in Seq(S), NEW value, NEW force \in BOOLEAN
  PROVE  /\ PlanEnvChange(lines, value, force) \in {"add", "update", "unchanged", "skipped_conflict"}
         /\ PlanEnvChange(lines, value, force) = "update" =>
               force /\ \E n \in DOMAIN lines : IsKeyLine(lines[n], BrowserKey)
         /\ PlanEnvChange(lines, value, force) = "unchanged" =>
               \E n \in DOMAIN lines : IsKeyLine(lines[n], BrowserKey) /\ Reads(lines[n], value)
  <1> DEFINE T == {m \in 1 .. Len(lines) : IsKeyLine(lines[m], BrowserKey)}
             first == SelectInSeq(lines, LAMBDA line : IsKeyLine(line, BrowserKey))
             change == PlanEnvChange(lines, value, force)
  <1>1. first = IF T # {} THEN Min(T) ELSE 0
    BY Zenon DEF SelectInSeq
  <1>2. T \in SUBSET Nat /\ T \subseteq DOMAIN lines /\ 0 \notin T
    OBVIOUS
  <1>3. \A m \in T : IsKeyLine(lines[m], BrowserKey)
    OBVIOUS
  <1>4. change = CASE first = 0 -> "add"
                   [] first # 0 /\ Reads(lines[first], value) -> "unchanged"
                   [] first # 0 /\ ~Reads(lines[first], value) /\ force -> "update"
                   [] OTHER -> "skipped_conflict"
    BY Zenon DEF PlanEnvChange
  <1> HIDE DEF T, first, change
  <1>5. first # 0 => first \in T
    BY <1>1, <1>2, LeastNumber
  <1>6. first # 0 => first \in DOMAIN lines /\ IsKeyLine(lines[first], BrowserKey)
    BY <1>2, <1>3, <1>5
  <1>7. /\ change \in {"add", "update", "unchanged", "skipped_conflict"}
        /\ change = "update" => force /\ first # 0
        /\ change = "unchanged" => first # 0 /\ Reads(lines[first], value)
    BY <1>4
  <1> QED
    BY <1>6, <1>7 DEF change

\* At most one line is about the browser, in whatever form.
Single(lines) ==
    \A m, n \in DOMAIN lines : {lines[m].key, lines[n].key} = {BrowserKey} => m = n
NewLine(browser) == EnvLine(BrowserKey, "plain", browser)

\* What plan_env_change leaves unchanged says the browser already.
LEMMA UnchangedSays ==
  ASSUME NEW S, NEW lines \in Seq(S), NEW browser, Single(lines),
         NEW n \in DOMAIN lines, IsKeyLine(lines[n], BrowserKey), Reads(lines[n], browser)
  PROVE  DotenvValue(lines, BrowserKey) = browser
  <1>1. lines[n].key = BrowserKey /\ lines[n].value = browser
    BY DEF IsKeyLine, Reads
  <1>2. ASSUME NEW m \in DOMAIN lines, lines[m].key = BrowserKey PROVE m <= n
    <2>1. m = n
      BY <1>1, <1>2 DEF Single
    <2> QED
      BY <2>1
  <1> QED
    BY <1>1, <1>2, LastLineCounts

\* What apply_env_change writes: a file of lines again, that keeps each line
\* but those it is to update.
LEMMA AppliedKeeps ==
  ASSUME NEW S, NEW lines \in Seq(S), NEW change, NEW browser, NewLine(browser) \in S
  PROVE  /\ Applied(change, lines, browser) \in Seq(S)
         /\ \A line \in ToSet(lines) :
               ~(change = "update" /\ IsKeyLine(line, BrowserKey))
                 => line \in ToSet(Applied(change, lines, browser))
  <1>1. CASE change # "update"
    <2>1. Applied(change, lines, browser) = Append(lines, NewLine(browser))
      BY <1>1 DEF Applied, NewLine
    <2> QED
      BY <2>1, <1>1, ElementsOfAppend
  <1>2. CASE change = "update"
    <2> DEFINE new == [n \in DOMAIN lines |->
                         IF IsKeyLine(lines[n], BrowserKey) THEN NewLine(browser) ELSE lines[n]]
    <2>1. Applied(change, lines, browser) = new
      BY <1>2 DEF Applied, NewLine
    <2>2. new \in Seq(S) /\ DOMAIN new = DOMAIN lines
      OBVIOUS
    <2>3. ASSUME NEW n \in DOMAIN lines, ~IsKeyLine(lines[n], BrowserKey)
          PROVE  new[n] = lines[n]
      BY <2>3
    <2> HIDE DEF new
    <2>4. ASSUME NEW line \in ToSet(lines), ~IsKeyLine(line, BrowserKey) PROVE line \in ToSet(new)
      <3>1. PICK n \in DOMAIN lines : line = lines[n]
        BY DEF ToSet
      <3>2. n \in DOMAIN new /\ new[n] = line
        BY <2>2, <2>3, <2>4, <3>1
      <3> QED
        BY <3>2 DEF ToSet
    <2> QED
      BY <1>2, <2>1, <2>2, <2>4
  <1> QED
    BY <1>1, <1>2

\* What apply_env_change writes says the browser, when at most one line did.
LEMMA AppliedSays ==
  ASSUME NEW S, NEW lines \in Seq(S), NEW change \in {"add", "update"}, NEW browser,
         NewLine(browser) \in S, Single(lines),
         change = "update" => \E n \in DOMAIN lines : IsKeyLine(lines[n], BrowserKey)
  PROVE  DotenvValue(Applied(change, lines, browser), BrowserKey) = browser
  <1>0. NewLine(browser).key = BrowserKey /\ NewLine(browser).value = browser
    BY DEF NewLine, EnvLine
  <1>1. CASE change = "add"
    <2>1. Applied(change, lines, browser) = Append(lines, NewLine(browser))
      BY <1>1 DEF Applied, NewLine
    <2> QED
      BY <2>1, <1>0, AppendedLineCounts
  <1>2. CASE change = "update"
    <2> DEFINE new == [n \in DOMAIN lines |->
                         IF IsKeyLine(lines[n], BrowserKey) THEN NewLine(browser) ELSE lines[n]]
    <2>1. Applied(change, lines, browser) = new
      BY <1>2 DEF Applied, NewLine
    <2>2. PICK n \in DOMAIN lines : IsKeyLine(lines[n], BrowserKey)
      BY <1>2
    <2>3. lines[n].key = BrowserKey
      BY <2>2 DEF IsKeyLine
    <2>4. new \in Seq(S) /\ DOMAIN new = DOMAIN lines /\ new[n] = NewLine(browser)
      BY <2>2
    <2>5. ASSUME NEW m \in DOMAIN new, new[m].key = BrowserKey PROVE m <= n
      <3>1. lines[m].key = BrowserKey
        BY <2>5 DEF IsKeyLine
      <3>2. m = n
        BY <2>3, <2>4, <2>5, <3>1 DEF Single
      <3> QED
        BY <3>2, <2>4
    <2> HIDE DEF new
    <2>6. DotenvValue(new, BrowserKey) = new[n].value
      BY <1>0, <2>4, <2>5, LastLineCounts
    <2> QED
      BY <1>0, <2>1, <2>4, <2>6
  <1> QED
    BY <1>1, <1>2

\* A variable that is set stays as it is, one that is not takes the file's value.
LEMMA Loading ==
  ASSUME NEW environ, NEW lines
  PROVE  /\ DOMAIN LoadDotenv(environ, lines) = DOMAIN environ
         /\ \A key \in DOMAIN environ :
               LoadDotenv(environ, lines)[key]
                 = IF environ[key] = Unset THEN DotenvValue(lines, key) ELSE environ[key]
  BY DEF LoadDotenv

-----------------------------------------------------------------------------
(* The recommendation. *)

BrowserNames == {Requirement[type] : type \in BrowserTypes}
OtherNames ==
    {"Operating System", "Architecture", "Python", "Virtual Environment", "Poetry", "node", "npm", "npx",
     "Firefox", "FFmpeg", "Docker", "Docker Daemon", "Docker Compose", "Git", "Git Repository", "Working Tree"}
Known ==
    [name : BrowserNames \cup OtherNames, category : ToSet(Categories), available : BOOLEAN,
     required : BOOLEAN, status : {"available", "missing", "degraded", "not_required"}]
Neutral == {c \in Known : c.name \in OtherNames}

\* The browsers and the capabilities that the table asks for.
LEMMA Requirements ==
    /\ BrowserTypes = {"chromium", "edge", "chrome", "firefox", "safari"}
    /\ BrowserNames = {"Playwright Chromium", "Microsoft Edge", "Google Chrome",
                       "Playwright Firefox", "Playwright WebKit"}
    /\ Requirement["chromium"] = "Playwright Chromium" /\ Requirement["edge"] = "Microsoft Edge"
    /\ Requirement["chrome"] = "Google Chrome" /\ Requirement["firefox"] = "Playwright Firefox"
    /\ Requirement["safari"] = "Playwright WebKit"
    /\ BrowserNames \cap OtherNames = {}
  <1>1. BrowserTypes = {"chromium", "edge", "chrome", "firefox", "safari"}
    BY DEF BrowserTypes, Requirement
  <1>2. /\ Requirement["chromium"] = "Playwright Chromium" /\ Requirement["edge"] = "Microsoft Edge"
        /\ Requirement["chrome"] = "Google Chrome" /\ Requirement["firefox"] = "Playwright Firefox"
        /\ Requirement["safari"] = "Playwright WebKit"
    BY DEF Requirement
  <1>3. BrowserNames = {"Playwright Chromium", "Microsoft Edge", "Google Chrome",
                        "Playwright Firefox", "Playwright WebKit"}
    BY <1>1, <1>2 DEF BrowserNames
  <1>4. BrowserNames \cap OtherNames = {}
    BY <1>3 DEF OtherNames
  <1> QED
    BY <1>1, <1>2, <1>3, <1>4

\* What a probe says of a capability.
LEMMA AKnown ==
  ASSUME NEW name \in BrowserNames \cup OtherNames, NEW category \in ToSet(Categories),
         NEW available \in BOOLEAN, NEW required \in BOOLEAN,
         NEW status \in {"available", "missing", "degraded", "not_required"}
  PROVE  /\ Capability(name, category, available, required, status) \in Known
         /\ Capability(name, category, available, required, status).name = name
         /\ Capability(name, category, available, required, status).available = available
         /\ name \in OtherNames => Capability(name, category, available, required, status) \in Neutral
  <1> DEFINE c == Capability(name, category, available, required, status)
  <1>1. c \in Known
    BY DEF Capability, Known
  <1>2. c.name = name /\ c.available = available
    BY DEF Capability
  <1> HIDE DEF c
  <1>3. name \in OtherNames => c \in Neutral
    BY <1>1, <1>2 DEF Neutral
  <1> QED
    BY <1>1, <1>2, <1>3 DEF c

\* What Found says is there or missing.
LEMMA AFound ==
  ASSUME NEW name \in BrowserNames \cup OtherNames, NEW category \in ToSet(Categories),
         NEW available \in BOOLEAN
  PROVE  /\ Found(name, category, available) \in Known
         /\ Found(name, category, available).name = name
         /\ Found(name, category, available).available = available
         /\ name \in OtherNames => Found(name, category, available) \in Neutral
  <1> DEFINE status == IF available THEN "available" ELSE "missing"
             required == FALSE
             c == Capability(name, category, available, required, status)
  <1>1. status \in {"available", "missing", "degraded", "not_required"} /\ required \in BOOLEAN
    OBVIOUS
  <1>2. Found(name, category, available) = c
    BY Zenon DEF Found
  <1> HIDE DEF status, required
  <1>3. c \in Known /\ c.name = name /\ c.available = available /\ (name \in OtherNames => c \in Neutral)
    BY <1>1, AKnown
  <1> HIDE DEF c
  <1> QED
    BY <1>2, <1>3

\* The probes other than detect_browsers say nothing of a browser.
LEMMA OtherProbes ==
  ASSUME NEW machine \in Machines
  PROVE  /\ DetectOperatingSystem(machine) \in Seq(Neutral) /\ DetectPython(machine) \in Seq(Neutral)
         /\ DetectNode(machine) \in Seq(Neutral) /\ DetectFFmpeg(machine) \in Seq(Neutral)
         /\ DetectDocker(machine) \in Seq(Neutral) /\ DetectGit(machine) \in Seq(Neutral)
  <1>0. machine.venv \in BOOLEAN /\ machine.daemon \in BOOLEAN
    BY MachinesAssumption
  <1>1. \A name \in OtherNames, category \in ToSet(Categories), available \in BOOLEAN :
            Found(name, category, available) \in Neutral
    BY AFound
  <1>2. \A name \in OtherNames, category \in ToSet(Categories), available \in BOOLEAN,
           required \in BOOLEAN, status \in {"available", "missing", "degraded", "not_required"} :
            Capability(name, category, available, required, status) \in Neutral
    BY AKnown
  <1>3. ToSet(Categories) = {"operating_system", "python", "node", "browser", "ffmpeg", "docker", "git"}
    BY DEF ToSet, Categories
  <1> DEFINE Sees(command) == command \in machine.commands
  <1>10. \A command : Sees(command) \in BOOLEAN
    OBVIOUS
  <1> HIDE DEF Sees
  <1>4. DetectOperatingSystem(machine) \in Seq(Neutral)
    <2> DEFINE a == Capability("Operating System", "operating_system", TRUE, TRUE, "available")
               b == Capability("Architecture", "operating_system", TRUE, FALSE, "available")
    <2>1. a \in Neutral /\ b \in Neutral
      BY <1>2, <1>3 DEF OtherNames
    <2>2. DetectOperatingSystem(machine) = <<a, b>>
      BY Zenon DEF DetectOperatingSystem
    <2> HIDE DEF a, b
    <2> QED
      BY <2>1, <2>2
  <1>5. DetectPython(machine) \in Seq(Neutral)
    <2> DEFINE status == IF machine.venv THEN "available" ELSE "not_required"
               a == Capability("Python", "python", TRUE, TRUE, "available")
               b == Capability("Virtual Environment", "python", machine.venv, FALSE, status)
               c == Found("Poetry", "python", Sees("poetry"))
    <2>1. a \in Neutral
      BY <1>2, <1>3 DEF OtherNames
    <2>2. b \in Neutral
      BY <1>0, <1>2, <1>3 DEF OtherNames
    <2>3. c \in Neutral
      BY <1>1, <1>3, <1>10 DEF OtherNames
    <2>4. DetectPython(machine) = <<a, b, c>>
      BY Zenon DEF DetectPython, Sees
    <2> HIDE DEF a, b, c
    <2> QED
      BY <2>1, <2>2, <2>3, <2>4
  <1>6. DetectNode(machine) \in Seq(Neutral)
    <2> DEFINE tools == <<"node", "npm", "npx">>
               Tool(n) == Found(tools[n], "node", Sees(tools[n]))
    <2>1. \A n \in 1 .. 3 : tools[n] \in OtherNames
      <3>1. tools[1] \in OtherNames /\ tools[2] \in OtherNames /\ tools[3] \in OtherNames
        BY DEF OtherNames
      <3>2. \A n \in 1 .. 3 : n = 1 \/ n = 2 \/ n = 3
        OBVIOUS
      <3> HIDE DEF tools
      <3> QED
        BY <3>1, <3>2
    <2>2. "node" \in ToSet(Categories)
      BY <1>3
    <2>3. DetectNode(machine) = [n \in DOMAIN tools |-> Tool(n)] /\ DOMAIN tools = 1 .. 3
      BY DEF DetectNode, Sees
    <2> HIDE DEF tools
    <2>4. \A n \in 1 .. 3 : Tool(n) \in Neutral
      BY <1>1, <1>10, <2>1, <2>2
    <2> HIDE DEF Tool
    <2> QED
      BY <2>3, <2>4, IsASeq
  <1>7. DetectFFmpeg(machine) \in Seq(Neutral)
    <2> DEFINE a == Found("FFmpeg", "ffmpeg", Sees("ffmpeg"))
    <2>1. a \in Neutral
      BY <1>1, <1>3, <1>10 DEF OtherNames
    <2>2. DetectFFmpeg(machine) = <<a>>
      BY Zenon DEF DetectFFmpeg, Sees
    <2> HIDE DEF a
    <2> QED
      BY <2>1, <2>2
  <1>8. DetectDocker(machine) \in Seq(Neutral)
    <2> DEFINE status == IF machine.daemon THEN "available" ELSE "degraded"
               a == Found("Docker", "docker", Sees("docker"))
               b == Capability("Docker Daemon", "docker", machine.daemon, FALSE, status)
               c == Found("Docker Compose", "docker", Prints(machine.compose))
               rest == IF ~Sees("docker") THEN <<>> ELSE <<b, c>>
    <2>1. a \in Neutral
      BY <1>1, <1>3, <1>10 DEF OtherNames
    <2>2. b \in Neutral
      BY <1>0, <1>2, <1>3 DEF OtherNames
    <2>3. c \in Neutral
      BY <1>1, <1>3 DEF OtherNames, Prints
    <2>4. DetectDocker(machine) = <<a>> \o rest
      BY Zenon DEF DetectDocker, Sees
    <2> HIDE DEF a, b, c
    <2>5. rest \in Seq(Neutral) /\ <<a>> \in Seq(Neutral)
      BY <2>1, <2>2, <2>3
    <2> HIDE DEF rest
    <2> QED
      BY <2>4, <2>5
  <1>9. DetectGit(machine) \in Seq(Neutral)
    <2> DEFINE git == Sees("git")
               inside == machine.repository # "none"
               clean == machine.repository # "dirty"
               a == Found("Git", "git", git)
               b == Capability("Git Repository", "git", inside, FALSE,
                               IF inside THEN "available" ELSE "not_required")
               c == Capability("Working Tree", "git", clean, FALSE,
                               IF clean THEN "available" ELSE "degraded")
               second == IF git THEN <<b>> ELSE <<>>
               third == IF git /\ inside THEN <<c>> ELSE <<>>
    <2>1. a \in Neutral
      BY <1>1, <1>3, <1>10 DEF OtherNames
    <2>2. b \in Neutral
      BY <1>2, <1>3 DEF OtherNames
    <2>3. c \in Neutral
      BY <1>2, <1>3 DEF OtherNames
    <2>4. DetectGit(machine) = <<a>> \o second \o third
      BY Zenon DEF DetectGit, Sees
    <2> HIDE DEF a, b, c
    <2>5. second \in Seq(Neutral) /\ third \in Seq(Neutral) /\ <<a>> \in Seq(Neutral)
      BY <2>1, <2>2, <2>3
    <2> HIDE DEF second, third
    <2> QED
      BY <2>4, <2>5
  <1> QED
    BY <1>4, <1>5, <1>6, <1>7, <1>8, <1>9

\* Where detect_browsers finds the browser that a type needs.
SystemHas(machine, app, candidates) ==
    \/ machine.system \in {"Windows", "macOS"} /\ app \in machine.apps
    \/ machine.system = "Linux" /\ candidates \cap machine.commands # {}
Downloaded(machine, engine) == machine.playwright /\ engine \in machine.engines
Seen(machine, type) ==
    \/ type = "chromium" /\ Downloaded(machine, "chromium")
    \/ type = "firefox" /\ Downloaded(machine, "firefox")
    \/ type = "safari" /\ Downloaded(machine, "webkit")
    \/ type = "edge" /\ SystemHas(machine, "Microsoft Edge", EdgeCandidates)
    \/ type = "chrome" /\ SystemHas(machine, "Google Chrome", ChromeCandidates)

\* detect_browsers says that a browser is available where it is seen on the machine.
LEMMA BrowserProbes ==
  ASSUME NEW machine \in Machines
  PROVE  /\ DetectBrowsers(machine) \in Seq(Known)
         /\ \A c \in ToSet(DetectBrowsers(machine)), type \in BrowserTypes :
               c.name = Requirement[type] /\ c.available => Seen(machine, type)
         /\ \A type \in BrowserTypes : Seen(machine, type) =>
               \E c \in ToSet(DetectBrowsers(machine)) : c.name = Requirement[type] /\ c.available
  <1> DEFINE Edge == SystemHas(machine, "Microsoft Edge", EdgeCandidates)
             Chrome == SystemHas(machine, "Google Chrome", ChromeCandidates)
             Firefox == SystemHas(machine, "Firefox", FirefoxCandidates)
             Down(engine) == Downloaded(machine, engine)
             a == Found("Microsoft Edge", "browser", Edge)
             b == Found("Google Chrome", "browser", Chrome)
             c == Found("Firefox", "browser", Firefox)
             d == Found("Playwright Chromium", "browser", Down("chromium"))
             e == Found("Playwright Firefox", "browser", Down("firefox"))
             f == Found("Playwright WebKit", "browser", Down("webkit"))
  <1>1. DetectBrowsers(machine) = <<a, b, c, d, e, f>>
    BY Zenon DEF DetectBrowsers, SystemBrowser, ManagedBrowser, SystemHas, Downloaded
  <1>2. /\ Edge \in BOOLEAN /\ Chrome \in BOOLEAN /\ Firefox \in BOOLEAN
        /\ \A engine : Down(engine) \in BOOLEAN
    BY DEF SystemHas, Downloaded
  <1> HIDE DEF Edge, Chrome, Firefox, Down
  <1>3. "browser" \in ToSet(Categories)
    BY DEF ToSet, Categories
  <1>10. {"Microsoft Edge", "Google Chrome", "Firefox", "Playwright Chromium", "Playwright Firefox",
          "Playwright WebKit"} \subseteq BrowserNames \cup OtherNames
    BY Requirements DEF OtherNames
  <1>11. ASSUME NEW name \in {"Microsoft Edge", "Google Chrome", "Firefox", "Playwright Chromium",
                              "Playwright Firefox", "Playwright WebKit"}, NEW found \in BOOLEAN
         PROVE  LET k == Found(name, "browser", found)
                IN  k \in Known /\ k.name = name /\ k.available = found
    BY <1>3, <1>10, AFound
  <1>4. /\ a \in Known /\ a.name = "Microsoft Edge" /\ a.available = Edge
        /\ b \in Known /\ b.name = "Google Chrome" /\ b.available = Chrome
    <2>1. a \in Known /\ a.name = "Microsoft Edge" /\ a.available = Edge
      BY <1>2, <1>11, Zenon
    <2>2. b \in Known /\ b.name = "Google Chrome" /\ b.available = Chrome
      BY <1>2, <1>11, Zenon
    <2> QED
      BY <2>1, <2>2, Zenon
  <1>5. c \in Known /\ c.name = "Firefox"
    BY <1>2, <1>11, Zenon
  <1>6. /\ d \in Known /\ d.name = "Playwright Chromium" /\ d.available = Down("chromium")
        /\ e \in Known /\ e.name = "Playwright Firefox" /\ e.available = Down("firefox")
        /\ f \in Known /\ f.name = "Playwright WebKit" /\ f.available = Down("webkit")
    <2>1. Down("chromium") \in BOOLEAN /\ Down("firefox") \in BOOLEAN /\ Down("webkit") \in BOOLEAN
      BY <1>2, Zenon
    <2>2. d \in Known /\ d.name = "Playwright Chromium" /\ d.available = Down("chromium")
      BY <2>1, <1>11, Zenon
    <2>3. e \in Known /\ e.name = "Playwright Firefox" /\ e.available = Down("firefox")
      BY <2>1, <1>11, Zenon
    <2>4. f \in Known /\ f.name = "Playwright WebKit" /\ f.available = Down("webkit")
      BY <2>1, <1>11, Zenon
    <2> QED
      BY <2>2, <2>3, <2>4, Zenon
  <1> HIDE DEF a, b, c, d, e, f
  <1>7. DetectBrowsers(machine) \in Seq(Known)
    <2>1. <<a, b, c, d, e, f>> \in Seq({a, b, c, d, e, f})
      OBVIOUS
    <2>2. {a, b, c, d, e, f} \subseteq Known
      BY <1>4, <1>5, <1>6
    <2> QED
      BY <1>1, <2>1, <2>2, SeqMonotonic
  <1>8. ToSet(DetectBrowsers(machine)) = {a, b, c, d, e, f}
    BY <1>1 DEF ToSet
  <1>9. ASSUME NEW k \in {a, b, c, d, e, f}, NEW type \in BrowserTypes,
               k.name = Requirement[type], k.available
        PROVE  Seen(machine, type)
    <2>1. CASE k = a
      <3>1. type = "edge" /\ Edge
        BY <2>1, <1>4, <1>9, Requirements
      <3> QED
        BY <3>1 DEF Seen, Edge
    <2>2. CASE k = b
      <3>1. type = "chrome" /\ Chrome
        BY <2>2, <1>4, <1>9, Requirements
      <3> QED
        BY <3>1 DEF Seen, Chrome
    <2>3. CASE k = c
      BY <2>3, <1>5, <1>9, Requirements
    <2>4. CASE k = d
      <3>1. type = "chromium" /\ Down("chromium")
        BY <2>4, <1>6, <1>9, Requirements
      <3> QED
        BY <3>1 DEF Seen, Down
    <2>5. CASE k = e
      <3>1. type = "firefox" /\ Down("firefox")
        BY <2>5, <1>6, <1>9, Requirements
      <3> QED
        BY <3>1 DEF Seen, Down
    <2>6. CASE k = f
      <3>1. type = "safari" /\ Down("webkit")
        BY <2>6, <1>6, <1>9, Requirements
      <3> QED
        BY <3>1 DEF Seen, Down
    <2> QED
      BY <1>9, <2>1, <2>2, <2>3, <2>4, <2>5, <2>6
  <1>12. ASSUME NEW type \in BrowserTypes, Seen(machine, type)
         PROVE  \E k \in {a, b, c, d, e, f} : k.name = Requirement[type] /\ k.available
    <2>1. \/ type = "chromium" /\ Down("chromium")
          \/ type = "firefox" /\ Down("firefox")
          \/ type = "safari" /\ Down("webkit")
          \/ type = "edge" /\ Edge
          \/ type = "chrome" /\ Chrome
      BY <1>12 DEF Seen, Down, Edge, Chrome
    <2> QED
      BY <2>1, <1>4, <1>6, Requirements
  <1> QED
    BY <1>7, <1>8, <1>9, <1>12

\* The browsers that all the probes together call available are those that are
\* seen on the machine.
LEMMA AvailableIsSeen ==
  ASSUME NEW machine \in Machines
  PROVE  /\ DetectAll(machine) \in Seq(Known)
         /\ \A type \in BrowserTypes : IsAvailable(type, DetectAll(machine)) <=> Seen(machine, type)
  <1> DEFINE a == DetectOperatingSystem(machine)
             b == DetectPython(machine)
             c == DetectNode(machine)
             d == DetectBrowsers(machine)
             e == DetectFFmpeg(machine)
             f == DetectDocker(machine)
             g == DetectGit(machine)
  <1>1. /\ a \in Seq(Neutral) /\ b \in Seq(Neutral) /\ c \in Seq(Neutral)
        /\ e \in Seq(Neutral) /\ f \in Seq(Neutral) /\ g \in Seq(Neutral)
    BY OtherProbes
  <1>2. /\ d \in Seq(Known)
        /\ \A k \in ToSet(d), type \in BrowserTypes :
              k.name = Requirement[type] /\ k.available => Seen(machine, type)
        /\ \A type \in BrowserTypes : Seen(machine, type) =>
              \E k \in ToSet(d) : k.name = Requirement[type] /\ k.available
    BY BrowserProbes
  <1>3. DetectAll(machine) = a \o b \o c \o d \o e \o f \o g
    BY DEF DetectAll
  <1> HIDE DEF a, b, c, d, e, f, g
  <1>4. \A s \in Seq(Neutral) : s \in Seq(Known) /\ ToSet(s) \subseteq Neutral
    <2>1. Neutral \subseteq Known
      BY DEF Neutral
    <2> QED
      BY <2>1, SeqMonotonic DEF ToSet
  <1>5. /\ a \in Seq(Known) /\ b \in Seq(Known) /\ c \in Seq(Known)
        /\ e \in Seq(Known) /\ f \in Seq(Known) /\ g \in Seq(Known)
        /\ ToSet(a) \cup ToSet(b) \cup ToSet(c) \cup ToSet(e) \cup ToSet(f) \cup ToSet(g) \subseteq Neutral
    BY <1>1, <1>4
  <1>6. ASSUME NEW s \in Seq(Known), NEW t \in Seq(Known),
               ToSet(s) \cup ToSet(t) \subseteq Neutral \cup ToSet(d)
        PROVE  s \o t \in Seq(Known) /\ ToSet(s \o t) \subseteq Neutral \cup ToSet(d)
    <2>1. s \o t \in Seq(Known) /\ ToSet(s \o t) \subseteq ToSet(s) \cup ToSet(t)
      BY ElementsOfConcat
    <2> QED
      BY <1>6, <2>1
  <1> DEFINE Good(s) == s \in Seq(Known) /\ ToSet(s) \subseteq Neutral \cup ToSet(d)
  <1>7. \A s, t : Good(s) /\ Good(t) => Good(s \o t)
    BY <1>6
  <1>8. Good(a) /\ Good(b) /\ Good(c) /\ Good(d) /\ Good(e) /\ Good(f) /\ Good(g)
    BY <1>2, <1>5
  <1> HIDE DEF Good
  <1>9. Good(a \o b \o c \o d)
    BY <1>7, <1>8, Zenon
  <1>10. Good(a \o b \o c \o d \o e \o f \o g)
    BY <1>7, <1>8, <1>9, Zenon
  <1>12. DetectAll(machine) \in Seq(Known) /\ ToSet(DetectAll(machine)) \subseteq Neutral \cup ToSet(d)
    BY <1>3, <1>10 DEF Good
  <1>13. ASSUME NEW type \in BrowserTypes, IsAvailable(type, DetectAll(machine))
         PROVE  Seen(machine, type)
    <2>1. PICK k \in ToSet(DetectAll(machine)) : k.name = Requirement[type] /\ k.available
      BY <1>13 DEF IsAvailable
    <2>2. k \notin Neutral
      BY <2>1, Requirements DEF Neutral, BrowserNames
    <2> QED
      BY <2>1, <2>2, <1>2, <1>12
  <1>14. ToSet(d) \subseteq ToSet(DetectAll(machine))
    <2>1. \A s \in Seq(Known), t \in Seq(Known) :
             s \o t \in Seq(Known) /\ ToSet(s \o t) = ToSet(s) \cup ToSet(t)
      BY ElementsOfConcat
    <2>2. a \o b \in Seq(Known) /\ a \o b \o c \in Seq(Known)
      BY <1>2, <1>5, <2>1, Zenon
    <2>3. a \o b \o c \o d \in Seq(Known) /\ ToSet(d) \subseteq ToSet(a \o b \o c \o d)
      BY <1>2, <2>1, <2>2
    <2>4. a \o b \o c \o d \o e \in Seq(Known) /\ ToSet(d) \subseteq ToSet(a \o b \o c \o d \o e)
      BY <1>5, <2>1, <2>3
    <2>5. a \o b \o c \o d \o e \o f \in Seq(Known) /\ ToSet(d) \subseteq ToSet(a \o b \o c \o d \o e \o f)
      BY <1>5, <2>1, <2>4
    <2> DEFINE before == a \o b \o c \o d \o e \o f
    <2>6. ToSet(before \o g) = ToSet(before) \cup ToSet(g)
      BY <1>5, <2>1, <2>5
    <2>7. DetectAll(machine) = before \o g
      BY <1>3, Zenon
    <2> QED
      BY <2>5, <2>6, <2>7
  <1>15. \A type \in BrowserTypes : Seen(machine, type) => IsAvailable(type, DetectAll(machine))
    BY <1>2, <1>14 DEF IsAvailable
  <1> QED
    BY <1>12, <1>13, <1>15

\* What recommend_browser returns is available, and what was asked for, if anything was.
LEMMA Recommendation ==
  ASSUME NEW capabilities, NEW requested \in BrowserTypes \cup {None},
         RecommendBrowser(capabilities, requested) # None
  PROVE  /\ RecommendBrowser(capabilities, requested) \in BrowserTypes
         /\ IsAvailable(RecommendBrowser(capabilities, requested), capabilities)
         /\ requested \in {None, RecommendBrowser(capabilities, requested)}
  <1> DEFINE order == IF requested = None THEN Priority ELSE <<requested>>
             T == {n \in 1 .. Len(order) : IsAvailable(order[n], capabilities)}
             first == SelectInSeq(order, LAMBDA type : IsAvailable(type, capabilities))
             browser == RecommendBrowser(capabilities, requested)
  <1>1. browser = IF first = 0 THEN None ELSE order[first]
    BY Zenon DEF RecommendBrowser
  <1>2. first = IF T # {} THEN Min(T) ELSE 0
    BY Zenon DEF SelectInSeq
  <1>3. order \in Seq(BrowserTypes) /\ \A n \in 1 .. Len(order) : requested \in {None, order[n]}
    <2>1. CASE requested = None
      <3>1. Priority \in Seq(BrowserTypes)
        <4>1. Priority \in Seq({"chromium", "edge", "chrome", "firefox", "safari"})
          BY DEF Priority
        <4> QED
          BY <4>1, Requirements
      <3> QED
        BY <3>1, <2>1
    <2>2. CASE requested # None
      BY <2>2
    <2> QED
      BY <2>1, <2>2
  <1>4. T \in SUBSET Nat /\ \A n \in T : n \in 1 .. Len(order) /\ IsAvailable(order[n], capabilities)
    BY <1>3
  <1> HIDE DEF T, first, order, browser
  <1>5. first # 0 => first \in T
    BY <1>2, <1>4, LeastNumber
  <1>6. first # 0
    BY <1>1 DEF browser
  <1>7. first \in 1 .. Len(order) /\ browser = order[first] /\ IsAvailable(order[first], capabilities)
    BY <1>1, <1>4, <1>5, <1>6
  <1>8. order[first] \in BrowserTypes /\ requested \in {None, order[first]}
    BY <1>3, <1>7
  <1> QED
    BY <1>7, <1>8 DEF browser

\* When recommend_browser returns none, nothing that was asked for is available.
LEMMA NoRecommendation ==
  ASSUME NEW capabilities, NEW requested \in BrowserTypes \cup {None},
         RecommendBrowser(capabilities, requested) = None,
         NEW type \in BrowserTypes, requested \in {None, type}
  PROVE  ~IsAvailable(type, capabilities)
  <1> DEFINE order == IF requested = None THEN Priority ELSE <<requested>>
             T == {n \in 1 .. Len(order) : IsAvailable(order[n], capabilities)}
             first == SelectInSeq(order, LAMBDA t : IsAvailable(t, capabilities))
  <1>1. None = IF first = 0 THEN None ELSE order[first]
    BY Zenon DEF RecommendBrowser
  <1>2. first = IF T # {} THEN Min(T) ELSE 0
    BY Zenon DEF SelectInSeq
  <1>3. order \in Seq(BrowserTypes) /\ \E n \in 1 .. Len(order) : order[n] = type
    <2>1. CASE requested = None
      <3>1. /\ Priority \in Seq({"chromium", "edge", "chrome", "firefox", "safari"})
            /\ \A t \in {"chromium", "edge", "chrome", "firefox", "safari"} :
                  \E n \in 1 .. Len(Priority) : Priority[n] = t
        BY DEF Priority
      <3> QED
        BY <3>1, <2>1, Requirements
    <2>2. CASE requested # None
      BY <2>2
    <2> QED
      BY <2>1, <2>2
  <1>4. T \in SUBSET Nat /\ \A n \in T : n \in 1 .. Len(order) /\ n # 0
    BY <1>3
  <1>5. (\A n \in 1 .. Len(order) : n \notin T) => ~IsAvailable(type, capabilities)
    BY <1>3
  <1> HIDE DEF T, first, order
  <1>6. T # {} => first \in T
    BY <1>2, <1>4, LeastNumber
  <1>7. None \notin BrowserTypes
    BY Requirements DEF None
  <1>8. T = {}
    <2>1. SUFFICES ASSUME T # {} PROVE FALSE
      OBVIOUS
    <2>2. first \in 1 .. Len(order) /\ first # 0
      BY <1>4, <1>6, <2>1
    <2>3. order[first] \in BrowserTypes
      BY <1>3, <2>2
    <2> QED
      BY <1>1, <1>7, <2>2, <2>3
  <1> QED
    BY <1>5, <1>8

-----------------------------------------------------------------------------
(* The invariant. *)

Lines == UserLines \cup {NewLine(browser) : browser \in BrowserTypes}
Options ==
    [browser : BrowserTypes \cup {None}, fix : BOOLEAN, dryRun : BOOLEAN, force : BOOLEAN, report : BOOLEAN]
Reports == [browser : BrowserTypes \cup {None}, capabilities : Seq(Known)]
Job ==
    [at : Stages, options : Options, report : Reports, on : SUBSET Machines,
     change : {None, "add", "update", "unchanged", "skipped_conflict"}, lines : Seq(Lines),
     quiet : BOOLEAN, exit : {None, "0", "1", "3", "traceback", "killed"}]

Typed ==
    /\ host \in Machines /\ dotenv \in Seq(Lines) /\ mine \subseteq UserLines
    /\ excuse \in BOOLEAN /\ job \in [Jobs -> Job]

\* A command that plans has a browser, one that goes on has decided to write,
\* and updates only what it is forced to; what it recommends is what it probed.
Committed(r) ==
    /\ r.at \in {"plan", "apply", "open", "write"} => r.report.browser \in BrowserTypes
    /\ r.at \in {"apply", "open", "write"} =>
          /\ r.change \in {"add", "update"} /\ ~r.options.dryRun
          /\ r.change = "update" => r.options.force
    /\ r.at # "idle" =>
          /\ \A machine \in r.on : r.report.browser = RecommendBrowser(DetectAll(machine), r.options.browser)
          /\ r.report.browser # None => r.options.browser \in {None, r.report.browser}

\* While there is no excuse, one command at most is between its second reading
\* and its writing, and has the user's lines in memory.
OneWriter == ~excuse => \A j, k \in Jobs : Writing(j) /\ Writing(k) => j = k
Remembered == ~excuse => \A j \in Jobs : Writing(j) => mine \subseteq ToSet(job[j].lines)

\* What a command can still promise, as nobody has touched the file since its
\* plan: at apply of the file, later of the lines it holds, in the end of the file.
Updatable(r, lines) ==
    Single(lines) /\ (r.change = "update" => \E n \in DOMAIN lines : IsKeyLine(lines[n], BrowserKey))
Kept(r, lines) ==
    r.change \in {"add", "update", "unchanged"} /\ ~r.options.dryRun =>
        r.report.browser \in BrowserTypes /\ DotenvValue(lines, BrowserKey) = r.report.browser
Promised(r, lines) ==
    r.quiet =>
        /\ r.at # "plan"
        /\ r.at = "apply" => Updatable(r, lines)
        /\ r.at \in {"open", "write"} => Updatable(r, r.lines)
        /\ r.at \in {"save", "idle"} => Kept(r, lines)

DInv ==
    /\ Typed
    /\ \A j \in Jobs : Committed(job[j]) /\ Promised(job[j], dotenv)
    /\ OneWriter /\ Remembered /\ UserLinesSurvive

\* A process has what the shell gave it, in its environment and in each cached answer.
Gives(r) ==
    /\ {BrowserKey, EnvKey} \subseteq DOMAIN r.environ
    /\ r.shell # Unset => /\ r.environ[BrowserKey] = r.shell
                          /\ \A k \in DOMAIN r.cache : r.cache[k] = r.shell
Parts == {"running", "shell", "environ", "cache"}
Process(r) ==
    /\ DOMAIN r = Parts /\ DOMAIN r.cache \subseteq Arguments
    /\ \A k \in DOMAIN r.cache : r.cache[k] \in BrowserTypes
    /\ r.running => Gives(r)
PInv == /\ process = [p \in Processes |-> process[p]]
        /\ \A p \in Processes : Process(process[p])

-----------------------------------------------------------------------------
(* The steps that preserve it. *)

\* A report is one, whatever was asked for.
LEMMA AReport ==
  ASSUME NEW machine \in Machines, NEW requested \in BrowserTypes \cup {None}
  PROVE  /\ BuildReport(machine, requested) \in Reports
         /\ BuildReport(machine, requested).browser = RecommendBrowser(DetectAll(machine), requested)
  <1> DEFINE capabilities == DetectAll(machine)
             browser == RecommendBrowser(capabilities, requested)
             shown == NotRequiredDowngrades(capabilities, browser)
  <1>1. capabilities \in Seq(Known)
    BY AvailableIsSeen
  <1>2. browser \in BrowserTypes \cup {None}
    BY Recommendation
  <1>3. BuildReport(machine, requested) = [capabilities |-> shown, browser |-> browser]
    BY DEF BuildReport
  <1> HIDE DEF capabilities, browser
  <1>4. ASSUME NEW n \in DOMAIN capabilities PROVE shown[n] \in Known
    <2> DEFINE c == capabilities[n]
    <2>1. c \in Known
      BY <1>1
    <2>2. shown[n] \in {c, [c EXCEPT !.status = "not_required"]}
      BY DEF NotRequiredDowngrades
    <2> HIDE DEF c
    <2>3. [c EXCEPT !.status = "not_required"] \in Known
      BY <2>1 DEF Known
    <2> QED
      BY <2>1, <2>2, <2>3
  <1>5. DOMAIN shown = 1 .. Len(capabilities) /\ Len(capabilities) \in Nat
        /\ shown = [n \in DOMAIN capabilities |-> shown[n]]
    BY <1>1 DEF NotRequiredDowngrades
  <1> HIDE DEF shown
  <1>6. shown \in Seq(Known)
    BY <1>1, <1>4, <1>5, IsASeq
  <1> QED
    BY <1>2, <1>3, <1>6 DEF Reports, browser, capabilities

\* A command whose file somebody else has touched promises nothing more, and
\* is otherwise as it was.
LEMMA Disturbance ==
  ASSUME Typed, NEW except
  PROVE  /\ Disturbed(except) \in [Jobs -> Job]
         /\ \A j \in Jobs : j = except => Disturbed(except)[j] = job[j]
         /\ \A j \in Jobs : j # except =>
               /\ Disturbed(except)[j].quiet = FALSE
               /\ Disturbed(except)[j].at = job[j].at /\ Disturbed(except)[j].lines = job[j].lines
               /\ Committed(job[j]) => Committed(Disturbed(except)[j])
  <1>1. ASSUME NEW j \in Jobs
        PROVE  LET r == [job[j] EXCEPT !.quiet = FALSE]
               IN  r \in Job /\ r.quiet = FALSE /\ r.at = job[j].at /\ r.lines = job[j].lines
                   /\ (Committed(job[j]) => Committed(r))
    <2>1. job[j] \in Job
      BY DEF Typed
    <2> QED
      BY <2>1 DEF Job, Committed
  <1>2. job \in [Jobs -> Job]
    BY DEF Typed
  <1> QED
    BY <1>1, <1>2 DEF Disturbed

\* A command that does not come to write, and leaves the file as it is.
LEMMA Settles ==
  ASSUME DInv, NEW j \in Jobs, NEW r \in Job, job' = [job EXCEPT ![j] = r],
         r.at \notin {"open", "write"}, Committed(r), Promised(r, dotenv),
         dotenv' = dotenv, mine' = mine, host' \in Machines, excuse' \in BOOLEAN,
         excuse \/ job[j].at = "write" => excuse'
  PROVE  DInv'
  <1>1. Typed'
    BY DEF DInv, Typed
  <1>2. /\ job'[j] = r
        /\ \A k \in Jobs : k # j => job'[k] = job[k]
    BY DEF DInv, Typed
  <1>3. \A k \in Jobs : Committed(job'[k]) /\ Promised(job'[k], dotenv')
    BY <1>2 DEF DInv
  <1>4. ~excuse' => ~excuse /\ job[j].at # "write"
    OBVIOUS
  <1>5. OneWriter'
    BY <1>2, <1>4 DEF DInv, OneWriter, Writing
  <1>6. Remembered'
    BY <1>2, <1>4 DEF DInv, Remembered, Writing
  <1>7. UserLinesSurvive'
    BY <1>2, <1>4 DEF DInv, UserLinesSurvive
  <1> QED
    BY <1>1, <1>3, <1>5, <1>6, <1>7 DEF DInv

\* The user edits the file.
LEMMA EditStep ==
  ASSUME DInv, job' = Disturbed(None), dotenv' \in Seq(Lines), mine' \subseteq UserLines,
         mine \subseteq ToSet(dotenv) => mine' \subseteq ToSet(dotenv'),
         excuse' = (excuse \/ \E j \in Jobs : Writing(j)), host' = host
  PROVE  DInv'
  <1>1. /\ job' \in [Jobs -> Job]
        /\ \A j \in Jobs : /\ job'[j].quiet = FALSE /\ job'[j].at = job[j].at
                           /\ Committed(job[j]) => Committed(job'[j])
    BY Disturbance, JobsAssumption DEF DInv
  <1>2. Typed'
    BY <1>1 DEF DInv, Typed
  <1>3. \A j \in Jobs : Committed(job'[j]) /\ Promised(job'[j], dotenv')
    BY <1>1 DEF DInv, Promised
  <1>4. ~excuse' => ~excuse /\ \A j \in Jobs : job[j].at \notin {"open", "write"}
    BY DEF Writing
  <1>5. OneWriter' /\ Remembered'
    BY <1>1, <1>4 DEF OneWriter, Remembered, Writing
  <1>6. UserLinesSurvive'
    BY <1>1, <1>4 DEF DInv, UserLinesSurvive
  <1> QED
    BY <1>2, <1>3, <1>5, <1>6 DEF DInv

LEMMA AddLineStep == ASSUME DInv, NEW line \in UserLines, AddLine(line) PROVE DInv'
  <1>1. dotenv \in Seq(Lines) /\ line \in Lines /\ mine \subseteq UserLines
    BY DEF DInv, Typed, Lines
  <1>2. dotenv' \in Seq(Lines) /\ ToSet(dotenv') = ToSet(dotenv) \cup {line}
    BY <1>1, ElementsOfAppend DEF AddLine
  <1> QED
    BY <1>1, <1>2, EditStep DEF AddLine

LEMMA RemoveLineStep == ASSUME DInv, NEW n \in DOMAIN dotenv, RemoveLine(n) PROVE DInv'
  <1>1. dotenv \in Seq(Lines) /\ mine \subseteq UserLines
    BY DEF DInv, Typed
  <1>2. dotenv' \in Seq(Lines) /\ ToSet(dotenv) \ {dotenv[n]} \subseteq ToSet(dotenv')
    BY <1>1, ElementsLeft DEF RemoveLine
  <1> QED
    BY <1>1, <1>2, EditStep DEF RemoveLine

\* A step that leaves the commands and the file alone.
LEMMA Apart ==
  ASSUME DInv, host' \in Machines, UNCHANGED <<dotenv, job, mine, excuse>>
  PROVE  DInv'
  <1>1. Typed'
    BY DEF DInv, Typed
  <1>2. OneWriter' /\ Remembered' /\ UserLinesSurvive'
    BY DEF DInv, OneWriter, Remembered, UserLinesSurvive, Writing
  <1> QED
    BY <1>1, <1>2 DEF DInv

\* A command that has not begun.
LEMMA AnIdleJob == Idle \in Job /\ Idle.at = "idle" /\ Idle.quiet = FALSE
  <1>1. <<>> \in Seq(Known) /\ <<>> \in Seq(Lines)
    OBVIOUS
  <1>2. NoOptions \in Options /\ NoReport \in Reports
    BY <1>1 DEF NoOptions, NoReport, Options, Reports
  <1>3. Idle = [at |-> "idle", options |-> NoOptions, report |-> NoReport, on |-> {}, change |-> None,
                lines |-> <<>>, quiet |-> FALSE, exit |-> None]
    BY DEF Idle
  <1>4. Idle \in Job
    BY <1>1, <1>2, <1>3 DEF Job, Stages
  <1> QED
    BY <1>3, <1>4

LEMMA ProbeStep ==
  ASSUME DInv, NEW j \in Jobs, NEW options \in CommandLines, Probe(j, options)
  PROVE  DInv'
  <1> DEFINE report == BuildReport(host, options.browser)
             stage == IF options.fix /\ report.browser # None THEN "plan" ELSE "save"
             r == [Idle EXCEPT !.at = stage, !.options = options, !.report = report, !.on = {host}]
  <1>1. host \in Machines /\ options \in Options /\ options.browser \in BrowserTypes \cup {None}
    BY CommandLinesAssumption DEF DInv, Typed, Options
  <1>2. report \in Reports /\ report.browser = RecommendBrowser(DetectAll(host), options.browser)
    BY <1>1, AReport
  <1>3. job' = [job EXCEPT ![j] = r] /\ UNCHANGED <<dotenv, mine, excuse, host>> /\ job[j].at = "idle"
    BY DEF Probe, Unwritten, Others
  <1>4. report.browser # None => report.browser \in BrowserTypes /\ options.browser \in {None, report.browser}
    BY <1>1, <1>2, Recommendation
  <1>5. stage \in {"plan", "save"} /\ (stage = "plan" => report.browser \in BrowserTypes)
    BY <1>4
  <1> HIDE DEF report, stage
  <1>6. stage \in Stages /\ {host} \in SUBSET Machines
    BY <1>1, <1>5 DEF Stages
  <1>7. /\ r \in Job /\ r.at = stage /\ r.options = options /\ r.report = report /\ r.on = {host}
        /\ r.quiet = FALSE
    BY <1>1, <1>2, <1>6, AnIdleJob DEF Job
  <1> HIDE DEF r
  <1>8. Committed(r) /\ Promised(r, dotenv) /\ r.at \notin {"open", "write"}
    BY <1>2, <1>4, <1>5, <1>7 DEF Committed, Promised
  <1>9. excuse \in BOOLEAN
    BY DEF DInv, Typed
  <1> QED
    BY <1>1, <1>3, <1>7, <1>8, <1>9, Settles

LEMMA PlanStep == ASSUME DInv, NEW j \in Jobs, Plan(j) PROVE DInv'
  <1> DEFINE browser == job[j].report.browser
             force == job[j].options.force
             change == PlanEnvChange(dotenv, browser, force)
             goesOn == change \in {"add", "update"} /\ ~job[j].options.dryRun
             single == Single(dotenv)
             stage == IF goesOn THEN "apply" ELSE "save"
             r == [job[j] EXCEPT !.at = stage, !.change = change, !.quiet = single]
  <1>1. job[j] \in Job /\ job[j].at = "plan" /\ job \in [Jobs -> Job] /\ dotenv \in Seq(Lines)
    BY DEF DInv, Typed, Plan
  <1>2. job' = [job EXCEPT ![j] = r] /\ UNCHANGED <<dotenv, mine, excuse, host>>
    <2>1. job' = [job EXCEPT ![j] = [@ EXCEPT !.at = stage, !.change = change, !.quiet = single]]
      BY Zenon DEF Plan, Single
    <2> QED
      BY <1>1, <2>1 DEF Plan, Unwritten, Others
  <1>3. browser \in BrowserTypes /\ force \in BOOLEAN /\ job[j].options.dryRun \in BOOLEAN
    <2>1. job[j].options \in Options
      BY <1>1 DEF Job
    <2> QED
      BY <1>1, <2>1 DEF DInv, Committed, Options
  <1>4. /\ change \in {"add", "update", "unchanged", "skipped_conflict"}
        /\ change = "update" =>
              force /\ \E n \in DOMAIN dotenv : IsKeyLine(dotenv[n], BrowserKey)
        /\ change = "unchanged" =>
              \E n \in DOMAIN dotenv : IsKeyLine(dotenv[n], BrowserKey) /\ Reads(dotenv[n], browser)
    <2> HIDE DEF browser, force
    <2> QED
      BY <1>1, <1>3, PlanMeans
  <1>5. single \in BOOLEAN /\ stage \in {"apply", "save"}
        /\ (stage = "apply" <=> change \in {"add", "update"} /\ ~job[j].options.dryRun)
    BY DEF Single
  <1>6. single /\ change = "unchanged" => DotenvValue(dotenv, BrowserKey) = browser
    BY <1>1, <1>4, UnchangedSays
  <1>7. Committed(job[j])
    BY DEF DInv
  <1> HIDE DEF change, single, stage
  <1>8. r \in Job
    BY <1>1, <1>4, <1>5 DEF Job, Stages
  <1>9. r.at = stage /\ r.change = change /\ r.quiet = single /\ r.options = job[j].options
        /\ r.report = job[j].report /\ r.on = job[j].on
    BY <1>1 DEF Job
  <1> HIDE DEF r
  <1>10. Committed(r)
    BY <1>1, <1>3, <1>4, <1>5, <1>7, <1>9 DEF Committed
  <1>11. stage = "apply" /\ single => Updatable(r, dotenv)
    BY <1>4, <1>9 DEF Updatable, single
  <1>12. stage = "save" /\ single => Kept(r, dotenv)
    BY <1>3, <1>4, <1>5, <1>6, <1>9 DEF Kept
  <1>13. Promised(r, dotenv)
    BY <1>5, <1>9, <1>11, <1>12 DEF Promised
  <1>14. excuse \in BOOLEAN /\ host \in Machines /\ r.at \notin {"open", "write"}
    BY <1>5, <1>9 DEF DInv, Typed
  <1> QED
    BY <1>1, <1>2, <1>8, <1>10, <1>13, <1>14, Settles

LEMMA SaveStep == ASSUME DInv, NEW j \in Jobs, Save(j) PROVE DInv'
  <1>1. job[j] \in Job /\ job[j].at = "save" /\ job \in [Jobs -> Job] /\ Promised(job[j], dotenv)
    BY DEF DInv, Typed, Save
  <1>2. PICK code \in {"0", "1", "3"} :
          job' = [job EXCEPT ![j] = [@ EXCEPT !.at = "idle", !.exit = code, !.on = {}, !.lines = <<>>,
                                              !.report.capabilities = <<>>]]
    BY DEF Save
  <1> DEFINE r == [job[j] EXCEPT !.at = "idle", !.exit = code, !.on = {}, !.lines = <<>>,
                                 !.report.capabilities = <<>>]
  <1>3. job' = [job EXCEPT ![j] = r] /\ UNCHANGED <<dotenv, mine, excuse, host>>
    BY <1>1, <1>2 DEF Save, Unwritten, Others
  <1>4. /\ r.at = "idle" /\ r.quiet = job[j].quiet /\ r.change = job[j].change
        /\ r.options = job[j].options /\ r.report.browser = job[j].report.browser
    BY <1>1 DEF Job, Reports
  <1>5. r \in Job
    <2>1. job[j].report \in Reports /\ <<>> \in Seq(Known) /\ <<>> \in Seq(Lines)
      BY <1>1 DEF Job
    <2>2. [job[j].report EXCEPT !.capabilities = <<>>] \in Reports
      BY <2>1 DEF Reports
    <2> QED
      BY <1>1, <2>1, <2>2 DEF Job, Stages
  <1> HIDE DEF r
  <1>6. Committed(r)
    BY <1>4 DEF Committed
  <1>7. Promised(r, dotenv)
    BY <1>1, <1>4 DEF Promised, Kept
  <1>8. excuse \in BOOLEAN /\ host \in Machines
    BY DEF DInv, Typed
  <1> QED
    BY <1>1, <1>3, <1>4, <1>5, <1>6, <1>7, <1>8, Settles

\* A command that is gone: it died, or could not open or write the file.
LEMMA Ended ==
  ASSUME NEW exit \in {"traceback", "killed"}, NEW lines
  PROVE  LET r == [Idle EXCEPT !.exit = exit]
         IN  r \in Job /\ r.at = "idle" /\ Committed(r) /\ Promised(r, lines)
  BY AnIdleJob DEF Job, Committed, Promised

LEMMA DieStep == ASSUME DInv, NEW j \in Jobs, Die(j) PROVE DInv'
  <1> DEFINE r == [Idle EXCEPT !.exit = "killed"]
  <1>1. r \in Job /\ r.at = "idle" /\ Committed(r) /\ Promised(r, dotenv)
    BY Ended
  <1>2. /\ job' = [job EXCEPT ![j] = r] /\ UNCHANGED <<dotenv, mine, host>>
        /\ excuse' = (excuse \/ job[j].at = "write")
    BY DEF Die, Others
  <1>3. excuse' \in BOOLEAN /\ host \in Machines
    BY <1>2 DEF DInv, Typed
  <1> HIDE DEF r
  <1> QED
    BY <1>1, <1>2, <1>3, Settles

LEMMA WriteFailsStep == ASSUME DInv, NEW j \in Jobs, WriteFails(j) PROVE DInv'
  <1> DEFINE r == [Idle EXCEPT !.exit = "traceback"]
  <1>1. r \in Job /\ r.at = "idle" /\ Committed(r) /\ Promised(r, dotenv)
    BY Ended
  <1>2. /\ job' = [job EXCEPT ![j] = r] /\ UNCHANGED <<dotenv, mine, host>>
        /\ excuse' = (excuse \/ job[j].at = "write")
    BY DEF WriteFails, Others
  <1>3. excuse' \in BOOLEAN /\ host \in Machines
    BY <1>2 DEF DInv, Typed
  <1> HIDE DEF r
  <1> QED
    BY <1>1, <1>2, <1>3, Settles

LEMMA ApplyStep == ASSUME DInv, NEW j \in Jobs, Apply(j) PROVE DInv'
  <1> DEFINE r == [job[j] EXCEPT !.at = "open", !.lines = dotenv]
  <1>1. /\ job[j] \in Job /\ job[j].at = "apply" /\ job \in [Jobs -> Job] /\ dotenv \in Seq(Lines)
        /\ Promised(job[j], dotenv) /\ Committed(job[j])
    BY DEF DInv, Typed, Apply
  <1>2. /\ job' = [job EXCEPT ![j] = r] /\ UNCHANGED <<dotenv, mine, host>>
        /\ excuse' = (excuse \/ \E other \in Jobs \ {j} : Writing(other))
    BY <1>1 DEF Apply, Others
  <1>3. /\ r.at = "open" /\ r.lines = dotenv /\ r.quiet = job[j].quiet /\ r.change = job[j].change
        /\ r.options = job[j].options /\ r.report = job[j].report /\ r.on = job[j].on
    BY <1>1 DEF Job
  <1>4. r \in Job
    BY <1>1 DEF Job, Stages
  <1> HIDE DEF r
  <1>5. Committed(r) /\ Promised(r, dotenv)
    BY <1>1, <1>3 DEF Committed, Promised, Updatable
  <1>6. /\ job'[j] = r
        /\ \A k \in Jobs : k # j => job'[k] = job[k]
    BY <1>1, <1>2
  <1>7. Typed'
    BY <1>2, <1>4 DEF DInv, Typed
  <1>8. \A k \in Jobs : Committed(job'[k]) /\ Promised(job'[k], dotenv')
    BY <1>2, <1>5, <1>6 DEF DInv
  <1>9. ~excuse' => ~excuse /\ \A k \in Jobs : k # j => job[k].at \notin {"open", "write"}
    BY <1>2 DEF Writing
  <1>10. OneWriter'
    BY <1>6, <1>9 DEF OneWriter, Writing
  <1>11. ~excuse' => mine \subseteq ToSet(dotenv)
    BY <1>1, <1>9 DEF DInv, UserLinesSurvive
  <1>12. Remembered'
    BY <1>2, <1>3, <1>6, <1>9, <1>11 DEF Remembered, Writing
  <1>13. UserLinesSurvive'
    BY <1>2, <1>11 DEF UserLinesSurvive
  <1> QED
    BY <1>7, <1>8, <1>10, <1>12, <1>13 DEF DInv

\* Truncating changes nothing but the file and what others can promise.
LEMMA OpenStep == ASSUME DInv, NEW j \in Jobs, Open(j) PROVE DInv'
  <1>1. /\ job[j] \in Job /\ job[j].at = "open" /\ job \in [Jobs -> Job] /\ Promised(job[j], dotenv)
        /\ Committed(job[j])
    BY DEF DInv, Typed, Open
  <1>2. CASE dotenv' = <<>> /\ Goes(j, "write") /\ UNCHANGED <<mine, excuse, host>>
    <2> DEFINE all == Disturbed(j)
               r == [all[j] EXCEPT !.at = "write"]
    <2>1. /\ all \in [Jobs -> Job] /\ all[j] = job[j]
          /\ \A k \in Jobs : k # j =>
                /\ all[k].quiet = FALSE /\ all[k].at = job[k].at /\ all[k].lines = job[k].lines
                /\ Committed(job[k]) => Committed(all[k])
      BY Disturbance DEF DInv
    <2>2. job' = [all EXCEPT ![j] = r]
      BY <1>2, <2>1 DEF Goes
    <2> HIDE DEF all
    <2>3. /\ r \in Job /\ r.at = "write" /\ r.lines = job[j].lines /\ r.quiet = job[j].quiet
          /\ r.change = job[j].change /\ r.options = job[j].options /\ r.report = job[j].report
          /\ r.on = job[j].on
      BY <1>1, <2>1 DEF Job, Stages
    <2> HIDE DEF r
    <2>4. Committed(r) /\ Promised(r, <<>>)
      BY <1>1, <2>3 DEF Committed, Promised, Updatable
    <2>5. job'[j] = r /\ \A k \in Jobs : k # j => job'[k] = all[k]
      BY <2>1, <2>2
    <2>6. Typed'
      <3>1. <<>> \in Seq(Lines) /\ job' \in [Jobs -> Job]
        BY <2>1, <2>2, <2>3
      <3> QED
        BY <1>2, <3>1 DEF DInv, Typed
    <2>7. \A k \in Jobs : Committed(job'[k]) /\ Promised(job'[k], dotenv')
      BY <1>2, <2>1, <2>4, <2>5 DEF DInv, Promised
    <2>8. \A k \in Jobs : /\ job'[k].at \in {"open", "write"} <=> job[k].at \in {"open", "write"}
                          /\ job'[k].lines = job[k].lines
      BY <1>1, <2>1, <2>3, <2>5
    <2>9. OneWriter' /\ Remembered'
      BY <1>2, <2>8 DEF DInv, OneWriter, Remembered, Writing
    <2>10. UserLinesSurvive'
      BY <2>3, <2>5 DEF UserLinesSurvive
    <2> QED
      BY <2>6, <2>7, <2>9, <2>10 DEF DInv
  <1>3. CASE /\ job' = [job EXCEPT ![j] = [Idle EXCEPT !.exit = "traceback"]]
             /\ UNCHANGED <<dotenv, mine, excuse, host>>
    <2> DEFINE r == [Idle EXCEPT !.exit = "traceback"]
    <2>1. r \in Job /\ r.at = "idle" /\ Committed(r) /\ Promised(r, dotenv)
      BY Ended
    <2>2. job' = [job EXCEPT ![j] = r]
      BY <1>3
    <2>3. excuse' \in BOOLEAN /\ host' \in Machines
      BY <1>3 DEF DInv, Typed
    <2> HIDE DEF r
    <2> QED
      BY <1>1, <1>3, <2>1, <2>2, <2>3, Settles
  <1> QED
    BY <1>2, <1>3 DEF Open, Unwritten, Others

\* Writing restores what the command remembers, and says what it promised.
LEMMA WriteStep == ASSUME DInv, NEW j \in Jobs, Write(j) PROVE DInv'
  <1> DEFINE all == Disturbed(j)
             r == [all[j] EXCEPT !.at = "save"]
             old == job[j].lines
             change == job[j].change
             browser == job[j].report.browser
             new == Applied(change, old, browser)
  <1>1. /\ job[j] \in Job /\ job[j].at = "write" /\ job \in [Jobs -> Job] /\ Promised(job[j], dotenv)
        /\ Committed(job[j]) /\ mine \subseteq UserLines
    BY DEF DInv, Typed, Write
  <1>2. /\ dotenv' = new /\ UNCHANGED <<excuse, host>>
        /\ mine' = IF job[j].options.force THEN {line \in mine : ~IsKeyLine(line, BrowserKey)} ELSE mine
    BY DEF Write, Others
  <1>3. /\ all \in [Jobs -> Job] /\ all[j] = job[j]
        /\ \A k \in Jobs : k # j =>
              /\ all[k].quiet = FALSE /\ all[k].at = job[k].at /\ all[k].lines = job[k].lines
              /\ Committed(job[k]) => Committed(all[k])
    BY Disturbance DEF DInv
  <1>4. job' = [all EXCEPT ![j] = r]
    BY <1>3 DEF Write, Goes
  <1> HIDE DEF all
  <1>5. /\ r \in Job /\ r.at = "save" /\ r.quiet = job[j].quiet /\ r.change = change
        /\ r.options = job[j].options /\ r.report = job[j].report /\ r.on = job[j].on
    BY <1>1, <1>3 DEF Job, Stages
  <1> HIDE DEF r
  <1>6. job'[j] = r /\ \A k \in Jobs : k # j => job'[k] = all[k]
    BY <1>3, <1>4
  <1>7. /\ browser \in BrowserTypes /\ change \in {"add", "update"}
        /\ change = "update" => job[j].options.force
    BY <1>1 DEF Committed
  <1>8. old \in Seq(Lines)
    BY <1>1 DEF Job
  <1>9. NewLine(browser) \in Lines
    BY <1>7 DEF Lines
  <1> HIDE DEF change, browser, old
  <1>10. /\ new \in Seq(Lines)
         /\ \A line \in ToSet(old) :
               ~(change = "update" /\ IsKeyLine(line, BrowserKey)) => line \in ToSet(new)
    BY <1>8, <1>9, AppliedKeeps
  <1>11. r.quiet => DotenvValue(new, BrowserKey) = browser
    <2> SUFFICES ASSUME r.quiet PROVE DotenvValue(new, BrowserKey) = browser
      OBVIOUS
    <2>1. Updatable(job[j], old)
      BY <1>1, <1>5 DEF Promised, old
    <2>2. Single(old) /\ (change = "update" => \E n \in DOMAIN old : IsKeyLine(old[n], BrowserKey))
      BY <2>1 DEF Updatable, change
    <2> QED
      BY <1>7, <1>8, <1>9, <2>2, AppliedSays
  <1> HIDE DEF new
  <1>12. Promised(r, new)
    <2>1. r.quiet => Kept(r, new)
      BY <1>5, <1>7, <1>11 DEF Kept, browser
    <2> QED
      BY <1>5, <2>1 DEF Promised
  <1>13. Committed(r)
    BY <1>1, <1>5 DEF Committed
  <1>14. Typed'
    <2>1. job' \in [Jobs -> Job]
      BY <1>3, <1>4, <1>5
    <2>2. mine' \subseteq UserLines
      BY <1>1, <1>2
    <2> QED
      BY <1>2, <1>10, <2>1, <2>2 DEF DInv, Typed
  <1>15. \A k \in Jobs : Committed(job'[k]) /\ Promised(job'[k], dotenv')
    BY <1>2, <1>3, <1>6, <1>12, <1>13 DEF DInv, Promised
  <1>16. ASSUME ~excuse'
         PROVE  /\ mine \subseteq ToSet(old)
                /\ \A k \in Jobs : job'[k].at \notin {"open", "write"}
    <2>1. ~excuse /\ Writing(j)
      BY <1>1, <1>2, <1>16 DEF Writing
    <2>2. mine \subseteq ToSet(old)
      BY <2>1 DEF DInv, Remembered, old
    <2>3. \A k \in Jobs : k # j => ~Writing(k)
      BY <2>1 DEF DInv, OneWriter
    <2>4. \A k \in Jobs : job'[k].at \notin {"open", "write"}
      BY <1>3, <1>5, <1>6, <2>3 DEF Writing
    <2> QED
      BY <2>2, <2>4
  <1>17. OneWriter' /\ Remembered'
    BY <1>16 DEF OneWriter, Remembered, Writing
  <1>18. ASSUME ~excuse' PROVE mine' \subseteq ToSet(dotenv')
    <2>1. ASSUME NEW line \in mine' PROVE line \in ToSet(dotenv')
      <3>1. line \in ToSet(old)
        BY <1>2, <1>16, <1>18, <2>1
      <3>2. ~(change = "update" /\ IsKeyLine(line, BrowserKey))
        BY <1>2, <1>7, <2>1
      <3> QED
        BY <1>2, <1>10, <3>1, <3>2
    <2> QED
      BY <2>1
  <1>19. UserLinesSurvive'
    BY <1>18 DEF UserLinesSurvive
  <1> QED
    BY <1>14, <1>15, <1>17, <1>19 DEF DInv

LEMMA InitialFile == ASSUME DoctorInit PROVE DInv
  <1>1. /\ host \in Machines /\ dotenv \in Dotenvs /\ job = [j \in Jobs |-> Idle]
        /\ mine = ToSet(dotenv) /\ excuse = FALSE
    BY DEF DoctorInit
  <1>2. dotenv \in Seq(UserLines)
    BY <1>1, LinesAssumption
  <1>3. mine \subseteq UserLines
    BY <1>1, <1>2 DEF ToSet
  <1>4. dotenv \in Seq(Lines)
    <2>1. UserLines \subseteq Lines
      BY DEF Lines
    <2> QED
      BY <1>2, <2>1, SeqMonotonic
  <1>5. Typed
    BY <1>1, <1>3, <1>4, AnIdleJob DEF Typed
  <1>6. ASSUME NEW j \in Jobs PROVE Committed(job[j]) /\ Promised(job[j], dotenv)
    BY <1>1, AnIdleJob DEF Committed, Promised
  <1>7. \A j \in Jobs : ~Writing(j)
    BY <1>1, AnIdleJob DEF Writing
  <1>8. OneWriter /\ Remembered /\ UserLinesSurvive
    BY <1>1, <1>7 DEF OneWriter, Remembered, UserLinesSurvive
  <1> QED
    BY <1>5, <1>6, <1>8 DEF DInv

\* The processes read the file and leave it as it is.
LEMMA ProcessStepIsApart == ASSUME NEW p, ProcessStep(p) PROVE Machinery
  BY DEF ProcessStep, StartProcess, GetSettings

LEMMA FileStep == ASSUME DInv, [DoctorNext]_doctorVars PROVE DInv'
  <1>0. host \in Machines
    BY DEF DInv, Typed
  <1>1. CASE UNCHANGED doctorVars
    BY <1>0, <1>1, Apart DEF doctorVars
  <1>2. CASE UserStep
    <2>1. CASE Install
      BY <2>1, Apart DEF Install
    <2> QED
      BY <1>2, <2>1, AddLineStep, RemoveLineStep DEF UserStep
  <1>3. ASSUME NEW j \in Jobs, (\E options \in CommandLines : Probe(j, options)) \/ DoctorStep(j) \/ Die(j)
        PROVE  DInv'
    BY <1>3, ProbeStep, PlanStep, ApplyStep, OpenStep, WriteStep, WriteFailsStep, SaveStep, DieStep
        DEF DoctorStep
  <1>4. ASSUME NEW p \in Processes, ProcessStep(p) PROVE DInv'
    BY <1>0, <1>4, ProcessStepIsApart, Apart DEF Machinery
  <1> QED
    BY <1>1, <1>2, <1>3, <1>4 DEF DoctorNext

LEMMA FileInvariant == DoctorSpec => []DInv
  <1>1. DoctorInit => DInv
    BY InitialFile
  <1>2. DInv /\ [DoctorNext]_doctorVars => DInv'
    BY FileStep
  <1> QED
    BY <1>1, <1>2, PTL DEF DoctorSpec

-----------------------------------------------------------------------------
(* The processes. *)

\* What get_settings makes of a process: its environment and its cache.
LEMMA GetSettingsMeans ==
  ASSUME PInv, NEW p \in Processes, NEW argument \in Arguments, GetSettings(p, argument),
         NEW own, own = dotenvOf[EnvironmentFor(process[p].environ, argument)],
         NEW loaded, loaded = LoadDotenv(LoadDotenv(process[p].environ, own), dotenv)
  PROVE  /\ process[p].running /\ {BrowserKey, EnvKey} \subseteq DOMAIN loaded
         /\ process' = [process EXCEPT ![p] = process'[p]] /\ DOMAIN process'[p] = Parts
         /\ process'[p].running = process[p].running /\ process'[p].shell = process[p].shell
         /\ process'[p].environ = loaded
         /\ \/ process'[p].cache = process[p].cache
            \/ /\ process'[p].cache = Caching(process[p].cache, argument, Resolved(loaded))
               /\ Resolved(loaded) \in BrowserTypes
         /\ \A key \in {BrowserKey, EnvKey} :
               loaded[key] = IF process[p].environ[key] # Unset THEN process[p].environ[key]
                             ELSE IF DotenvValue(own, key) # Unset THEN DotenvValue(own, key)
                             ELSE DotenvValue(dotenv, key)
  <1> DEFINE old == process[p]
             valid == Resolved(loaded) \in BrowserTypes
             cached(cache) == IF valid THEN Caching(cache, argument, Resolved(loaded)) ELSE cache
             mid == [old EXCEPT !.environ = loaded]
             new == [mid EXCEPT !.cache = cached(mid.cache)]
  <1>1. /\ process[p].running
        /\ process' = [process EXCEPT ![p].environ = loaded,
                                      ![p].cache = IF valid THEN Caching(@, argument, Resolved(loaded)) ELSE @]
    BY DEF GetSettings
  <1>2. process = [q \in Processes |-> process[q]] /\ Gives(old) /\ DOMAIN old = Parts
    BY <1>1 DEF PInv, Process
  <1>3. process' = [process EXCEPT ![p] = new]
    <2> HIDE DEF valid
    <2> QED
      BY <1>1, <1>2
  <1> HIDE DEF cached
  <1>4. /\ DOMAIN mid = Parts /\ mid.environ = loaded /\ mid.cache = old.cache
        /\ mid.running = old.running /\ mid.shell = old.shell
    BY <1>2 DEF Parts
  <1> HIDE DEF mid
  <1>5. /\ DOMAIN new = Parts /\ new.environ = loaded /\ new.cache = cached(old.cache)
        /\ new.running = old.running /\ new.shell = old.shell
    BY <1>4 DEF Parts
  <1> HIDE DEF new
  <1>6. process'[p] = new /\ process' = [process EXCEPT ![p] = process'[p]]
    BY <1>2, <1>3
  <1>7. DOMAIN loaded = DOMAIN old.environ /\ {BrowserKey, EnvKey} \subseteq DOMAIN old.environ
    BY <1>2, Loading DEF Gives
  <1>8. \A key \in {BrowserKey, EnvKey} :
           loaded[key] = IF old.environ[key] # Unset THEN old.environ[key]
                         ELSE IF DotenvValue(own, key) # Unset THEN DotenvValue(own, key)
                         ELSE DotenvValue(dotenv, key)
    BY <1>7, Loading
  <1>9. \/ process'[p].cache = process[p].cache
        \/ /\ process'[p].cache = Caching(process[p].cache, argument, Resolved(loaded))
           /\ Resolved(loaded) \in BrowserTypes
    BY <1>5, <1>6 DEF cached
  <1> QED
    BY <1>1, <1>5, <1>6, <1>7, <1>8, <1>9

LEMMA ProcessesStep == ASSUME PInv, [DoctorNext]_doctorVars PROVE PInv'
  <1>1. CASE process' = process
    BY <1>1 DEF PInv, Process, Gives
  <1>2. ASSUME NEW p \in Processes, NEW r, process' = [process EXCEPT ![p] = r], Process(r) PROVE PInv'
    BY <1>2 DEF PInv
  <1>3. ASSUME NEW p \in Processes, NEW shell \in Shells, StartProcess(p, shell) PROVE PInv'
    <2> DEFINE r == [running |-> TRUE, shell |-> shell[BrowserKey], environ |-> shell, cache |-> <<>>]
    <2>1. process' = [process EXCEPT ![p] = r]
      BY <1>3 DEF StartProcess
    <2>2. Process(r)
      <3>1. {BrowserKey, EnvKey} \subseteq DOMAIN shell
        BY ShellsAssumption
      <3> QED
        BY <3>1 DEF Process, Gives, Parts
    <2> HIDE DEF r
    <2> QED
      BY <1>2, <2>1, <2>2
  <1>4. ASSUME NEW p \in Processes, NEW argument \in Arguments, GetSettings(p, argument) PROVE PInv'
    <2> DEFINE own == dotenvOf[EnvironmentFor(process[p].environ, argument)]
               loaded == LoadDotenv(LoadDotenv(process[p].environ, own), dotenv)
    <2> HIDE DEF own, loaded
    <2> DEFINE old == process[p]
               r == process'[p]
    <2>1. /\ old.running /\ {BrowserKey, EnvKey} \subseteq DOMAIN loaded
          /\ process' = [process EXCEPT ![p] = r] /\ DOMAIN r = Parts
          /\ r.running = old.running /\ r.shell = old.shell /\ r.environ = loaded
          /\ \/ r.cache = old.cache
             \/ /\ r.cache = Caching(old.cache, argument, Resolved(loaded))
                /\ Resolved(loaded) \in BrowserTypes
          /\ \A key \in {BrowserKey, EnvKey} :
                loaded[key] = IF old.environ[key] # Unset THEN old.environ[key]
                              ELSE IF DotenvValue(own, key) # Unset THEN DotenvValue(own, key)
                              ELSE DotenvValue(dotenv, key)
      BY <1>4, GetSettingsMeans DEF own, loaded
    <2>2. Process(old) /\ Gives(old)
      BY <2>1 DEF PInv, Process
    <2> HIDE DEF old, r
    <2>3. old.shell # Unset => loaded[BrowserKey] = old.shell /\ Resolved(loaded) = old.shell
      BY <2>1, <2>2 DEF Gives, Resolved
    <2>4. DOMAIN r.cache \subseteq Arguments
      BY <2>1, <2>2 DEF Process, Caching
    <2>5. \A k \in DOMAIN r.cache : r.cache[k] \in BrowserTypes
      BY <2>1, <2>2 DEF Process, Caching
    <2>6. old.shell # Unset => \A k \in DOMAIN r.cache : r.cache[k] = old.shell
      BY <2>1, <2>2, <2>3 DEF Gives, Caching
    <2>7. Process(r)
      BY <2>1, <2>3, <2>4, <2>5, <2>6 DEF Process, Gives
    <2> QED
      BY <1>2, <2>1, <2>7
  <1>5. ASSUME NEW j \in Jobs, (\E options \in CommandLines : Probe(j, options)) \/ DoctorStep(j) \/ Die(j)
        PROVE  process' = process
    BY <1>5 DEF Probe, DoctorStep, Plan, Apply, Open, Write, WriteFails, Save, Die, Others
  <1>6. UserStep => process' = process
    BY DEF UserStep, Install, AddLine, RemoveLine
  <1> QED
    BY <1>1, <1>3, <1>4, <1>5, <1>6 DEF DoctorNext, ProcessStep, doctorVars

LEMMA ProcessInvariant == DoctorSpec => []PInv
  <1>1. DoctorInit => PInv
    <2>1. Process(Gone)
      BY DEF Process, Gone, Parts
    <2> QED
      BY <2>1 DEF DoctorInit, PInv
  <1>2. PInv /\ [DoctorNext]_doctorVars => PInv'
    BY ProcessesStep
  <1> QED
    BY <1>1, <1>2, PTL DEF DoctorSpec

-----------------------------------------------------------------------------
(* The theorems. *)

\* The state has its type, in the files, the commands and the processes.
THEOREM DoctorTypes == DoctorSpec => []DoctorTypeOK
  <1>1. DInv /\ PInv => DoctorTypeOK
    <2> SUFFICES ASSUME DInv, PInv PROVE DoctorTypeOK
      OBVIOUS
    <2>1. host \in Machines /\ dotenv \in Seq(Lines) /\ mine \subseteq UserLines
      BY DEF DInv, Typed
    <2>2. \A n \in DOMAIN dotenv : dotenv[n] \in UserLines \/ dotenv[n].value \in BrowserTypes
      <3>1. \A line \in Lines : line \in UserLines \/ line.value \in BrowserTypes
        BY DEF Lines, NewLine, EnvLine
      <3> QED
        BY <2>1, <3>1
    <2>3. ASSUME NEW j \in Jobs
          PROVE  /\ job[j].at \in Stages
                 /\ job[j].change \in {None, "add", "update", "unchanged", "skipped_conflict"}
                 /\ job[j].exit \in {None, "0", "1", "3", "traceback", "killed"}
                 /\ job[j].report.browser \in BrowserTypes \cup {None}
      <3>1. job[j] \in Job
        BY DEF DInv, Typed
      <3> QED
        BY <3>1 DEF Job, Reports
    <2>4. ASSUME NEW p \in Processes
          PROVE  /\ DOMAIN process[p].cache \subseteq Arguments
                 /\ \A k \in DOMAIN process[p].cache : process[p].cache[k] \in BrowserTypes
      BY DEF PInv, Process
    <2> QED
      BY <2>1, <2>2, <2>3, <2>4 DEF DoctorTypeOK
  <1> QED
    BY <1>1, FileInvariant, ProcessInvariant, PTL

\* No interleaving of the commands and of the user's edits loses a line of the
\* user's, but of two writers or of a death in the middle of a write.
THEOREM LinesSurvive == DoctorSpec => []UserLinesSurvive
  <1>1. DInv => UserLinesSurvive
    BY DEF DInv
  <1> QED
    BY <1>1, FileInvariant, PTL

\* A variable that the shell exports is in every settings object of the process.
THEOREM TheShellWins == DoctorSpec => []ShellWins
  <1>1. PInv => ShellWins
    BY DEF PInv, Process, Gives, ShellWins
  <1> QED
    BY <1>1, ProcessInvariant, PTL

\* What a finished doctor --fix wrote is what the next new settings object says.
THEOREM TestsSeeTheFix == DoctorSpec => FixReachesTests
  <1> DEFINE Reached(j, p, k) ==
        /\ process[p].running /\ k \in DOMAIN process'[p].cache
        /\ k \notin DOMAIN process[p].cache
        /\ process[p].environ[BrowserKey] = Unset
        /\ DotenvValue(dotenvOf[EnvironmentFor(process[p].environ, k)], BrowserKey) = Unset
        /\ job[j].quiet /\ job[j].at \in {"save", "idle"}
        /\ job[j].change \in {"add", "update", "unchanged"} /\ ~job[j].options.dryRun
        => process'[p].cache[k] = job[j].report.browser
  <1>1. ASSUME DInv, PInv, [DoctorNext]_doctorVars, NEW j \in Jobs, NEW p \in Processes, NEW k \in Arguments,
               process[p].running, k \in DOMAIN process'[p].cache, k \notin DOMAIN process[p].cache,
               process[p].environ[BrowserKey] = Unset,
               DotenvValue(dotenvOf[EnvironmentFor(process[p].environ, k)], BrowserKey) = Unset,
               job[j].quiet, job[j].at \in {"save", "idle"},
               job[j].change \in {"add", "update", "unchanged"}, ~job[j].options.dryRun
        PROVE  process'[p].cache[k] = job[j].report.browser
    <2>1. PICK argument \in Arguments : GetSettings(p, argument)
      <3>1. process' # process
        BY <1>1
      <3>2. ASSUME NEW q \in Processes, ProcessStep(q)
            PROVE  q = p /\ \E argument \in Arguments : GetSettings(p, argument)
        <4>1. process' = [process EXCEPT ![q] = process'[q]]
          BY <1>1, <3>2, GetSettingsMeans DEF ProcessStep, StartProcess, PInv
        <4>2. q = p
          BY <1>1, <4>1 DEF PInv
        <4>3. \A shell \in Shells : ~StartProcess(p, shell)
          BY <1>1 DEF StartProcess
        <4> QED
          BY <3>2, <4>2, <4>3 DEF ProcessStep
      <3>3. ASSUME NEW i \in Jobs, (\E options \in CommandLines : Probe(i, options)) \/ DoctorStep(i) \/ Die(i)
            PROVE  process' = process
        BY <3>3 DEF Probe, DoctorStep, Plan, Apply, Open, Write, WriteFails, Save, Die, Others
      <3>4. UserStep => process' = process
        BY DEF UserStep, Install, AddLine, RemoveLine
      <3> QED
        BY <1>1, <3>1, <3>2, <3>3, <3>4 DEF DoctorNext, doctorVars
    <2> DEFINE own == dotenvOf[EnvironmentFor(process[p].environ, argument)]
               loaded == LoadDotenv(LoadDotenv(process[p].environ, own), dotenv)
    <2> HIDE DEF own, loaded
    <2>2. /\ process'[p].cache \in
                {process[p].cache, Caching(process[p].cache, argument, Resolved(loaded))}
          /\ loaded[BrowserKey] = IF DotenvValue(own, BrowserKey) # Unset THEN DotenvValue(own, BrowserKey)
                                  ELSE DotenvValue(dotenv, BrowserKey)
      BY <1>1, <2>1, GetSettingsMeans DEF own, loaded
    <2>3. k = argument /\ process'[p].cache[k] = Resolved(loaded)
      BY <1>1, <2>2 DEF Caching
    <2>4. loaded[BrowserKey] = DotenvValue(dotenv, BrowserKey)
      BY <1>1, <2>2, <2>3 DEF own
    <2>5. job[j].report.browser \in BrowserTypes /\ DotenvValue(dotenv, BrowserKey) = job[j].report.browser
      BY <1>1 DEF DInv, Promised, Kept
    <2>6. Unset \notin BrowserTypes
      BY Requirements DEF Unset
    <2> QED
      BY <2>3, <2>4, <2>5, <2>6 DEF Resolved
  <1>2. DInv /\ PInv /\ [DoctorNext]_doctorVars
          => [\A j \in Jobs, p \in Processes, k \in Arguments : Reached(j, p, k)]_doctorVars
    BY <1>1
  <1>3. DoctorSpec => [][\A j \in Jobs, p \in Processes, k \in Arguments : Reached(j, p, k)]_doctorVars
    BY <1>2, FileInvariant, ProcessInvariant, PTL DEF DoctorSpec
  <1> QED
    BY <1>3 DEF FixReachesTests

\* The engine and the channel of each type.
LEMMA Channels ==
    /\ EngineChannel["chromium"] = <<"chromium", None>> /\ EngineChannel["firefox"] = <<"firefox", None>>
    /\ EngineChannel["safari"] = <<"webkit", None>>
    /\ EngineChannel["edge"] = <<"chromium", "msedge">> /\ EngineChannel["chrome"] = <<"chromium", "chrome">>
    /\ "msedge" # None /\ "chrome" # None
  BY DEF EngineChannel, None

\* A browser that is seen is launched there, or is a look-alike.
LEMMA SeenLaunches ==
  ASSUME NEW machine, NEW type \in BrowserTypes, Seen(machine, type)
  PROVE  Launches(machine, type) \/ LookAlike(machine, type)
  <1>1. CASE type \in {"chromium", "firefox", "safari"}
    <2> DEFINE engine == EngineChannel[type][1]
    <2>1. EngineChannel[type][2] = None /\ Downloaded(machine, engine)
      <3>1. CASE type = "chromium"
        BY <1>1, <3>1, Channels DEF Seen
      <3>2. CASE type = "firefox"
        BY <1>1, <3>2, Channels DEF Seen
      <3>3. CASE type = "safari"
        BY <1>1, <3>3, Channels DEF Seen
      <3> QED
        BY <1>1, <3>1, <3>2, <3>3
    <2> QED
      BY <2>1 DEF Launches, Downloaded
  <1>2. CASE type = "edge"
    <2>1. SystemHas(machine, "Microsoft Edge", EdgeCandidates)
      BY <1>2 DEF Seen
    <2>2. ChannelIsInstalled(machine, "msedge") \/ LookAlike(machine, "edge")
      BY <2>1 DEF SystemHas, EdgeCandidates, ChannelIsInstalled, LookAlike
    <2> QED
      BY <1>2, <2>2, Channels DEF Launches, LookAlike
  <1>3. CASE type = "chrome"
    <2>1. SystemHas(machine, "Google Chrome", ChromeCandidates)
      BY <1>3 DEF Seen
    <2>2. ChannelIsInstalled(machine, "chrome") \/ LookAlike(machine, "chrome")
      BY <2>1 DEF SystemHas, ChromeCandidates, ChannelIsInstalled, LookAlike
    <2> QED
      BY <1>3, <2>2, Channels DEF Launches, LookAlike
  <1> QED
    BY <1>1, <1>2, <1>3, Requirements

\* What is launched is seen.
LEMMA LaunchesIsSeen ==
  ASSUME NEW machine, NEW type \in BrowserTypes, Launches(machine, type)
  PROVE  Seen(machine, type)
  <1>1. CASE type = "chromium"
    BY <1>1, Channels DEF Launches, Seen, Downloaded
  <1>4. CASE type = "firefox"
    BY <1>4, Channels DEF Launches, Seen, Downloaded
  <1>5. CASE type = "safari"
    BY <1>5, Channels DEF Launches, Seen, Downloaded
  <1>2. CASE type = "edge"
    <2>1. ChannelIsInstalled(machine, "msedge")
      BY <1>2, Channels DEF Launches
    <2>2. SystemHas(machine, "Microsoft Edge", EdgeCandidates)
      BY <2>1 DEF SystemHas, EdgeCandidates, ChannelIsInstalled
    <2> QED
      BY <1>2, <2>2 DEF Seen
  <1>3. CASE type = "chrome"
    <2>1. ChannelIsInstalled(machine, "chrome")
      BY <1>3, Channels DEF Launches
    <2>2. SystemHas(machine, "Google Chrome", ChromeCandidates)
      BY <2>1 DEF SystemHas, ChromeCandidates, ChannelIsInstalled
    <2> QED
      BY <1>3, <2>2 DEF Seen
  <1> QED
    BY <1>1, <1>2, <1>3, <1>4, <1>5, Requirements

\* What the doctor recommends is what was asked for, and is launched on the
\* machine that was probed or is a look-alike of what a channel stands for; it
\* recommends none only where nothing that was asked for would launch.
THEOREM RecommendationsLaunch == DoctorSpec => []RecommendedLaunches
  <1> DEFINE Fit(j, machine) ==
               IF job[j].report.browser # None
               THEN Launches(machine, job[j].report.browser) \/ LookAlike(machine, job[j].report.browser)
               ELSE \A type \in BrowserTypes :
                       job[j].options.browser \in {None, type} => ~Launches(machine, type)
  <1>1. ASSUME DInv, NEW j \in Jobs, job[j].at # "idle"
        PROVE  /\ job[j].report.browser # None => job[j].options.browser \in {None, job[j].report.browser}
               /\ \A machine \in job[j].on : Fit(j, machine)
    <2> DEFINE browser == job[j].report.browser
               asked == job[j].options.browser
    <2>1. job[j] \in Job /\ Committed(job[j])
      BY <1>1 DEF DInv, Typed
    <2>2. /\ job[j].on \subseteq Machines /\ asked \in BrowserTypes \cup {None}
          /\ browser # None => asked \in {None, browser}
      BY <1>1, <2>1 DEF Job, Options, Committed
    <2>3. ASSUME NEW machine \in job[j].on PROVE Fit(j, machine)
      <3>1. machine \in Machines /\ browser = RecommendBrowser(DetectAll(machine), asked)
        BY <1>1, <2>1, <2>2 DEF Committed
      <3> DEFINE capabilities == DetectAll(machine)
      <3>2. \A type \in BrowserTypes : IsAvailable(type, capabilities) <=> Seen(machine, type)
        BY <3>1, AvailableIsSeen
      <3> HIDE DEF capabilities
      <3>3. CASE browser # None
        <4>1. browser \in BrowserTypes /\ IsAvailable(browser, capabilities)
          BY <2>2, <3>1, <3>3, Recommendation DEF capabilities
        <4> QED
          BY <3>2, <3>3, <4>1, SeenLaunches
      <3>4. CASE browser = None
        <4>1. \A type \in BrowserTypes : asked \in {None, type} => ~IsAvailable(type, capabilities)
          BY <2>2, <3>1, <3>4, NoRecommendation DEF capabilities
        <4> QED
          BY <3>2, <3>4, <4>1, LaunchesIsSeen
      <3> QED
        BY <3>3, <3>4
    <2> QED
      BY <2>2, <2>3
  <1>2. DInv => RecommendedLaunches
    BY <1>1 DEF RecommendedLaunches
  <1> QED
    BY <1>2, FileInvariant, PTL
=============================================================================
