------------------------------ MODULE Machine ------------------------------
(***************************************************************************)
(* framework/doctor/detectors.py, models.py and report.py: what the doctor *)
(* sees of a machine and the browser it recommends; browser_factory.py:    *)
(* what that browser is launched as.  A machine is a record                *)
(*   [system, venv, apps, commands, playwright, engines, daemon, compose,  *)
(*    repository]                                                          *)
(* with apps the browsers at their conventional places, commands what the  *)
(* PATH leads to, engines what Playwright has downloaded, compose what     *)
(* "docker compose version" prints, repository what git says of the        *)
(* project: "none", "clean", "dirty" or "silent" when status times out.    *)
(***************************************************************************)
EXTENDS Integers, Sequences, SequencesExt, FiniteSetsExt, TLC

None == "none"

Capability(name, category, available, required, status) ==
    [name |-> name, category |-> category, available |-> available,
     required |-> required, status |-> status]
Found(name, category, found) ==
    Capability(name, category, found, FALSE, IF found THEN "available" ELSE "missing")

DetectOperatingSystem(machine) ==
    << Capability("Operating System", "operating_system", TRUE, TRUE, "available"),
       Capability("Architecture", "operating_system", TRUE, FALSE, "available") >>

DetectPython(machine) ==
    << Capability("Python", "python", TRUE, TRUE, "available"),
       Capability("Virtual Environment", "python", machine.venv, FALSE,
                  IF machine.venv THEN "available" ELSE "not_required"),
       Found("Poetry", "python", "poetry" \in machine.commands) >>

DetectNode(machine) ==
    LET tools == <<"node", "npm", "npx">>
    IN  [n \in DOMAIN tools |-> Found(tools[n], "node", tools[n] \in machine.commands)]

\* On Linux a browser is a command, elsewhere a file at its place.
EdgeCandidates == {"microsoft-edge", "microsoft-edge-stable", "microsoft-edge-beta"}
ChromeCandidates == {"google-chrome", "google-chrome-stable", "chromium-browser", "chromium"}
FirefoxCandidates == {"firefox"}
SystemBrowser(machine, name, candidates) ==
    Found(name, "browser",
          \/ machine.system \in {"Windows", "macOS"} /\ name \in machine.apps
          \/ machine.system = "Linux" /\ candidates \cap machine.commands # {})
ManagedBrowser(machine, engine, label) ==
    Found(label, "browser", machine.playwright /\ engine \in machine.engines)
DetectBrowsers(machine) ==
    << SystemBrowser(machine, "Microsoft Edge", EdgeCandidates),
       SystemBrowser(machine, "Google Chrome", ChromeCandidates),
       SystemBrowser(machine, "Firefox", FirefoxCandidates),
       ManagedBrowser(machine, "chromium", "Playwright Chromium"),
       ManagedBrowser(machine, "firefox", "Playwright Firefox"),
       ManagedBrowser(machine, "webkit", "Playwright WebKit") >>

DetectFFmpeg(machine) == <<Found("FFmpeg", "ffmpeg", "ffmpeg" \in machine.commands)>>

\* What a probe prints counts, whatever its exit code and stream: an error
\* message of docker is a version of compose.
Prints(output) == output # "nothing"
DetectDocker(machine) ==
    LET docker == "docker" \in machine.commands
    IN  <<Found("Docker", "docker", docker)>>
        \o IF ~docker THEN <<>>
           ELSE << Capability("Docker Daemon", "docker", machine.daemon, FALSE,
                              IF machine.daemon THEN "available" ELSE "degraded"),
                   Found("Docker Compose", "docker", Prints(machine.compose)) >>

\* A status that times out prints nothing and so passes for clean.
DetectGit(machine) ==
    LET git == "git" \in machine.commands
        inside == machine.repository # "none"
        clean == machine.repository # "dirty"
    IN  <<Found("Git", "git", git)>>
        \o (IF git THEN <<Capability("Git Repository", "git", inside, FALSE,
                                     IF inside THEN "available" ELSE "not_required")>>
            ELSE <<>>)
        \o (IF git /\ inside THEN <<Capability("Working Tree", "git", clean, FALSE,
                                               IF clean THEN "available" ELSE "degraded")>>
            ELSE <<>>)

DetectAll(machine) ==
    DetectOperatingSystem(machine) \o DetectPython(machine) \o DetectNode(machine)
    \o DetectBrowsers(machine) \o DetectFFmpeg(machine) \o DetectDocker(machine)
    \o DetectGit(machine)

-----------------------------------------------------------------------------
(* Recommendation and report. *)

\* Mutant of Requirement: Firefox and Safari by the browsers of the machine.
RequirementOfSystem ==
    [chromium |-> "Playwright Chromium", edge |-> "Microsoft Edge", chrome |-> "Google Chrome",
     firefox |-> "Firefox", safari |-> "Playwright WebKit"]
Requirement ==
    [chromium |-> "Playwright Chromium", edge |-> "Microsoft Edge", chrome |-> "Google Chrome",
     firefox |-> "Playwright Firefox", safari |-> "Playwright WebKit"]
BrowserTypes == DOMAIN Requirement
Priority == <<"chromium", "edge", "chrome", "firefox", "safari">>

IsAvailable(type, capabilities) ==
    \E c \in ToSet(capabilities) : c.name = Requirement[type] /\ c.available

RecommendBrowser(capabilities, requested) ==
    LET order == IF requested = None THEN Priority ELSE <<requested>>
        first == SelectInSeq(order, LAMBDA type : IsAvailable(type, capabilities))
    IN  IF first = 0 THEN None ELSE order[first]

\* The other browsers that are missing are not needed once one is selected.
NotRequiredDowngrades(capabilities, selected) ==
    [n \in DOMAIN capabilities |->
        LET c == capabilities[n]
        IN  IF /\ selected # None /\ c.category = "browser" /\ c.status = "missing"
               /\ c.name # Requirement[selected]
            THEN [c EXCEPT !.status = "not_required"] ELSE c]

RequiredMissing(capabilities) == SelectSeq(capabilities, LAMBDA c : c.required /\ ~c.available)

BuildReport(machine, requested) ==
    LET capabilities == DetectAll(machine)
        browser == RecommendBrowser(capabilities, requested)
    IN  [capabilities |-> NotRequiredDowngrades(capabilities, browser), browser |-> browser]

\* What is printed: the status of each capability by category, and the verdict.
Categories == <<"operating_system", "python", "node", "browser", "ffmpeg", "docker", "git">>
CapabilityMatrix(capabilities) ==
    FlattenSeq([n \in DOMAIN Categories |->
        SelectSeq(capabilities, LAMBDA c : c.category = Categories[n])])
SummaryLine(report) ==
    CASE RequiredMissing(report.capabilities) # <<>> -> "failed"
      [] OTHER -> IF report.browser = None THEN "passed" ELSE "passed with a browser"

-----------------------------------------------------------------------------
(* BrowserFactory: engine and channel; a channel is an installed browser. *)

EngineChannel ==
    [chromium |-> <<"chromium", None>>, chrome |-> <<"chromium", "chrome">>,
     edge |-> <<"chromium", "msedge">>, firefox |-> <<"firefox", None>>, safari |-> <<"webkit", None>>]

\* Playwright launches a channel's stable build only.
ChannelIsInstalled(machine, channel) ==
    LET app == [chrome |-> "Google Chrome", msedge |-> "Microsoft Edge"]
        commands == [chrome |-> {"google-chrome", "google-chrome-stable"},
                     msedge |-> {"microsoft-edge", "microsoft-edge-stable"}]
    IN  \/ machine.system = "Linux" /\ commands[channel] \cap machine.commands # {}
        \/ machine.system \in {"Windows", "macOS"} /\ app[channel] \in machine.apps

Launches(machine, type) ==
    LET engine == EngineChannel[type][1]
        channel == EngineChannel[type][2]
    IN  /\ machine.playwright
        /\ IF channel = None THEN engine \in machine.engines ELSE ChannelIsInstalled(machine, channel)

\* The browsers that the doctor takes for a channel and the factory does not
\* launch: Chromium or Edge's beta on the PATH of a Linux, and whatever is
\* installed where Playwright is not.
LookAlike(machine, type) ==
    \/ type \in {"chrome", "edge"} /\ ~machine.playwright
    \/ /\ machine.system = "Linux"
       /\ \/ type = "chrome" /\ {"chromium-browser", "chromium"} \cap machine.commands # {}
          \/ type = "edge" /\ "microsoft-edge-beta" \in machine.commands
=============================================================================
