----------------------------- MODULE DoctorRun -----------------------------
(***************************************************************************)
(* python -m framework.doctor (doctor/__main__.py) and get_settings        *)
(* (config/settings.py) on one project: commands that may run at the same  *)
(* time, test processes that load their settings, and the user, who edits  *)
(* .env and installs browsers meanwhile.                                   *)
(***************************************************************************)
EXTENDS Machine, EnvFile

CONSTANTS
    Jobs,           \* doctor commands that may be under way at once
    Processes,      \* test processes
    Machines,       \* the states that the machine may be in
    CommandLines,   \* [browser, fix, dryRun, force, report]
    Environments,   \* the members of Environment in use
    Arguments,      \* what get_settings is called with: environments or None
    EnvFiles,       \* environment -> the lines of .env.{environment}, possible ones
    Dotenvs,        \* what .env may hold at first
    UserLines,      \* lines that the user may put into .env
    Shells,         \* what a process may inherit: key -> value or Unset
    MaxCommands,    \* bound: doctor commands
    MaxEdits        \* bound: edits of .env and changes of the machine

ASSUME EnvironmentsAssumption == "dev" \in Environments /\ Arguments \subseteq Environments \cup {None}
ASSUME JobsAssumption == None \notin Jobs
ASSUME MachinesAssumption == \A m \in Machines : {m.venv, m.playwright, m.daemon} \subseteq BOOLEAN
ASSUME CommandLinesAssumption ==
    CommandLines \subseteq [browser : BrowserTypes \cup {None}, fix : BOOLEAN, dryRun : BOOLEAN,
                            force : BOOLEAN, report : BOOLEAN]
ASSUME LinesAssumption == Dotenvs \subseteq Seq(UserLines)
ASSUME ShellsAssumption == \A shell \in Shells : {BrowserKey, EnvKey} \subseteq DOMAIN shell

VARIABLES
    host,           \* the machine
    dotenv,         \* the lines of .env
    dotenvOf,       \* environment -> the lines of .env.{environment}
    job,            \* the commands, see Idle
    process,        \* the test processes, see Gone
    mine,           \* the lines that the user has put into .env and not removed
    excuse,         \* lines may be lost: two wrote at once, or one broke off after truncating
    commands, edits

doctorVars == <<host, dotenv, dotenvOf, job, process, mine, excuse, commands, edits>>

Stages == {"idle", "plan", "apply", "open", "write", "save"}
NoReport == [browser |-> None, capabilities |-> <<>>]

NoOptions == [browser |-> None, fix |-> FALSE, dryRun |-> FALSE, force |-> FALSE, report |-> FALSE]

\* on: the machine that was probed, if any; lines: .env as apply read it; quiet: no one
\* else has touched .env since the plan, which found at most one line for the key.
Idle == [at |-> "idle", options |-> NoOptions, report |-> NoReport, on |-> {}, change |-> None,
         lines |-> <<>>, quiet |-> FALSE, exit |-> None]
\* environ: os.environ; cache: the cached settings' browser by argument.
Gone == [running |-> FALSE, shell |-> Unset, environ |-> None, cache |-> <<>>]

DoctorTypeOK ==
    /\ host \in Machines
    /\ \A n \in DOMAIN dotenv : dotenv[n] \in UserLines \/ dotenv[n].value \in BrowserTypes
    /\ \A j \in Jobs : /\ job[j].at \in Stages
                       /\ job[j].change \in {None, "add", "update", "unchanged", "skipped_conflict"}
                       /\ job[j].exit \in {None, "0", "1", "3", "traceback", "killed"}
                       /\ job[j].report.browser \in BrowserTypes \cup {None}
    /\ \A p \in Processes : /\ DOMAIN process[p].cache \subseteq Arguments
                            /\ \A k \in DOMAIN process[p].cache :
                                  process[p].cache[k] \in BrowserTypes
    /\ mine \subseteq UserLines

DoctorInit ==
    /\ host \in Machines /\ dotenv \in Dotenvs /\ dotenvOf \in EnvFiles
    /\ job = [j \in Jobs |-> Idle] /\ process = [p \in Processes |-> Gone]
    /\ mine = ToSet(dotenv) /\ excuse = FALSE /\ commands = 0 /\ edits = 0

Disturbed(except) ==
    [j \in Jobs |-> IF j = except THEN job[j] ELSE [job[j] EXCEPT !.quiet = FALSE]]
Writing(j) == job[j].at \in {"open", "write"}

-----------------------------------------------------------------------------
(* The user. *)

AddLine(line) ==
    /\ edits < MaxEdits /\ edits' = edits + 1
    /\ dotenv' = Append(dotenv, line) /\ mine' = mine \cup {line}
    /\ job' = Disturbed(None)
    /\ excuse' = (excuse \/ \E j \in Jobs : Writing(j))
    /\ UNCHANGED <<host, dotenvOf, process, commands>>

RemoveLine(n) ==
    /\ edits < MaxEdits /\ edits' = edits + 1
    /\ dotenv' = RemoveAt(dotenv, n) /\ mine' = mine \ {dotenv[n]}
    /\ job' = Disturbed(None)
    /\ excuse' = (excuse \/ \E j \in Jobs : Writing(j))
    /\ UNCHANGED <<host, dotenvOf, process, commands>>

Install ==
    /\ edits < MaxEdits /\ edits' = edits + 1
    /\ host' \in {machine \in Machines \ {host} : machine.system = host.system}
    /\ UNCHANGED <<dotenv, dotenvOf, job, process, mine, excuse, commands>>

-----------------------------------------------------------------------------
(* A doctor command. *)

Goes(j, stage) == job' = [Disturbed(j) EXCEPT ![j].at = stage]
Unwritten == UNCHANGED <<dotenv, mine, excuse>>
Others == UNCHANGED <<host, dotenvOf, process, edits>>

\* _build_report and the printing of it.
Probe(j, options) ==
    /\ job[j].at = "idle" /\ commands < MaxCommands /\ commands' = commands + 1
    /\ LET report == BuildReport(host, options.browser)
           fixes == options.fix /\ report.browser # None
       IN  job' = [job EXCEPT ![j] =
               [Idle EXCEPT !.at = IF fixes THEN "plan" ELSE "save",
                            !.options = options, !.report = report, !.on = {host}]]
    /\ Unwritten /\ Others

\* Mutant of Plan: --force is on unless it is a dry run.
PlanByForce(j) ==
    /\ job[j].at = "plan"
    /\ LET change == PlanEnvChange(dotenv, job[j].report.browser, ~job[j].options.dryRun)
           goesOn == change \in {"add", "update"} /\ ~job[j].options.dryRun
       IN  job' = [job EXCEPT ![j] = [@ EXCEPT !.at = IF goesOn THEN "apply" ELSE "save", !.change = change]]
    /\ Unwritten /\ Others /\ UNCHANGED commands

Plan(j) ==
    /\ job[j].at = "plan"
    /\ LET change == PlanEnvChange(dotenv, job[j].report.browser, job[j].options.force)
           goesOn == change \in {"add", "update"} /\ ~job[j].options.dryRun
           single == \A m, n \in DOMAIN dotenv :
                        {dotenv[m].key, dotenv[n].key} = {BrowserKey} => m = n
       IN  job' = [job EXCEPT ![j] = [@ EXCEPT !.at = IF goesOn THEN "apply" ELSE "save",
                                               !.change = change, !.quiet = single]]
    /\ Unwritten /\ Others /\ UNCHANGED commands

\* apply_env_change reads the file again.
Apply(j) ==
    /\ job[j].at = "apply"
    /\ job' = [job EXCEPT ![j] = [@ EXCEPT !.at = "open", !.lines = dotenv]]
    /\ excuse' = (excuse \/ \E other \in Jobs \ {j} : Writing(other))
    /\ UNCHANGED <<dotenv, mine>> /\ Others /\ UNCHANGED commands

\* write_text truncates, unless the file cannot be opened.
Open(j) ==
    /\ job[j].at = "open"
    /\ \/ /\ dotenv' = <<>> /\ Goes(j, "write")
          /\ UNCHANGED <<mine, excuse>>
       \/ /\ job' = [job EXCEPT ![j] = [Idle EXCEPT !.exit = "traceback"]]
          /\ Unwritten
    /\ Others /\ UNCHANGED commands

Write(j) ==
    /\ job[j].at = "write"
    /\ dotenv' = Applied(job[j].change, job[j].lines, job[j].report.browser)
    /\ mine' = IF job[j].options.force THEN {line \in mine : ~IsKeyLine(line, BrowserKey)} ELSE mine
    /\ Goes(j, "save")
    /\ Others /\ UNCHANGED <<excuse, commands>>

\* write_text truncated the file and fails, as on a full disk: the lines are lost.
WriteFails(j) ==
    /\ job[j].at = "write"
    /\ job' = [job EXCEPT ![j] = [Idle EXCEPT !.exit = "traceback"]]
    /\ excuse' = TRUE
    /\ UNCHANGED <<dotenv, mine>> /\ Others /\ UNCHANGED commands

\* --report comes last: it may fail when .env is already written.
Save(j) ==
    /\ job[j].at = "save"
    /\ LET verdict == IF SummaryLine(job[j].report) = "failed" THEN "3" ELSE "0"
       IN  \E code \in {verdict} \cup IF job[j].options.report THEN {"1"} ELSE {} :
               job' = [job EXCEPT ![j] = [@ EXCEPT !.at = "idle", !.exit = code, !.on = {}, !.lines = <<>>,
                                                !.report.capabilities = <<>>]]
    /\ Unwritten /\ Others /\ UNCHANGED commands

Die(j) ==
    /\ job[j].at # "idle"
    /\ job' = [job EXCEPT ![j] = [Idle EXCEPT !.exit = "killed"]]
    /\ excuse' = (excuse \/ job[j].at = "write")
    /\ UNCHANGED <<dotenv, mine>> /\ Others /\ UNCHANGED commands

-----------------------------------------------------------------------------
(* A test process. *)

Machinery == UNCHANGED <<host, dotenv, dotenvOf, job, mine, excuse, commands, edits>>

StartProcess(p, shell) ==
    /\ ~process[p].running
    /\ process' = [process EXCEPT ![p] = [running |-> TRUE, shell |-> shell[BrowserKey],
                                          environ |-> shell, cache |-> <<>>]]
    /\ Machinery

\* The environment that the argument, or AUTOMATION_ENV of the process or of
\* .env, names.
EnvironmentFor(environ, argument) ==
    CASE argument # None -> argument
      [] argument = None /\ environ[EnvKey] # Unset -> environ[EnvKey]
      [] OTHER -> IF DotenvValue(dotenv, EnvKey) = Unset THEN "dev" ELSE DotenvValue(dotenv, EnvKey)

\* lru_cache of get_settings, by argument.
Caching(cache, argument, browser) ==
    [k \in DOMAIN cache \cup {argument} |-> IF k = argument THEN browser ELSE cache[k]]

\* Mutant of GetSettings: .env is a fallback for a missing .env.{environment}.
GetSettingsOfOneFile(p, argument) ==
    LET environ == process[p].environ
        own == dotenvOf[EnvironmentFor(environ, argument)]
        loaded == LoadDotenv(environ, IF Len(own) = 0 /\ argument = None THEN dotenv ELSE own)
        valid == Resolved(loaded) \in BrowserTypes
    IN  /\ process[p].running /\ argument \notin DOMAIN process[p].cache
        /\ process' = [process EXCEPT ![p].environ = loaded,
                                      ![p].cache = IF valid THEN Caching(@, argument, Resolved(loaded)) ELSE @]
        /\ Machinery

\* A cached argument is answered without a look at the files; settings that do
\* not validate are not cached, but what was loaded stays loaded.
GetSettings(p, argument) ==
    LET environ == process[p].environ
        loaded == LoadDotenv(LoadDotenv(environ, dotenvOf[EnvironmentFor(environ, argument)]), dotenv)
        valid == Resolved(loaded) \in BrowserTypes
    IN  /\ process[p].running /\ argument \notin DOMAIN process[p].cache
        /\ process' = [process EXCEPT ![p].environ = loaded,
                                      ![p].cache = IF valid THEN Caching(@, argument, Resolved(loaded)) ELSE @]
        /\ Machinery

-----------------------------------------------------------------------------
UserStep == Install \/ (\E line \in UserLines : AddLine(line)) \/ (\E n \in DOMAIN dotenv : RemoveLine(n))
DoctorStep(j) == Plan(j) \/ Apply(j) \/ Open(j) \/ Write(j) \/ WriteFails(j) \/ Save(j)
ProcessStep(p) ==
    \/ \E shell \in Shells : StartProcess(p, shell)
    \/ \E argument \in Arguments : GetSettings(p, argument)

DoctorNext ==
    \/ UserStep
    \/ \E j \in Jobs : (\E options \in CommandLines : Probe(j, options)) \/ DoctorStep(j) \/ Die(j)
    \/ \E p \in Processes : ProcessStep(p)

DoctorSpec == DoctorInit /\ [][DoctorNext]_doctorVars

-----------------------------------------------------------------------------
(* Properties. *)

\* What the doctor recommends is what was asked for, and BrowserFactory launches
\* it on the machine that was probed or it is a look-alike of a channel's
\* browser; when it recommends none, nothing that was asked for would launch
\* (the table of required capabilities in report.py, "the name that must be
\* AVAILABLE for BrowserFactory to actually be able to launch it", against the
\* table of engines and channels in browser_factory.py).
RecommendedLaunches ==
    \A j \in Jobs :
        LET browser == job[j].report.browser
            asked == job[j].options.browser
        IN  job[j].at # "idle" =>
                /\ browser # None => asked \in {None, browser}
                /\ \A machine \in job[j].on :
                      IF browser # None THEN Launches(machine, browser) \/ LookAlike(machine, browser)
                      ELSE \A type \in BrowserTypes : asked \in {None, type} => ~Launches(machine, type)

\* The user's lines stay in .env: only --force changes one, and only a line of
\* the key.  Lost is at most what two writers, or a death or a failing write
\* after the file was truncated, account for (apply_env_change).
UserLinesSurvive ==
    (~excuse /\ \A j \in Jobs : job[j].at # "write") => mine \subseteq ToSet(dotenv)

\* A variable that the shell exports is what every settings object of the
\* process says, whichever environments are loaded and whatever the files say
\* or come to say (get_settings, load_dotenv with override=False).
ShellWins ==
    \A p \in Processes :
        process[p].running /\ process[p].shell # Unset
          => \A k \in DOMAIN process[p].cache : process[p].cache[k] = process[p].shell

\* Tests follow a fix: the first settings that a new process loads after it
\* have the recommended browser, unless the shell or .env.{environment} say
\* otherwise (doctor --fix writes where get_settings reads).
FixReachesTests ==
    [][\A j \in Jobs, p \in Processes, k \in Arguments :
        LET environ == process[p].environ
        IN  /\ process[p].running /\ k \in DOMAIN process'[p].cache
            /\ k \notin DOMAIN process[p].cache
            /\ environ[BrowserKey] = Unset
            /\ DotenvValue(dotenvOf[EnvironmentFor(environ, k)], BrowserKey) = Unset
            /\ job[j].quiet /\ job[j].at \in {"save", "idle"}
            /\ job[j].change \in {"add", "update", "unchanged"} /\ ~job[j].options.dryRun
            => process'[p].cache[k] = job[j].report.browser]_doctorVars

\* The documented layers, highest first: the shell, .env.{environment}, .env,
\* the default of the YAML file.
Layered(p, environment) ==
    LET layers == << process[p].shell, DotenvValue(dotenvOf[environment], BrowserKey),
                     DotenvValue(dotenv, BrowserKey), "chromium" >>
    IN  layers[SelectInSeq(layers, LAMBDA value : value # Unset)]

\* What a process loads for an environment is what its layers say (docstring of
\* get_settings); stated where nobody edits the files.
LayersHold ==
    [][\A p \in Processes, e \in Environments :
        /\ process[p].running /\ e \in DOMAIN process'[p].cache /\ e \notin DOMAIN process[p].cache
        => process'[p].cache[e] = Layered(p, e)]_doctorVars
=============================================================================
