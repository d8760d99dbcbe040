---------------------------- MODULE MCDoctorRun ----------------------------
(***************************************************************************)
(* Machines, command lines and .env lines for DoctorRun.                   *)
(***************************************************************************)
EXTENDS DoctorRun

Windows ==
    [system |-> "Windows", venv |-> TRUE, apps |-> {"Microsoft Edge", "Firefox"},
     commands |-> {"poetry", "node", "npm", "npx", "docker", "git"}, playwright |-> TRUE,
     engines |-> {}, daemon |-> FALSE, compose |-> "error", repository |-> "clean"]
Mac ==
    [Windows EXCEPT !.system = "macOS", !.apps = {"Google Chrome"}, !.engines = {"firefox", "webkit"},
                    !.daemon = TRUE, !.compose = "version", !.repository = "dirty"]
Linux ==
    [Windows EXCEPT !.system = "Linux", !.apps = {}, !.venv = FALSE, !.engines = {},
                    !.commands = {"git", "ffmpeg", "firefox", "google-chrome"}, !.repository = "none"]
\* Only browsers that pass for Chrome and Edge; and no Playwright to launch one.
LookAlikes == [Linux EXCEPT !.commands = {"git", "chromium", "microsoft-edge-beta"}]
Bare == [Linux EXCEPT !.playwright = FALSE]
MCMachines == {Linux, Mac, LookAlikes, Bare}

Doctor == [browser |-> None, fix |-> TRUE, dryRun |-> FALSE, force |-> FALSE, report |-> FALSE]
MCCommandLines ==
    { Doctor, [Doctor EXCEPT !.dryRun = TRUE],
      [Doctor EXCEPT !.browser = "firefox", !.force = TRUE, !.report = TRUE] }
MCBothEnvironments == {"dev", "qa"}
MCArguments == {None, "qa"}
MCUserLines ==
    { EnvLine(BrowserKey, "plain", "edge"), EnvLine(BrowserKey, "quoted", "firefox"),
      EnvLine(BrowserKey, "export", "chrome"), EnvLine(EnvKey, "plain", "qa"),
      EnvLine(BrowserKey, "plain", "") }
Chosen(form, browser) == EnvLine(BrowserKey, form, browser)
MCDotenvs ==
    { <<>>, <<EnvLine(EnvKey, "plain", "qa"), Chosen("plain", "edge")>>,
      <<Chosen("plain", "edge"), EnvLine(EnvKey, "plain", "qa"), Chosen("export", "chrome")>> }
MCEnvFiles ==
    {[dev |-> <<>>, qa |-> <<>>], [dev |-> <<EnvLine(BrowserKey, "plain", "safari")>>, qa |-> <<>>]}
Shell(browser) == (BrowserKey :> browser) @@ (EnvKey :> Unset)
MCShells == {Shell(Unset), Shell("edge")}
Symmetry == Permutations(Jobs)
=============================================================================
