------------------------------ MODULE EnvFile ------------------------------
(***************************************************************************)
(* framework/doctor/env_writer.py and what framework/config/settings.py    *)
(* and python-dotenv make of the same file.  A dotenv file is a sequence   *)
(* of lines [key, form, value]: form "plain" is KEY=value, "quoted" is     *)
(* KEY="value" and "export" is export KEY=value; a comment has key Text.   *)
(***************************************************************************)
EXTENDS Integers, Sequences, SequencesExt

Text == "#"
Unset == "unset"
BrowserKey == "AUTOMATION_BROWSER"
EnvKey == "AUTOMATION_ENV"
EnvLine(key, form, value) == [key |-> key, form |-> form, value |-> value]

\* _KEY_LINE_PATTERN_TEMPLATE: no export in front; the value keeps its quotes.
IsKeyLine(line, key) == line.key = key /\ line.form \in {"plain", "quoted"}
Reads(line, value) == line.form = "plain" /\ line.value = value

\* plan_env_change looks at the first line only.
PlanEnvChange(lines, value, force) ==
    LET first == SelectInSeq(lines, LAMBDA line : IsKeyLine(line, BrowserKey))
    IN  CASE first = 0 -> "add"
          [] first # 0 /\ Reads(lines[first], value) -> "unchanged"
          [] first # 0 /\ ~Reads(lines[first], value) /\ force -> "update"
          [] OTHER -> "skipped_conflict"

\* apply_env_change: every line of the key, or a new one at the end.
Applied(change, lines, value) ==
    LET new == EnvLine(BrowserKey, "plain", value)
    IN  IF change = "update"
        THEN [n \in DOMAIN lines |-> IF IsKeyLine(lines[n], BrowserKey) THEN new ELSE lines[n]]
        ELSE Append(lines, new)

\* python-dotenv understands every form; the last line of a key counts.
DotenvValue(lines, key) ==
    LET last == SelectLastInSeq(lines, LAMBDA line : line.key = key)
    IN  IF last = 0 THEN Unset ELSE lines[last].value

\* Mutant of LoadDotenv: override=True.
LoadDotenvOver(environ, lines) ==
    [key \in DOMAIN environ |->
        IF DotenvValue(lines, key) = Unset THEN environ[key] ELSE DotenvValue(lines, key)]

\* load_dotenv(..., override=False) into the environment of the process.
LoadDotenv(environ, lines) ==
    [key \in DOMAIN environ |->
        IF environ[key] = Unset THEN DotenvValue(lines, key) ELSE environ[key]]

\* _resolve_env_placeholders of ${AUTOMATION_BROWSER:-chromium}.
Resolved(environ) ==
    IF environ[BrowserKey] = Unset THEN "chromium" ELSE environ[BrowserKey]
=============================================================================
